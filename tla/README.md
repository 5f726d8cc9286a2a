# A TLA+ model of gpt-github-gateway

`gpt-github-gateway` polls branches of a private git repository (the *bus*) for task bundles that
GPT has pushed, executes each task in an isolated worktree of a local source repository with the
help of an Airelay agent session, and pushes the result back. What makes it hard is not any single
function: it is that GPT, the daemon, the agent, the owner and other gateway commands all change
the same branches, directories and worktrees, and that the daemon may be killed or stopped between
any two of those changes.

This directory holds TLA+ modules of that behaviour, TLC configurations that check small instances,
and TLAPS proofs that hold for every instance. Paths below are relative to `src/` unless they name a
module; the table in `PROJECT.json` ("map") gives the lines each definition translates.

## 1. The system

| Component | State it keeps | Operations | Interacts with | What makes it correct |
|---|---|---|---|---|
| **Project worker** `internal/app/app.go` | position in the queue; error and active-task maps in memory | `OnceProject`: sync, discover, materialise, run, publish; `Run`: one goroutine per project and a heartbeat | transport, task runner, control branch | tasks in order, one at a time; every task gets exactly one result, that of the executed content; restarts neither repeat nor lose work |
| **Task runner** `internal/task/runner.go` | `status.json`, `approval.json`, `agent-result.json`, `AGENT_RESPONSE.md` per task | `Run`, `finalizeAgentResult`, `Rollback`, `WriteStatus`, `WriteApproval` | source repository, Airelay, loopback API and CLI (same files, no lock) | local policy governs execution; an answer in hand is used, not thrown away |
| **Task and result documents** `internal/task/model.go`, `handoff.go` | none | validation, comparison of declared and actual scope, evidence and gates | runner | accepts what the schema allows; a claimed success is backed by evidence |
| **Task bundle** `internal/taskbundle` | the materialised task directory with its content marker | `Load`, `Validate`, `Materialize` | worker | one task id, one content |
| **Project branch transport** `internal/bus/bus.go` | mirror refs, one worktree per project, `project/<gateway>/<project>` at origin | `Ensure`, bootstrap, `Sync`, `Discover`, `PublishAtomicResult` | GPT's pushes, operation lock | append-only branch, one result commit per task |
| **Control branch** `internal/bus/bus.go` | `gateway/<gateway>` at origin: one snapshot | `PublishControl` with `--force-with-lease` | workers, heartbeat and shutdown all call it | the snapshot says what the gateway is doing; the lease has not lapsed while it runs |
| **Operation lock** `internal/bus/bus.go` | the directory `.git-operation.lock` and its modification time | acquire, age-based recovery, release | every git operation of daemon and commands | one operation at a time; never stuck for good |
| **Supervisor** `internal/supervisor` | `daemon.pid`, `daemon.lock` | `Start`, `Stop`, `Status`, `Acquire` | the daemon process | one daemon |
| **Command line and daemon** `cmd/gpt-github-gateway` | – | `run`, `once`, `doctor`, `task ...`; signal handling | all of the above | stops when told, without waiting for workers |
| **Loopback API** `internal/server` | – | approve, reject, rollback; read-only pages | runner | the owner's decisions |
| **Source repository access** `internal/gitx` | task worktrees, `agent/...` branches, backup refs | worktree add/remove, apply, reset, scope | runner | the owner's checkout is never touched |
| **Airelay client** `internal/airelay` | – (the session is external) | `EnsureSession`, `Prompt`, `WaitForResult` | runner | one prompt per task |
| **Configuration** `internal/config` | the configuration file | `Load`, `Save`, `Validate`, branch patterns | all | distinct projects get distinct branches |
| **Process execution** `internal/execx` | – | run under a context, start detached | all | a cancelled context ends every command |
| **Migration and bundle scripts** `scripts/` | – | run by hand, outside the gateway | bus | nothing lost in a migration |

Concurrency: one goroutine per project, the heartbeat, the HTTP handlers, the CLI commands in
processes of their own, the agent, and GPT. Failure: SIGTERM cancels one context, under which every
git and Airelay command then fails, and `runDaemon` returns without waiting for the workers; a kill
stops between any two writes; pushes are rejected or cut off; agents do not answer in time. Nothing
is rolled forward or back at a start: recovery is what the next poll makes of the files it finds.
The full list of hazards, each at its line and with the properties that would catch it, is in
`PROJECT.json`.

## 2. Modules

```
ResultBoard            what GPT may rely on (abstract)
   ^ implemented by ProjectWorker, and again by ProjectBus
ProjectWorker          queue, runner, local files, worktrees, agent, owner, daemon process
   |-- a discovery and a publication, atomic there, are opened up in
   |   ProjectBus        git commands of one project branch, GPT's pushes, doctor
   |      | each of whose operations is assumed exclusive, which is the business of
   |      OperationLock  the directory lock, its recovery, threads and processes
   |-- a bundle's content, a kind there, is opened up in
   |   TaskBundle        a bundle is unpacked into the task directory
   |      ^ extended by
   |      TaskExecution  documents, payload, scope and judgement, file by file
   |-- what the gateway says of itself meanwhile
   |   ControlBranch     heartbeat and workers publish snapshots
   |      | extends
   |      Configuration  defaults, validation and branch patterns (operators)
   |-- that there is one daemon is the business of
       Supervisor        run, start, stop and status, and their two files
```

`MC<Module>` gives each module its constants for TLC, `<Module>Proofs` holds its theorems.

### ResultBoard

The promise to GPT: a bundle is submitted under an id, and gets at most one result, in one step,
with a reportable state, which never changes afterwards. `ProjectWorker` implements it with the
identity mapping of `inbox` and `results` (property `ImplementsBoard`, theorem `BoardRefinement`).
`ProjectBus` implements it too (its own `ImplementsBoard`, theorem `BranchRefinement`): there inbox and
results are read off the branch at origin, contents and states being one each. So the publication that is
one step of `ProjectWorker` is one step for whoever looks at origin, although it takes up to three attempts
of ten steps each.

### ProjectWorker

State: the project branch as GPT sees it (`inbox`, `results`), whether git finds its worktree changed
(`dirty`, which `Sync` refuses), the task directory (`root` is the
marker with the bundle's SHA-256, `"bare"` a directory without one), `status`, `approval`, the
isolated `worktree` and its `branch`, the two agent outputs (`verdict`, `response`), prompts being
worked on (`working`), the process (`daemon`, `mode`), and the worker's position (`pc`, `batch`, the
rest of the last `Discover`, and `outcome`). `consented` is history. All of it but the worker's
position survives a crash.

Actions follow `OnceProject` and `Runner.Run` from one point at which another actor or a crash can
come between to the next: `Discover`, which needs a clean worktree and that every bundle on the branch
loads (`Discoverable`), and otherwise `DiscoverFails`; `MaterializeRefused`, `QueueHeld`, `SkipTask`,
`TakeTask` (the loop's four ways); `RefusePack`, `RefuseByPolicy`, `ResumeAnswer`, `BeginPreparation`;
`PrepareWorktree`, `ApplyPatch`, `ReturnPatch`, `ResetForRepair` with their failures; behind a patch that
applied or was reset, overlay, deletions and comparison (`ScopeAgrees`, `NothingToCompare`, `ScopeDiffers`,
`PayloadFails`); `WriteHandoff`; `SessionReady`, `PromptDelivered`, `MarkRunning`, `AnswerArrives`; the last
look that finds no answer (`WaitEnds`) and, later, the timeout (`TimeOut`), between which an answer may still
arrive; `AcceptAnswer`, `DiscardAnswer`; `RecordFailure`, `Publish`, `PublishFailure`, `PublishFails`. Around
the worker: `Start`, `Crash`, `Stop`, `Exit`, and a `Doctor`, which like a start after the branch has moved
leaves the worktree dirty; the owner's `Approve`, `Reject` and the three steps of `Rollback`; the agent's
commits and outputs; GPT's `Submit` and `Replace`.

Data is abstracted to what the properties tell apart. A content (`Digests`) has a kind (`Pack`): what
executing it meets – it cannot be loaded, cannot be unpacked, is refused by the checks, is empty, applies,
conflicts, or leaves its declared scope. A verdict `"invalid"` is any agent output that does not decode or does
not pass its checks. A worktree is absent, at its base, patched, or has the agent's commits.

### ProjectBus

A commit is the sequence of changes that leads to it; a fast-forward is `IsPrefix`. State: `remote`
(the branch at origin), `tracking` and `head` (the mirror's two refs), `tree` (what index and files
were last set to), `stray`, `modified`, `staged` (what `git status` would print beyond that), the
worker's step, and which task is being published in which attempt. Actions are the git and file
commands of `Ensure` (`EnsureFetch`, `PointBranch`, `AddWorktree`, or an early end in `EnsureFails`),
bootstrap (`Initialize`, `FirstPush`, `FirstPushInterrupted`), `Sync` and `publishResultAttempt`, one each;
GPT pushes between any two of them. `DoctorEnsure` is `Ensure` in another process, which gets the lock between
two operations of the worker, and is therefore one step. One of GPT's pushes may leave a `state/checkpoint.json` that does not decode
(`BadCheckpoint`, a disturbance): every publication then fails after its result file is written
(`CheckpointRefused`).

### OperationLock

The lock directory (`creator`, `owned`: has its owner file, `age`: since its modification), and each
thread's position in `acquireOperationLock`. `os.RemoveAll` is two steps, the entries and the
directory, because another thread can create a new directory in between; writing into or emptying a
directory makes it young again. Behind the lock each process has the manager's mutex (`Enter`), one thread
at a time (`MutexIsExclusive`, a part of the type invariant).
A clock `Tick`s; `Exit` ends a process anywhere.

### Supervisor

State: what the process with each id is about to do (`step`) and last read (`seen`), `daemon.lock` (its
creator and its text), `daemon.pid` and its temporary name, and the loopback `port`. Each access to a file is
a step: `Acquire` opens, inspects, judges, removes by name and reopens; `run` writes the two files and
listens; `start` spawns a `run` and writes the pid of what it has released, which is -1; `stop` reads,
checks, signals, waits and forgets. Processes are killed anywhere, and their ids given out again.
`crossed` is history: a lock was created while another process was about to judge the one before it.
`once` acquires and releases as `run` does, without listening. The zombie that a dead child is while its
`start` lives is not modelled; the Unix build is.

### Configuration and ControlBranch

*Configuration* has operators only: `ApplyDefaults`, `Validate` with the timing and branch rules, the
expansion of patterns. A branch name is the sequence of its segments; fields that are only checked for
their own form are `wellFormed`.

*ControlBranch* is what the goroutines of a daemon publish. State: the configuration `file` and what the
daemon loaded, the steps of `App.Run` (`main`), of each project's `worker`, the ticker (`timer`, and `due`,
a tick in its channel), the shared maps as `active`, `errors` and `lastError`, per thread the snapshot it is
publishing (`pending`), and the `branch`. A snapshot is made first (`Compute`) and pushed later (`Push`), so
snapshots overtake each other. What a snapshot says of the projects is kept as whether it is still so
(`current`); its `age` is the time since its lease was counted. A pass ends with its errors cleared
(`PassEnds`) or, when an earlier task holds the queue, with the errors as they are (`QueueHeld`). A cancelled
context fails every publication but an alarm and the farewell. `raising` is history: the projects whose error
was recorded before the signal and whose alarm is still to come.

### TaskBundle and TaskExecution

*TaskBundle*: `Load`'s checks, then `Materialize` in the steps between which it can be killed or fail: clear
`root.tmp`, extract entry by entry with the running total, write the documents, write the marker, rename.
GPT replaces the bundle and the owner approves early. The marker only covers the archive. `awaited` is
history: the bundle in the inbox, if it was loaded while there was no directory. `SoundBundleUnpacked` has two
exceptions: an early approval leaves a directory without a marker, and a sound bundle that was not loaded while
there was no directory may find the one of the bundle it replaces. Both are refused for ever.

*TaskExecution* extends it by the runner: manifest and handoff checks; worktree, patch, reset, overlay and
deletions on the files of a small repository; `git diff`'s account of them with every pairing of added files
as renames or copies that git may choose; the comparison with the declared scope; handoff, prompt, agent,
and the judgement of the agent's result against the gates. The mode is automatic: decisions are
ProjectWorker's. `ScopeIsExact` compares with what git would record (`Difference`): a file is seen if it is in
the index or not ignored (`Recorded`). It has an exception that the attempt to prove it brought up. A pack whose
patch deletes a file of the base and whose overlay writes it again leaves a file that the index no longer has
(`Recreated`): `git diff` lists it as deleted and `git ls-files --others` as untracked, so `ScopeFromBase` puts it
under deleted and created, which no valid manifest can declare (`validateScopeSets`), and the task can only end
with `needs_gpt_revision`; the pack `redo` of the `task` run does it. A repository may also track a file that
`.gitignore` matches. Such a file, recreated, is listed as deleted only (`Leftover`), because of
`--exclude-standard`: a manifest that declares its deletion is accepted, and the handoff calls the scope
verified, although the file is on disk. `HandoffInScope` therefore says that the declared scope is the recorded
difference, and that what is declared as deleted is gone from disk but for leftovers; the pack `edit` leaves one.

## 3. Runs

| Run | Expectation | Question |
|---|---|---|
| `worker_auto` | passes | Auto mode, two tasks, agents that may not answer, disturbed twice by crash, failed publication, failing Airelay or rollback: order, one at a time, results agree with local status, answers survive, the board is implemented |
| `worker_manual` | passes | Manual and disabled mode, three out of owner decisions (early ones too), replaced bundles, crashes, stops, doctors, failed publications and failing Airelay: no second prompt after a result, only what was materialised is reported, local policy governs |
| `worker_recovery` | passes | Under fairness: undisturbed tasks are answered, and after a crash tasks whose agent answered are answered, unless they stay obstructed for good |
| `worker_approval` | violated | A waiting task is executed once the owner approves it |
| `worker_restart` | violated | A task that was taken up is answered after a crash |
| `bus` | passes | The branch only grows, a successful publication is at origin, an attempt pushes exactly one result, the branch is a result board, two conflicts are absorbed |
| `bus_restart` | violated | A submitted task is discovered, restarts included |
| `lock` | passes | Undisturbed operations are serialized; operations go on whatever was left behind |
| `lock_recovery` | violated | Operations are serialized |
| `supervisor` | passes | Gateways and commands on two files: one process holds the lock unless locks have crossed; the gateway comes to work again whatever was killed or stopped |
| `control` | passes | Heartbeat and two workers, valid and invalid files, failures, signals, kills: the lease holds, errors and status agree, offline is the last word but for alarms recorded before the signal, a lasting state is told |
| `task` | passes | Fifteen bundles, good and bad, unpacked and executed in a repository with a tracked file that is ignored: a directory is one bundle's whole content, the limits hold, a sound bundle is unpacked in the end (with the two exceptions above), the compared scope is the difference git records, the handoff calls verified what is the declared scope, a success is backed by its gates |

**Bounds.** Two tasks are what order, overtaking and a held queue need; ranks are fixed, submissions
come in any order, so the earlier task may arrive late. Contents: `worker_auto` has one that applies
and one that is corrupt, `worker_manual` one that applies, one that strays and an empty one, `worker_recovery`
one that conflicts, a corrupt, a malformed and an unusable one; together these are all seven kinds.
`MaxDisturbances` bounds crashes, stops, doctors, failures, decisions, rollbacks and replacements together: two
(`worker_auto`) let a second fault hit the recovery from the first; in `worker_manual`, where a task needs an
approval first, three let an approval, a replaced bundle and a crash meet; the one of `worker_recovery` is the
crash to recover from. `worker_manual` leaves auto mode to `worker_auto`; changes between all three modes are
covered by the theorems. An agent's timeout is not counted, nor is a branch that moves while the gateway is down. In `bus`, two tasks and one note give
three pushes of GPT and two tasks to publish, so one publication meets at most two conflicts besides
its own push, one less than the three attempts: with more of them a result is lost, which
`TwoConflictsAreAbsorbed` does not deny; three disturbances let a crash, a lost push and a doctor or a bad
checkpoint meet. In `lock`, `StaleAfter = 2` separates a fresh, an old and
a stale lock; three threads in two processes are a holder and two that recover, and one process may
end, restart included. In `supervisor`, three process ids are two gateways and a command, or a reused id;
two events (commands, kills, reuses) let a kill meet a recovery or a stop a start. In `control`, a heartbeat of
two ticks is the shortest that a publication of one tick leaves room in, the lease of five the shortest that
is more than two heartbeats, next to files with a lease of four and of three, with one branch for two
projects, with a project's branch that is the control branch, and with a pattern that does not expand; two
failures let a fault hit the publication that reports the first. In `task`, four paths are one to keep or
change, one to create, one that is ignored and one that is tracked although it is ignored, enough for a rename, a
copy, an untracked file and a leftover; three events are a submission and two
of kill, failed write, replacement and early approval; the file and total limits of two and four bytes are
below, at and above the sizes of the archives.

**Fairness.** `WF(Worker)`: the goroutine of a running daemon goes on, and git commands return.
`WF(Start)`: a gateway that is down is started again by its owner or service manager.
`WF(Exit)`: a stopping process ends (`Shutdown` has a five-second limit). Nothing is assumed of
owner, GPT or agent; where an answer is needed, `AgentsAnswer` is a premise of the property, not a
part of the specification. In `OperationLock` a thread inside an operation goes on, some thread
comes back with another one (workers poll, the heartbeat ticks), time passes, and an ended process is
restarted; no thread is promised the lock itself, since `Mkdir` is a race. In `Supervisor` every process goes
on, and the owner runs the gateway when no more than the bounded number of processes is there. In
`ControlBranch` time passes, the heartbeat goroutine takes its tick, and a publication ends; nothing is
assumed of the workers. In `TaskExecution` the worker's goroutine goes on, unpacking and running; nothing is
assumed of GPT, the owner and the agent.

**What stands in the way.** The two liveness properties of `ProjectWorker` have one exception, `Obstructed(t)`:
the bus worktree is dirty or some bundle on the branch does not load (either ends every pass in `Discover`), the
bundle of `t` or of an unanswered earlier task cannot be materialised, or an earlier task was left in the middle of
its preparation. Nothing in the gateway makes up for any of these by itself, and the property asks for the answer
unless one of them lasts for ever. No document promises anything to the tasks behind a broken bundle; that a
dirty worktree follows from a restart is `bus_restart`.

**Deadlock** is checked in every run.

### What the violated runs show

- `worker_approval`: `waiting_for_approval` is an outcome of `Run`, and `OnceProject` publishes every
  outcome as the result; `Discover` never returns the task again, so the approval, or a restart in
  auto mode, comes to nothing.
- `worker_restart`: a crash while the status is `preparing_worktree`, `applying_patch` or
  `patch_repair_required` leaves a task that holds the queue until an agent answers that was never
  prompted. In the same way, a status that became final just before a crash is never published.
- `bus_restart`: `Ensure` moves the branch ref under the checked-out worktree; `Sync` finds it dirty
  at every later poll.
- `lock_recovery`: the stale lock's age is looked at before the directory is removed, and the second
  recoverer removes the first one's new lock.

`ProjectWorker` also reaches states in which an agent that did not answer in time is still working while the
next task is prompted in the same session, and states in which a gateway restarted in manual mode reports
`waiting_for_approval` for a task that auto mode had dispatched. `ProjectBus` reaches a publication that reports
success without a result at origin: the checkpoint does not decode, the attempt fails behind its result file,
and the next attempt takes that file for a published result. All three are hazards in `PROJECT.json`; no
property claims them away.

## 4. Proofs

All theorems hold for every value of the constants that satisfies the modules' `ASSUME`s (ranks are
injective, kinds and bounds have their types, special values are not ordinary ones). Each component
has an inductive invariant, which was checked by TLC before it was proved, with a lemma for
the initial state, one per group of actions, and a theorem per property that follows from it. Every safety
invariant and every action property that a passing run checks is a theorem; only liveness is not.

**ProjectWorkerProofs** – `Invariance`, `TypeCorrect`, `ContentTheorem`, `StatusTheorem`,
`NoRedispatchTheorem`, `OrderTheorem`, `HoldTheorem`, `PolicyTheorem`, `AnswerTheorem`, `BoardRefinement`. None of the safety
properties is inductive: that a result agrees with `status` needs to know that between `Conclude` and
the publication the status already is the outcome (`OutcomeIsStatus`); that it names the executed
content, and that the result is new, needs what the batch promises about the task in hand
(`BatchIsOpen`), which in turn needs that only materialised tasks have a status or a rollback
(`OnlyMaterializedChange`); order needs that everything the pass has left behind is settled
(`PassedIsSettled`), which survives a rollback because `rolled_back` is a final state. Two more invariants
stand beside it: `PolicyInv` (from the mode switch to the prompt the task in hand is permitted, because the
mode only changes while nothing is in hand) carries `PolicyTheorem`; `NotYetRunning` (no task is marked as
running between its preparation and its mark) carries `AnswerTheorem`, since only there are outputs removed.
`BoardRefinement` shows that `Publish`, `PublishFailure` and a publication that failed after it
reached origin are `Answer` steps, `Submit` and `Replace` are `Submit` steps, and all others stutter.

**ProjectBusProofs** – `BusInvariance`, `BusTypeCorrect`, `ClaimTheorem`, `CommitTheorem`,
`GrowthTheorem`, `BranchRefinement`. The argument: what was fetched is a prefix of origin (`FetchedIsKept`); from reset to
push the worktree is at the fetched commit (`WorksOnFetched`), which has no result for the task, and
neither has origin, because nobody else publishes it (`ResultIsNew`). An accepted push then lies
between the fetched commit and its child, so it adds one change (`AcceptedPush`). The early return
for a result file that is already there is sound only because an untracked result file belongs to a
task that will not be published again (`StrayIsPast`). The one exception, which `ClaimedIsPublished` names,
is a checkpoint at origin that does not decode. For `BranchRefinement` the invariant also says that what was
found or concluded is submitted (`OnlySubmitted`), which lasts because the branch only grows; then every push
is a submission, the answer to a submitted and unanswered task, or concerns no task (`PushIsBoardStep`).

**OperationLockProofs** – `LockInvariance`, `LockTypeCorrect`, `ExclusionTheorem`, for any number of
threads and processes. The type invariant contains the mutex: no two threads of a process are behind it.
While no process has ended and no operation outlives the interval, the
directory belongs to the thread that holds it and is no older than the hold (`HolderIsCreator`,
`LockIsFresh`): its modification time is never before the `Mkdir`. Hence nobody finds it stale,
nobody recovers, and nobody but its creator removes it.

**SupervisorProofs** – `SupervisorInvariance`, `SupervisorTypeCorrect`, `OneGatewayTheorem`, for any number of
processes and events. Until locks have crossed, the lock file is its holder's; a process that is about to
judge a lock judges the one that is there, so it only removes the lock of a process that has ended, and a
process that holds has its own id, or nothing yet, in the file.

**TaskBundleProofs** – `BundleInvariance`, `BundleTypeCorrect`, `PackTheorem`, for any bundles and any number of
kills, failed writes and replacements. The invariant `PackInv` says at each step of an attempt what `root.tmp`
holds: after clearing, exactly the entries read so far, of the bundle in hand, each file once; hence what is
renamed is whole. What an earlier attempt has left is only spoken of before it is cleared.
`BoundedTheorem` (`PackIsBounded`) is about a sum over an archive of any length, which is a recursive function;
the provers have no induction over data, but unpacking is one: each step adds one entry, and the invariant
`SizeInv` says that the running total is the value that any such function has at that entry (`SumsStep`). A
bundle whose total is accepted is therefore within the limit as the reference definition `SizeOf` counts it.

**TaskExecutionProofs** – `ExecutionInvariance`, `ExecutionImplementsBundle`, `ExecutionKeepsPacks`,
`ExecutionTypeCorrect`, `ScopeTheorem`, `HandoffTheorem`, `SuccessTheorem`, for any repository, packs, agent
results and number of kills. The refinement comes first: a step of the runner leaves *TaskBundle*'s variables
alone, except that it ends the wait of the worker, so a pack stays what it is while it is executed
(`PackKept`), and the theorems of unpacking hold here too. `ScopeTheorem` is about the operators: whatever
pairing git chooses, the halves of a rename or copy are again the added and removed paths (`ScopeOfPairing`),
and the untracked ones that are not ignored are the rest of the recorded difference (`ScopeExact`). `HandoffTheorem` needs `HandoffInv` (from the comparison on
nobody touches the worktree before the prompt) and that a manifest's lists are disjoint (`DeclaredApart`),
which rules the recreated file out; a path declared as deleted and still on disk is then a leftover
(`DeletedOnDisk`). `SuccessTheorem` compares lengths: a result that reports known
gates only, none twice and each of them, has as many reports as there are gates (`GatesMatch`, by the
cardinality of the two sets); afterwards neither the pack nor what was accepted changes. That the repository
tracks no ignored file is not assumed.

**ControlBranchProofs** – `ControlInvariance`, `ControlTypeCorrect`, `LeaseTheorem`, `ErrorsTheorem`,
`OfflineTheorem`, for any projects, files, delay and number of failures. `Life` ties daemon,
goroutines and loaded configuration together; `ThreadInv` says who has something to publish; `ErrorInv`
that an error that is not yet the last one has a worker about to raise it; `RaisingInv` that a worker about to
raise an error or to publish its alarm after the signal is one whose error came before it, so that
`OfflineTheorem` can say that each alarm after the farewell is one of those, and comes once; the type invariant
includes that a project is active exactly while its worker announces or runs a task (`ActiveIsWorkedOn`). The lease is a matter of
arithmetic over two invariants: `BeatInv` (a publication is never older than the delay, the heartbeat looks
up when its tick is there) bounds how late a heartbeat is, and `AgeInv` says that the snapshot at origin is no
older than the delay and the time since the last tick, and one heartbeat more while the next one is on its
way. With two delays in a heartbeat and two heartbeats in a lease, as `Validate` requires, that is
less than the lease.

**Assumptions.** Bounds are naturals; ranks are injective; special values (`None`, `NoTask`, a bare
directory, the heartbeat's thread) are not ordinary ones. Beyond that: `DelayAssumption`, that a publication takes at
most half the smallest heartbeat, which the code does not enforce and without some such bound the lease cannot
hold; `FileAssumption`, the fields of a configuration file, whose lease and heartbeat are naturals after
decoding; `ExecutionAssumption`, that a pack's patch either removes a path or gives it the payload, that lists
are sequences, and that a well-formed agent result has one of the three statuses that `AgentResult.Validate` admits.

**Only model-checked:** liveness, which needs ENABLED and fairness: `UndisturbedTaskAnswered`,
`RecoverableTaskAnswered`, `TwoConflictsAreAbsorbed`, `OperationsGoOn`, `GatewayWorksAgain`,
`SoundBundleUnpacked` and `SnapshotCatchesUp`. Their runs' bounds are named in section 3.

## 5. Not modelled

- Syntax: JSON, the form of single fields, the headers of a tar entry. They are verdicts
  (`wellFormed`, `plain`), and so are the headings of a handoff and the pack's own verifier.
- In `ProjectWorker`, a transient failure of `Sync` changes nothing (`DiscoverFails` stutters); an overlay or
  deletions without a patch are not a kind of their own; disk failures and errors of local file writes; that two writers of one status
  share a temporary file; the errors, active-task map and snapshots that only feed the control branch.
- In `OperationLock`, a `Mkdir` that fails for another reason than an existing directory (the caller
  gets an error, as from `GiveUp`).
- In `Supervisor`, `os.WriteFile`'s truncation and write are one step.
- In `ProjectBus`, local git commands that fail without the network; the error of a result that is already
  present with another content, which no state reaches (`StrayIsPast`, `ResultIsNew`); the template pin and `verifyIdentity` (nothing in the system changes what they
  compare), bundles that do not load (`Discover` then ends the pass), local write failures, and more
  than one project: project branches and worktrees are disjoint, and the mirror they share is only
  used under the operation lock.
- In `ControlBranch`, that `Compute` reads errors, active tasks and positions under several locks, one after the
  other, and not at once; what a snapshot says beyond status, lease and whether it is current; git's objects
  behind a push, which one operation holds the lock for.
- In `TaskExecution`, a runner step that is cut off halfway (its status holds the queue, as in
  `worker_restart`), and a deletion that only delete-paths.txt lists, which the code does not compare.
- The bus migration script and the configuration commands: run by hand while the gateway is down.
- The HTTP pages, argument parsing, logging, and the scripts that build and validate bundles.
- Airelay itself: an agent session is what can receive a prompt and may write two files.

## 6. Plan

1. Proofs: what safety can say of the liveness properties, as that a task that is undisturbed and not yet
   published is still in the queue or being published, and that no lock outlives its recovery.
2. `writeJSONAtomic`: two writers of one file under one temporary name, as in *Supervisor*.
3. Composition: `ProjectBus`' operations under `OperationLock`, with two projects.
4. *Migration*: the order of its steps, and what an interruption leaves.
