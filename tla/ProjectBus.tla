----------------------------- MODULE ProjectBus -----------------------------
(***************************************************************************)
(* The git transport of one project: its branch at origin, the mirror's    *)
(* remote-tracking ref and branch ref, and the worktree the gateway syncs  *)
(* and publishes through (bus.Manager.Ensure, ProjectBus.Sync, Discover    *)
(* and PublishAtomicResult), while GPT pushes to the same branch and a     *)
(* `doctor` command runs Ensure in a process of its own.                   *)
(*                                                                         *)
(* A commit is the sequence of changes that leads to it, so one branch can *)
(* be fast-forwarded to another iff it is a prefix of it.  Every operation *)
(* holds the operation lock (module OperationLock); GPT does not.          *)
(***************************************************************************)
EXTENDS Naturals, Sequences, SequencesExt, FiniteSets

CONSTANTS
    Tasks,           \* task ids
    MaxNotes,        \* bound: GPT's pushes that concern no task
    Disturbances,    \* SUBSET {"crash", "network", "doctor", "checkpoint"}
    MaxDisturbances  \* bound: how many of them a behaviour contains

ASSUME BoundsAssumption == /\ MaxNotes \in Nat /\ MaxDisturbances \in Nat
                           /\ Disturbances \subseteq {"crash", "network", "doctor", "checkpoint"}

NoTask == "no task"
ASSUME TasksAssumption == NoTask \notin Tasks

TwoAttempts == 2
Attempts == 3  \* publishResultAttempt is called at most three times

VARIABLES
    remote,     \* project/<gateway>/<project> at origin; empty before bootstrap
    tracking,   \* refs/remotes/origin/... in the mirror, as of the last fetch
    head,       \* refs/heads/... in the mirror, which the worktree has checked out
    tree,       \* the commit that index and working files were last set to
    stray,      \* untracked files in the worktree
    modified,   \* checkpoint.json differs from the index
    staged,     \* SUBSET Tasks: results added to the index, with the checkpoint
    exists,     \* the worktree directory exists
    process,    \* "up" or "down"
    pc,         \* the worker's next git step
    task,       \* the task being published, or NoTask
    attempt,    \* publication attempts begun for it
    found,      \* tasks the last Discover returned
    concluded,  \* tasks with a final local status: never executed again
    claimed,    \* tasks whose publication returned without error
    disturbed   \* disturbances so far

gitVars  == <<tracking, head, tree, stray, modified, staged, exists>>
taskVars == <<task, attempt, found, concluded, claimed>>
vars == <<remote, gitVars, process, pc, taskVars, disturbed>>

Bootstrap == <<"init">>
Submission(t) == <<"submit", t>>
Note(n) == <<"note", n>>
ResultOf(t) == <<"result", t>>
\* A push that leaves a state/checkpoint.json no later commit repairs and
\* json.Unmarshal rejects; verifyIdentityLocked asks only whether the file exists.
BadCheckpoint == <<"bad checkpoint">>
Changes == {Bootstrap, BadCheckpoint} \cup {Submission(t) : t \in Tasks} \cup {ResultOf(t) : t \in Tasks}
           \cup {Note(n) : n \in 1..MaxNotes}
ResultFile(t) == <<"result file", t>>
ResultTemp(t) == <<"result temp", t>>
CheckpointTemp == <<"checkpoint temp">>
Strays == {ResultFile(t) : t \in Tasks} \cup {ResultTemp(t) : t \in Tasks}
          \cup {CheckpointTemp}

Has(history, change) == \E i \in 1..Len(history) : history[i] = change

\* `git status --porcelain` prints something.
Dirty == tree # head \/ stray # {} \/ modified \/ staged # {}

Steps == {"ensure", "point", "add worktree", "initialize", "first push", "idle",
          "check", "ready", "fetch", "reset", "look", "result temp", "result", "checkpoint temp",
          "checkpoint", "add", "commit", "push"}

TypeOK ==
    /\ remote \in Seq(Changes) /\ tracking \in Seq(Changes)
    /\ head \in Seq(Changes) /\ tree \in Seq(Changes)
    /\ stray \subseteq Strays
    /\ modified \in BOOLEAN /\ exists \in BOOLEAN
    /\ staged \subseteq Tasks /\ found \subseteq Tasks
    /\ concluded \subseteq Tasks /\ claimed \subseteq Tasks
    /\ process \in {"up", "down"}
    /\ pc \in Steps
    /\ task \in Tasks \cup {NoTask}
    /\ attempt \in 0..Attempts
    /\ disturbed \in 0..MaxDisturbances

Init ==
    /\ remote = <<>> /\ tracking = <<>> /\ head = <<>> /\ tree = <<>>
    /\ stray = {} /\ modified = FALSE /\ staged = {} /\ exists = FALSE
    /\ process = "up" /\ pc = "ensure"
    /\ task = NoTask /\ attempt = 0
    /\ found = {} /\ concluded = {} /\ claimed = {}
    /\ disturbed = 0

Disturb(kind) ==
    /\ kind \in Disturbances /\ disturbed < MaxDisturbances
    /\ disturbed' = disturbed + 1

At(s) == process = "up" /\ pc = s
Goto(s) == pc' = s
Fetch == tracking' = remote
\* `git reset --hard`: index and tracked files follow, untracked files stay.
ResetHard(commit) ==
    /\ head' = commit /\ tree' = commit
    /\ modified' = FALSE /\ staged' = {}
    /\ UNCHANGED <<stray, exists>>

-----------------------------------------------------------------------------
(* Manager.Ensure, at the start of a process.                              *)

\* A git command fails: Run returns the error, and the process ends with it.
Fails == process' = "down" /\ Goto("ensure")

EnsureFetch ==
    /\ At("ensure")
    /\ Fetch
    /\ Goto("point")
    /\ UNCHANGED <<remote, head, tree, stray, modified, staged, exists, process,
                   taskVars, disturbed>>

EnsureFails ==
    /\ At("ensure") /\ Disturb("network")
    /\ Fails
    /\ UNCHANGED <<remote, gitVars, taskVars>>

\* update-ref: to the fetched commit, or to the template when origin has no branch.
PointBranch ==
    /\ At("point")
    /\ head' = tracking
    /\ Goto("add worktree")
    /\ UNCHANGED <<remote, tracking, tree, stray, modified, staged, exists, process,
                   taskVars, disturbed>>

\* Only a missing worktree is created; an existing one keeps its files.
WorktreeOf(commit) ==
    /\ exists' = TRUE
    /\ IF exists THEN UNCHANGED <<tree, stray, modified, staged>>
       ELSE tree' = commit /\ stray' = {} /\ modified' = FALSE /\ staged' = {}

AddWorktree ==
    /\ At("add worktree")
    /\ WorktreeOf(head)
    /\ Goto(IF tracking = <<>> THEN "initialize" ELSE "idle")
    /\ UNCHANGED <<remote, tracking, head, process, taskVars, disturbed>>

\* bootstrapLocked empties the worktree, writes the layout, adds and commits.
Initialize ==
    /\ At("initialize")
    /\ head' = <<Bootstrap>> /\ tree' = <<Bootstrap>>
    /\ stray' = {} /\ modified' = FALSE /\ staged' = {}
    /\ Goto("first push")
    /\ UNCHANGED <<remote, tracking, exists, process, taskVars, disturbed>>

FirstPush ==
    /\ At("first push")
    /\ remote = <<>>
    /\ remote' = head /\ tracking' = head
    /\ Goto("idle")
    /\ UNCHANGED <<head, tree, stray, modified, staged, exists, process, taskVars,
                   disturbed>>

\* The connection fails during the first push: it was executed or not.
FirstPushInterrupted ==
    /\ At("first push") /\ Disturb("network")
    /\ remote = <<>> /\ remote' \in {remote, head}
    /\ Fails
    /\ UNCHANGED <<gitVars, taskVars>>

-----------------------------------------------------------------------------
(* ProjectBus.Sync and Discover.                                           *)

\* A fetch that fails ends the pass and changes nothing.
SyncFetch ==
    /\ At("idle")
    /\ Fetch
    /\ Goto("check")
    /\ UNCHANGED <<remote, head, tree, stray, modified, staged, exists, process,
                   taskVars, disturbed>>

SyncRefused ==
    /\ At("check") /\ Dirty
    /\ Goto("idle")
    /\ UNCHANGED <<remote, gitVars, process, taskVars, disturbed>>

\* The clean worktree is reset to the fetched commit; the open bundles in it
\* are the next batch.
SyncReset ==
    /\ At("check") /\ ~Dirty
    /\ ResetHard(tracking)
    /\ found' = {t \in Tasks : Has(tracking, Submission(t)) /\ ~Has(tracking, ResultOf(t))}
    /\ Goto("ready")
    /\ UNCHANGED <<remote, tracking, process, task, attempt, concluded, claimed,
                   disturbed>>

\* The pass ends; tasks without a result that are concluded locally are skipped.
PassDone ==
    /\ At("ready") /\ found \subseteq concluded
    /\ Goto("idle")
    /\ UNCHANGED <<remote, gitVars, process, taskVars, disturbed>>

-----------------------------------------------------------------------------
(* ProjectBus.PublishAtomicResult.                                         *)

\* The runner concluded a task; from here on its local status is final.
Conclude(t) ==
    /\ At("ready") /\ t \in found \ concluded
    /\ concluded' = concluded \cup {t}
    /\ task' = t /\ attempt' = 1
    /\ Goto("fetch")
    /\ UNCHANGED <<remote, gitVars, process, found, claimed, disturbed>>

Succeed ==
    /\ claimed' = claimed \cup {task}
    /\ attempt' = 0 /\ task' = NoTask /\ Goto("ready")

RetryThenSucceed ==
    IF attempt < Attempts
    THEN attempt' = attempt + 1 /\ Goto("fetch") /\ UNCHANGED <<task, claimed>>
    ELSE Succeed

RetryOnceMore ==
    IF attempt <= Attempts
    THEN attempt' = attempt + 1 /\ Goto("fetch") /\ UNCHANGED <<task, claimed>>
    ELSE attempt' = 0 /\ task' = NoTask /\ Goto("idle") /\ UNCHANGED claimed

\* A failed attempt is repeated; after the last one the error ends the pass.
Retry ==
    IF attempt < Attempts
    THEN attempt' = attempt + 1 /\ Goto("fetch") /\ UNCHANGED <<task, claimed>>
    ELSE attempt' = 0 /\ task' = NoTask /\ Goto("idle") /\ UNCHANGED claimed

PublishFetch ==
    /\ At("fetch")
    /\ Fetch
    /\ Goto("reset")
    /\ UNCHANGED <<remote, head, tree, stray, modified, staged, exists, process,
                   taskVars, disturbed>>

PublishKeepsHead ==
    /\ At("reset")
    /\ Goto("look")
    /\ UNCHANGED <<remote, gitVars, process, taskVars, disturbed>>

PublishReset ==
    /\ At("reset")
    /\ ResetHard(tracking)
    /\ Goto("look")
    /\ UNCHANGED <<remote, tracking, process, taskVars, disturbed>>

\* The result file is in the worktree: with this very content, left there or
\* pushed by an earlier attempt, the publication is done.  No other content is met:
\* GPT writes no results, and a file an earlier attempt left or pushed is this
\* publication's own, for a task is concluded once (StrayIsPast, ResultIsNew).
ResultPresent ==
    /\ At("look")
    /\ Has(tree, ResultOf(task)) \/ ResultFile(task) \in stray
    /\ Succeed
    /\ UNCHANGED <<remote, gitVars, process, found, concluded, disturbed>>

ResultAbsent ==
    /\ At("look")
    /\ ~Has(tree, ResultOf(task)) /\ ResultFile(task) \notin stray
    /\ Goto("result temp")
    /\ UNCHANGED <<remote, gitVars, process, taskVars, disturbed>>

\* writeFile creates a neighbour and renames it; the checkpoint is tracked, its
\* rename modifies it.
WriteStep(from, to) ==
    /\ At(from) /\ Goto(to)
    /\ UNCHANGED <<remote, tracking, head, tree, exists, process, taskVars, disturbed>>

WriteResultTemp ==
    /\ WriteStep("result temp", "result")
    /\ stray' = stray \cup {ResultTemp(task)}
    /\ UNCHANGED <<modified, staged>>

WriteResult ==
    /\ WriteStep("result", "checkpoint temp")
    /\ stray' = (stray \ {ResultTemp(task)}) \cup {ResultFile(task)}
    /\ UNCHANGED <<modified, staged>>

\* The old checkpoint does not decode: the attempt fails, its result file stays.
CheckpointRefused ==
    /\ At("checkpoint temp") /\ Has(tree, BadCheckpoint)
    /\ Retry
    /\ UNCHANGED <<remote, gitVars, process, found, concluded, disturbed>>

WriteCheckpointTemp ==
    /\ ~Has(tree, BadCheckpoint)
    /\ WriteStep("checkpoint temp", "checkpoint")
    /\ stray' = stray \cup {CheckpointTemp}
    /\ UNCHANGED <<modified, staged>>

WriteCheckpoint ==
    /\ WriteStep("checkpoint", "add")
    /\ stray' = stray \ {CheckpointTemp}
    /\ modified' = TRUE
    /\ UNCHANGED staged

Add ==
    /\ WriteStep("add", "commit")
    /\ stray' = stray \ {ResultFile(task)}
    /\ modified' = FALSE
    /\ staged' = staged \cup {task}

Commit ==
    /\ At("commit")
    /\ head' = Append(head, ResultOf(task))
    /\ tree' = head' /\ staged' = {}
    /\ Goto("push")
    /\ UNCHANGED <<remote, tracking, stray, modified, exists, process, taskVars,
                   disturbed>>

\* Without force, origin takes the commit only as a fast-forward.
PushForced == TRUE
PushAccepted == IsPrefix(remote, head)

Push ==
    /\ At("push") /\ PushAccepted
    /\ remote' = head /\ tracking' = head
    /\ Succeed
    /\ UNCHANGED <<head, tree, stray, modified, staged, exists, process, found,
                   concluded, disturbed>>

PushRejected ==
    /\ At("push") /\ ~PushAccepted
    /\ Retry
    /\ UNCHANGED <<remote, gitVars, process, found, concluded, disturbed>>

\* The connection fails during a push that origin would take: it was executed
\* or not, and the attempt counts as failed.
PushInterrupted ==
    /\ At("push") /\ PushAccepted /\ Disturb("network")
    /\ remote' \in {remote, head}
    /\ Retry
    /\ UNCHANGED <<gitVars, process, found, concluded>>

FetchFails ==
    /\ At("fetch") /\ Disturb("network")
    /\ Retry
    /\ UNCHANGED <<remote, gitVars, process, found, concluded>>

-----------------------------------------------------------------------------
(* The process, `doctor` in another process, and GPT.                      *)

\* Killed or stopped: which step the process was in is forgotten, files stay.
Crash ==
    /\ process = "up" /\ Disturb("crash")
    /\ process' = "down" /\ Goto("ensure")
    /\ task' = NoTask /\ attempt' = 0 /\ found' = {}
    /\ UNCHANGED <<remote, gitVars, concluded, claimed>>

Start ==
    /\ process = "down"
    /\ process' = "up"
    /\ UNCHANGED <<remote, gitVars, pc, taskVars, disturbed>>

\* Doctor calls Ensure: it gets the operation lock between two of the worker's
\* operations, and its own manager has no project registered yet.  One step: while
\* it holds the lock only GPT moves, and a push after its fetch is one after it all.
DoctorEnsure ==
    /\ process = "up" /\ pc \in {"idle", "ready", "fetch"}
    /\ Disturb("doctor")
    /\ Fetch /\ head' = remote /\ WorktreeOf(remote)
    /\ UNCHANGED <<remote, process, pc, taskVars>>

\* GPT appends to an initialised branch and pushes without force.
GptPush(change) ==
    /\ remote # <<>> /\ ~Has(remote, change)
    /\ remote' = Append(remote, change)
    /\ UNCHANGED <<gitVars, process, pc, taskVars>>

Gpt == \/ \E t \in Tasks : GptPush(Submission(t)) /\ UNCHANGED disturbed
       \/ \E n \in 1..MaxNotes : GptPush(Note(n)) /\ UNCHANGED disturbed
       \/ GptPush(BadCheckpoint) /\ Disturb("checkpoint")

Worker ==
    \/ EnsureFetch \/ EnsureFails \/ PointBranch \/ AddWorktree
    \/ Initialize \/ FirstPush \/ FirstPushInterrupted
    \/ SyncFetch \/ SyncRefused \/ SyncReset \/ PassDone
    \/ \E t \in Tasks : Conclude(t)
    \/ PublishFetch \/ PublishReset \/ ResultPresent \/ ResultAbsent
    \/ WriteResultTemp \/ WriteResult
    \/ CheckpointRefused \/ WriteCheckpointTemp \/ WriteCheckpoint
    \/ Add \/ Commit \/ Push \/ PushRejected \/ PushInterrupted \/ FetchFails

Next == Worker \/ Crash \/ Start \/ DoctorEnsure \/ Gpt

Spec == Init /\ [][Next]_vars
FairSpec == Spec /\ WF_vars(Worker) /\ WF_vars(Start)

-----------------------------------------------------------------------------
(* Properties.                                                             *)

Submitted(t) == Has(remote, Submission(t))
Published(t) == Has(remote, ResultOf(t))

\* Git command by git command, with conflicts, crashes and a doctor in between,
\* the branch at origin is the result board that ProjectWorker takes it for:
\* each push submits one bundle, answers one that is submitted and has no answer,
\* or concerns no task; an answer comes at once and stays.
BranchBoard == INSTANCE ResultBoard WITH
    Digests <- {"content"}, NoBundle <- "no bundle",
    ReportableStates <- {"concluded"}, NoResult <- [state |-> "open", digest |-> "none"],
    inbox <- [t \in Tasks |-> IF Submitted(t) THEN "content" ELSE "no bundle"],
    results <- [t \in Tasks |-> IF Published(t) THEN [state |-> "concluded", digest |-> "content"]
                                ELSE [state |-> "open", digest |-> "none"]]
ImplementsBoard == BranchBoard!Board

\* The project branch is append-only: whoever pushes, whatever was interrupted
\* or rejected before, a push adds one change that the branch did not have, so
\* no commit of GPT is lost and no task has two result commits.
BranchOnlyGrows ==
    [][\E c \in Changes : remote' = Append(remote, c) /\ ~Has(remote, c)]_remote

\* PublishAtomicResult returns without error only if origin has the result: no
\* file left by a crash or a failed attempt, and no commit that was not pushed, is
\* taken for it.  With a checkpoint that does not decode it is otherwise: the second
\* attempt finds the file of the first and returns nil.
ClaimedIsPublished ==
    \A t \in claimed : Has(remote, ResultOf(t)) \/ Has(remote, BadCheckpoint)

\* An attempt commits exactly one result on top of what it fetched: nothing of a
\* rejected attempt, of GPT's files or of an earlier task gets into the commit.
PushedCommitIsOneResult ==
    pc = "push" => head = Append(tracking, ResultOf(task)) /\ ~Has(tracking, ResultOf(task))

\* The strengthening that makes these inductive.  Fetched commits are never
\* withdrawn; a publication works on the commit it fetched; while it does, nobody
\* else can push its result; a result file left behind belongs to a task that
\* will not be published again, or to one whose checkpoint did not decode.
PublishSteps == {"fetch", "reset", "look", "result temp", "result",
                 "checkpoint temp", "checkpoint", "add", "commit", "push"}
CommitSteps == {"result temp", "result", "checkpoint temp", "checkpoint", "add", "commit"}

FetchedIsKept == IsPrefix(tracking, remote)
TaskIsConcluded == IF pc \in PublishSteps THEN task \in concluded ELSE task = NoTask
WorksOnFetched ==
    /\ pc \in CommitSteps \cup {"look"} => head = tracking /\ tree = tracking
    /\ pc = "push" => head = Append(tracking, ResultOf(task))
    /\ pc = "first push" => head = <<Bootstrap>>
ResultIsNew ==
    /\ pc \in {"reset", "look"} => (Has(remote, ResultOf(task)) => Has(tracking, ResultOf(task)))
    /\ pc \in CommitSteps \cup {"push"} =>
            ~Has(tracking, ResultOf(task)) /\ ~Has(remote, ResultOf(task))
StrayIsPast ==
    \A t \in Tasks : ResultFile(t) \in stray =>
        /\ t \in concluded
        /\ t = task => \/ pc \in {"checkpoint temp", "checkpoint", "add"}
                       \/ Has(remote, BadCheckpoint)
OnlySubmitted == \A t \in found \cup concluded : Submitted(t)

IInv == /\ TypeOK /\ FetchedIsKept /\ TaskIsConcluded /\ WorksOnFetched
        /\ ResultIsNew /\ StrayIsPast /\ OnlySubmitted /\ ClaimedIsPublished

\* Without interruption two conflicting pushes cannot keep a result from origin:
\* the third attempt gets through.
TwoConflictsAreAbsorbed ==
    [](disturbed = 0) => \A t \in Tasks : Submitted(t) ~> Published(t)

\* A submitted task is discovered, also if the gateway was restarted.
SubmittedTaskIsFound ==
    \A t \in Tasks : Submitted(t) ~> (t \in found \/ Published(t))
=============================================================================
