--------------------------- MODULE ProjectWorker ---------------------------
(***************************************************************************)
(* One project of a gateway: its serial worker (app.OnceProject inside the *)
(* polling loop of app.Run), the task runner it calls (task.Runner.Run),   *)
(* the task directories and worktrees they keep on disk, the owner's       *)
(* approve, reject and rollback commands, the Airelay agent that answers   *)
(* in two files, and GPT, who submits bundles on the project branch.       *)
(*                                                                         *)
(* The daemon can be stopped or killed between any two steps; everything   *)
(* but the worker's own position survives.  The git transport behind the   *)
(* bus is a single step here; OperationLock and ProjectBus open it up.     *)
(***************************************************************************)
EXTENDS Naturals, FiniteSets

CONSTANTS
    Tasks,            \* task ids that may be submitted to this project
    Digests,          \* archive SHA-256 values: the identity of a bundle's content
    Rank,             \* [Tasks -> Nat]: order by submitted_at, then task_id
    Pack,             \* [Digests -> PackKinds]: what executing that content meets
    Modes,            \* execution modes the owner may configure between two starts
    AllowPatchRepair, \* gateway.allow_patch_repair
    Disturbances,     \* SUBSET DisturbanceKinds: what may come between
    MaxDisturbances,  \* bound: how many of them a behaviour contains
    NoBundle          \* no content: an empty inbox entry or queue place

PackKinds == {"malformed",  \* the bundle file cannot be loaded, or names another task
              "corrupt",    \* the archive cannot be unpacked
              "unusable",   \* refused by the checks that precede execution
              "empty",      \* neither patch, overlay nor deletions
              "applies",    \* the payload applies and stays in its declared scope
              "conflicts",  \* the patch does not apply to its base
              "strays"}     \* the payload applies but leaves its declared scope
DisturbanceKinds ==
    {"crash",      \* the daemon is killed
     "stop",       \* the daemon is told to stop
     "moved",      \* the branch moves while the gateway is down; not counted
     "doctor",     \* `doctor` moves the bus branch under its worktree (bus.Ensure)
     "publish",    \* a publication fails three times
     "airelay",    \* no promptable session, or the prompt command fails
     "timeout",    \* the agent does not answer in time; not counted, it ends a task
     "decision",   \* the owner approves or rejects a materialised task
     "early",      \* the owner decides on a task that is not materialised
     "rollback",   \* the owner rolls a task back
     "replace"}    \* GPT replaces a submitted bundle

ASSUME RankAssumption == /\ Rank \in [Tasks -> Nat]
                         /\ \A t, u \in Tasks : Rank[t] = Rank[u] => t = u
ASSUME PackAssumption == Pack \in [Digests -> PackKinds]
ASSUME ModesAssumption == Modes \subseteq {"auto", "manual", "disabled"}
ASSUME DisturbanceAssumption == /\ Disturbances \subseteq DisturbanceKinds
                                /\ MaxDisturbances \in Nat
ASSUME RepairAssumption == AllowPatchRepair \in BOOLEAN
ASSUME NoBundleAssumption == NoBundle \notin Digests /\ "absent" \notin Digests
                             /\ "bare" \notin Digests

VARIABLES
    inbox,      \* [Tasks -> content]: inbox/<task>.taskbundle.json on the branch
    results,    \* [Tasks -> result]: results/<task>.result.json on the branch
    dirty,      \* git finds the bus worktree changed: Sync refuses it
    root,       \* [Tasks -> ...]: local task directory, by its content marker
    status,     \* [Tasks -> State]: status.json
    approval,   \* [Tasks -> decision]: approval.json, "pending" when absent
    worktree,   \* [Tasks -> ...]: the isolated source worktree
    branch,     \* SUBSET Tasks: tasks whose agent/... result branch exists
    verdict,    \* [Tasks -> ...]: agent-result.json
    response,   \* SUBSET Tasks: tasks with an AGENT_RESPONSE.md
    working,    \* SUBSET Tasks: prompts delivered and not yet answered
    daemon,     \* "down", "up", or "stopping" once its context is cancelled
    mode,       \* gateway.task_execution_mode the daemon was started with
    pc,         \* the worker's next step
    batch,      \* [Tasks -> content]: what is left of the last Discover
    outcome,    \* the state the worker is about to publish
    rollingBack,\* [Tasks -> ...]: progress of an owner's rollback
    consented,  \* SUBSET Tasks: history, the owner approved this task once
    disturbed   \* Nat: disturbances so far

busVars   == <<inbox, results, dirty>>
taskVars  == <<root, status, approval, consented>>
gitVars   == <<worktree, branch>>
agentVars == <<verdict, response, working>>
procVars  == <<daemon, mode>>
workVars  == <<pc, batch, outcome>>
vars == <<busVars, taskVars, gitVars, agentVars, procVars, workVars,
          rollingBack, disturbed>>

Final == {"succeeded", "failed", "needs_gpt_revision", "rejected", "rolled_back",
          "agent_timeout", "agent_unavailable", "execution_disabled"}
Executing == {"preparing_worktree", "applying_patch", "patch_repair_required",
              "agent_running"}
States == Final \cup Executing \cup {"waiting_for_approval", "waiting_for_agent"}
\* States a result may carry: final ones, and a task parked for the owner.
Reportable == Final \cup {"waiting_for_approval"}
Verdicts == {"succeeded", "failed", "needs_gpt_revision"}
Content == Digests \cup {NoBundle}
NoResult == [state |-> "none", digest |-> NoBundle]
Results == [state : States, digest : Digests] \cup {NoResult}
NoBatch == [t \in Tasks |-> NoBundle]
Steps == {"idle", "queue", "validate", "prepare", "apply", "scope", "repair",
          "handoff", "session", "prompt", "mark", "wait", "late", "finalize", "fail",
          "publish", "report"}

TypeOK ==
    /\ inbox \in [Tasks -> Content]
    /\ results \in [Tasks -> Results]
    /\ dirty \in BOOLEAN
    /\ root \in [Tasks -> Digests \cup {"absent", "bare"}]
    /\ status \in [Tasks -> States \cup {"none"}]
    /\ approval \in [Tasks -> {"pending", "approved", "rejected"}]
    /\ worktree \in [Tasks -> {"absent", "base", "patched", "committed"}]
    /\ branch \subseteq Tasks
    /\ verdict \in [Tasks -> Verdicts \cup {"none", "invalid"}]
    /\ response \subseteq Tasks
    /\ working \subseteq Tasks
    /\ daemon \in {"down", "up", "stopping"}
    /\ mode \in Modes
    /\ pc \in Steps
    /\ batch \in [Tasks -> Content]
    /\ outcome \in States \cup {"none"}
    /\ rollingBack \in [Tasks -> {"no", "branch", "status"}]
    /\ consented \subseteq Tasks
    /\ disturbed \in 0..MaxDisturbances

Init ==
    /\ inbox = NoBatch
    /\ results = [t \in Tasks |-> NoResult]
    /\ dirty = FALSE
    /\ root = [t \in Tasks |-> "absent"]
    /\ status = [t \in Tasks |-> "none"]
    /\ approval = [t \in Tasks |-> "pending"]
    /\ worktree = [t \in Tasks |-> "absent"]
    /\ branch = {}
    /\ verdict = [t \in Tasks |-> "none"]
    /\ response = {}
    /\ working = {}
    /\ daemon = "up"
    /\ mode \in Modes
    /\ pc = "idle"
    /\ batch = NoBatch
    /\ outcome = "none"
    /\ rollingBack = [t \in Tasks |-> "no"]
    /\ consented = {}
    /\ disturbed = 0

-----------------------------------------------------------------------------
(* Derived state. *)

Answered(t) == results[t] # NoResult
Materialized(t) == root[t] \in Digests
Queued(t) == batch[t] # NoBundle
Earlier(t, u) == Rank[t] < Rank[u]
Loads(t) == inbox[t] # NoBundle => Pack[inbox[t]] # "malformed"
\* Materialize compares the marker of an existing directory with the content, and
\* unpacks the content into a new one.
Refused(t, d) == IF root[t] = "absent" THEN Pack[d] = "corrupt" ELSE root[t] # d

\* Mutant of Head: the queue is walked from its end.
HeadLatest(t) == Queued(t) /\ \A u \in Tasks : Queued(u) => ~Earlier(t, u)

\* The task the worker's loop has reached: the first one left of the batch.
Head(t) == Queued(t) /\ \A u \in Tasks : Queued(u) => ~Earlier(u, t)

\* Both outputs of the agent are regular files.
Complete(t) == verdict[t] # "none" /\ t \in response

\* A git or Airelay command runs under the daemon's context: once that is
\* cancelled, every further command fails.
CommandsRun == daemon = "up"

\* Mutants of BlocksProjectQueue: a running agent does not hold the queue; a
\* task holds it even when its answer is there.
BlocksOnlyPreparing(t) ==
    status[t] \in Executing \ {"agent_running"} /\ ~Complete(t)
BlocksForGood(t) == status[t] \in Executing

BlocksProjectQueue(t) == status[t] \in Executing /\ ~Complete(t)

SkipLocalTask(t) ==
    \/ status[t] \in Final
    \/ /\ status[t] = "waiting_for_approval"
       /\ mode # "auto"
       /\ approval[t] = "pending"
    \/ status[t] = "agent_running" /\ ~Complete(t)

Disturb(kind) ==
    /\ kind \in Disturbances /\ disturbed < MaxDisturbances
    /\ disturbed' = disturbed + 1
WriteStatus(t, s) == status' = [status EXCEPT ![t] = s]

\* The worker stands at step s of task t.
At(s, t) == daemon # "down" /\ pc = s /\ Head(t)
Goto(s) == pc' = s
\* OnceProject returns: the rest of the batch is forgotten until the next poll.
Return == pc' = "idle" /\ batch' = NoBatch /\ outcome' = "none"
\* Runner.Run returns an outcome, or an error.
Conclude(t, s) == WriteStatus(t, s) /\ Goto("publish") /\ outcome' = s
RunError == Goto("fail")
-----------------------------------------------------------------------------
(* app.OnceProject: sync, discover, and walk the queue.                    *)

\* Mutant of Discover: results on the branch are not looked at.
DiscoverAll ==
    /\ CommandsRun /\ pc = "idle" /\ ~dirty /\ \A t \in Tasks : Loads(t)
    /\ batch' = inbox
    /\ Goto("queue")
    /\ UNCHANGED <<busVars, taskVars, gitVars, agentVars, procVars, outcome,
                   rollingBack, disturbed>>

\* Sync refuses a dirty bus worktree, and Discover loads every bundle on the
\* branch, the answered ones too, before it looks for their results.
Discoverable == ~dirty /\ \A t \in Tasks : Loads(t)

Discover ==
    /\ CommandsRun /\ pc = "idle" /\ Discoverable
    /\ batch' = [t \in Tasks |-> IF Answered(t) THEN NoBundle ELSE inbox[t]]
    /\ Goto("queue")
    /\ UNCHANGED <<busVars, taskVars, gitVars, agentVars, procVars, outcome,
                   rollingBack, disturbed>>

\* Either of them fails, or one of Sync's git commands does: the pass ends with
\* nothing changed, and the next poll tries again.
DiscoverFails ==
    /\ daemon # "down" /\ pc = "idle"
    /\ UNCHANGED vars

\* The loop is over and the project's error is cleared.
PassDone ==
    /\ daemon # "down" /\ pc = "queue" /\ batch = NoBatch
    /\ Return
    /\ UNCHANGED <<busVars, taskVars, gitVars, agentVars, procVars,
                   rollingBack, disturbed>>

\* An error of Materialize ends the pass.
MaterializeRefused(t) ==
    /\ At("queue", t) /\ Refused(t, batch[t])
    /\ Return
    /\ UNCHANGED <<busVars, taskVars, gitVars, agentVars, procVars,
                   rollingBack, disturbed>>

\* Mutant of MaterializeOk: any marker of an existing directory will do.
MaterializeUnchecked(t) ==
    /\ At("queue", t) /\ root[t] # "bare"
    /\ root' = [root EXCEPT ![t] = IF @ = "absent" THEN batch[t] ELSE @]

MaterializeOk(t) ==
    /\ At("queue", t) /\ ~Refused(t, batch[t])
    /\ root' = [root EXCEPT ![t] = batch[t]]

QueueHeld(t) ==
    /\ MaterializeOk(t)
    /\ BlocksProjectQueue(t)
    /\ Return
    /\ UNCHANGED <<busVars, status, approval, consented, gitVars, agentVars,
                   procVars, rollingBack, disturbed>>

SkipTask(t) ==
    /\ MaterializeOk(t)
    /\ ~BlocksProjectQueue(t) /\ SkipLocalTask(t)
    /\ batch' = [batch EXCEPT ![t] = NoBundle]
    /\ UNCHANGED <<busVars, status, approval, consented, gitVars, agentVars,
                   procVars, pc, outcome, rollingBack, disturbed>>

TakeTask(t) ==
    /\ MaterializeOk(t)
    /\ ~BlocksProjectQueue(t) /\ ~SkipLocalTask(t)
    /\ Goto("validate")
    /\ UNCHANGED <<busVars, status, approval, consented, gitVars, agentVars,
                   procVars, batch, outcome, rollingBack, disturbed>>

-----------------------------------------------------------------------------
(* task.Runner.Run, one action per place where it can be interrupted.      *)

RefusePack(t) ==
    /\ At("validate", t)
    /\ Pack[root[t]] = "unusable" \/ ~CommandsRun
    /\ RunError
    /\ UNCHANGED <<busVars, taskVars, gitVars, agentVars, procVars, batch,
                   outcome, rollingBack, disturbed>>

\* Mutant of PolicyState: only an explicit rejection stops a manual task.
PolicyPermissive(t) ==
    CASE mode = "disabled"                           -> "execution_disabled"
      [] mode = "manual" /\ approval[t] = "rejected" -> "rejected"
      [] OTHER                                       -> "none"

\* The mode switch: what the local policy answers without any execution.
PolicyState(t) ==
    CASE mode = "disabled"                              -> "execution_disabled"
      [] mode = "manual" /\ approval[t] = "rejected"    -> "rejected"
      [] mode = "manual" /\ approval[t] = "pending"     -> "waiting_for_approval"
      [] OTHER                                          -> "none"

RefuseByPolicy(t) ==
    /\ At("validate", t) /\ Pack[root[t]] # "unusable" /\ CommandsRun
    /\ PolicyState(t) # "none"
    /\ Conclude(t, PolicyState(t))
    /\ UNCHANGED <<busVars, root, approval, consented, gitVars, agentVars,
                   procVars, batch, rollingBack, disturbed>>

\* Mutant of AnswerWaits: Run always prepares and prompts again.
AnswerIgnored(t) == FALSE

\* Both outputs are already there: a task whose agent finished while the
\* gateway was away goes straight to the verification of its answer.
AnswerWaits(t) == Complete(t)

ResumeAnswer(t) ==
    /\ At("validate", t) /\ Pack[root[t]] # "unusable" /\ CommandsRun
    /\ PolicyState(t) = "none" /\ AnswerWaits(t)
    /\ Goto("finalize")
    /\ UNCHANGED <<busVars, taskVars, gitVars, agentVars, procVars, batch,
                   outcome, rollingBack, disturbed>>

BeginPreparation(t) ==
    /\ At("validate", t) /\ Pack[root[t]] # "unusable" /\ CommandsRun
    /\ PolicyState(t) = "none" /\ ~AnswerWaits(t)
    /\ WriteStatus(t, "preparing_worktree")
    /\ Goto("prepare")
    /\ UNCHANGED <<busVars, root, approval, consented, gitVars, agentVars,
                   procVars, batch, outcome, rollingBack, disturbed>>

\* BackupRef, and CreateWorktree unless the directory exists; `worktree add -b`
\* refuses a branch that is already there.  A patch is announced in the status.
PrepareWorktree(t) ==
    /\ At("prepare", t) /\ CommandsRun
    /\ worktree[t] = "absent" => t \notin branch
    /\ worktree' = [worktree EXCEPT ![t] = IF @ = "absent" THEN "base" ELSE @]
    /\ branch' = IF worktree[t] = "absent" THEN branch \cup {t} ELSE branch
    /\ IF Pack[root[t]] = "empty"
       THEN Goto("handoff") /\ UNCHANGED status
       ELSE Goto("apply") /\ WriteStatus(t, "applying_patch")
    /\ UNCHANGED <<busVars, root, approval, consented, agentVars, procVars,
                   batch, outcome, rollingBack, disturbed>>

PrepareFails(t) ==
    /\ At("prepare", t)
    /\ ~CommandsRun \/ (worktree[t] = "absent" /\ t \in branch)
    /\ RunError
    /\ UNCHANGED <<busVars, taskVars, gitVars, agentVars, procVars, batch,
                   outcome, rollingBack, disturbed>>

\* `git apply --check` only passes on a worktree that still is at its base.
PatchFits(t) ==
    CommandsRun /\ worktree[t] = "base" /\ Pack[root[t]] # "conflicts"

ApplyPatch(t) ==
    /\ At("apply", t) /\ PatchFits(t)
    /\ worktree' = [worktree EXCEPT ![t] = "patched"]
    /\ Goto("scope")
    /\ UNCHANGED <<busVars, taskVars, branch, agentVars, procVars, batch, outcome,
                   rollingBack, disturbed>>

ReturnPatch(t) ==
    /\ At("apply", t) /\ ~PatchFits(t) /\ ~AllowPatchRepair
    /\ Conclude(t, "needs_gpt_revision")
    /\ UNCHANGED <<busVars, root, approval, consented, gitVars, agentVars,
                   procVars, batch, rollingBack, disturbed>>

\* `git reset --hard base`: commits an earlier prompt left behind go too.
ResetForRepair(t) ==
    /\ At("apply", t) /\ ~PatchFits(t) /\ AllowPatchRepair
    /\ CommandsRun /\ worktree[t] # "absent"
    /\ worktree' = [worktree EXCEPT ![t] = "base"]
    /\ WriteStatus(t, "patch_repair_required")
    /\ Goto("repair")
    /\ UNCHANGED <<busVars, root, approval, consented, branch, agentVars,
                   procVars, batch, outcome, rollingBack, disturbed>>

ResetFails(t) ==
    /\ At("apply", t) /\ ~PatchFits(t) /\ AllowPatchRepair
    /\ ~CommandsRun \/ worktree[t] = "absent"
    /\ RunError
    /\ UNCHANGED <<busVars, taskVars, gitVars, agentVars, procVars, batch,
                   outcome, rollingBack, disturbed>>

\* Overlay and deletions follow, with or without the patch, and the actual scope
\* is compared with the declared one.
AtPayload(t) == At("scope", t) \/ At("repair", t)
ScopeRuns(t) == CommandsRun /\ worktree[t] # "absent"
PutInPlace(t) ==
    worktree' = [worktree EXCEPT ![t] = IF @ = "base" THEN "patched" ELSE @]

ScopeAgrees(t) ==
    /\ AtPayload(t) /\ ScopeRuns(t) /\ Pack[root[t]] # "strays"
    /\ PutInPlace(t) /\ Goto("handoff")
    /\ UNCHANGED <<busVars, taskVars, branch, agentVars, procVars, batch, outcome,
                   rollingBack, disturbed>>

\* A rejected patch without overlay or deletions: nothing is there to compare.
NothingToCompare(t) ==
    /\ At("repair", t)
    /\ Goto("handoff")
    /\ UNCHANGED <<busVars, taskVars, gitVars, agentVars, procVars, batch, outcome,
                   rollingBack, disturbed>>

\* The payload leaves its scope, the rejected patch is missing from it, or an agent
\* prompted earlier has committed to the worktree meanwhile.
ScopeDiffers(t) ==
    /\ AtPayload(t) /\ ScopeRuns(t)
    /\ Pack[root[t]] = "strays" \/ pc = "repair" \/ worktree[t] = "committed"
    /\ PutInPlace(t)
    /\ Conclude(t, "needs_gpt_revision")
    /\ UNCHANGED <<busVars, root, approval, consented, branch, agentVars, procVars,
                   batch, rollingBack, disturbed>>

\* A file cannot be put in its place, one to delete is not there, or git fails.
PayloadFails(t) ==
    /\ AtPayload(t)
    /\ ~ScopeRuns(t) \/ Pack[root[t]] = "strays" \/ pc = "repair"
    /\ RunError
    /\ UNCHANGED <<busVars, taskVars, gitVars, agentVars, procVars, batch, outcome,
                   rollingBack, disturbed>>

\* Outputs of an earlier attempt are removed and the handoff is written.
WriteHandoff(t) ==
    /\ At("handoff", t)
    /\ verdict' = [verdict EXCEPT ![t] = "none"]
    /\ response' = response \ {t}
    /\ WriteStatus(t, "waiting_for_agent")
    /\ Goto("session")
    /\ UNCHANGED <<busVars, root, approval, consented, gitVars, working,
                   procVars, batch, outcome, rollingBack, disturbed>>

SessionReady(t) ==
    /\ At("session", t) /\ CommandsRun
    /\ Goto("prompt")
    /\ UNCHANGED <<busVars, taskVars, gitVars, agentVars, procVars, batch,
                   outcome, rollingBack, disturbed>>

\* No promptable session within 45 seconds, or the context is cancelled.
SessionUnavailable(t) ==
    /\ At("session", t)
    /\ IF CommandsRun THEN Disturb("airelay") ELSE UNCHANGED disturbed
    /\ Conclude(t, "agent_unavailable")
    /\ UNCHANGED <<busVars, root, approval, consented, gitVars, agentVars,
                   procVars, batch, rollingBack>>

PromptDelivered(t) ==
    /\ At("prompt", t) /\ CommandsRun
    /\ working' = working \cup {t}
    /\ Goto("mark")
    /\ UNCHANGED <<busVars, taskVars, gitVars, verdict, response, procVars,
                   batch, outcome, rollingBack, disturbed>>

\* The command fails; the session may have received the prompt all the same.
PromptFails(t) ==
    /\ At("prompt", t)
    /\ IF CommandsRun THEN Disturb("airelay") ELSE UNCHANGED disturbed
    /\ working' \in {working, working \cup {t}}
    /\ RunError
    /\ UNCHANGED <<busVars, taskVars, gitVars, verdict, response, procVars,
                   batch, outcome, rollingBack>>

MarkRunning(t) ==
    /\ At("mark", t)
    /\ WriteStatus(t, "agent_running")
    /\ Goto("wait")
    /\ UNCHANGED <<busVars, root, approval, consented, gitVars, agentVars,
                   procVars, batch, outcome, rollingBack, disturbed>>

AnswerArrives(t) ==
    /\ At("wait", t) /\ Complete(t)
    /\ Goto("finalize")
    /\ UNCHANGED <<busVars, taskVars, gitVars, agentVars, procVars, batch,
                   outcome, rollingBack, disturbed>>

\* WaitForResult looks every two seconds.  This is its last look: the deadline
\* passes, or the context is cancelled, before the next one.
WaitEnds(t) ==
    /\ At("wait", t) /\ ~Complete(t)
    /\ CommandsRun => "timeout" \in Disturbances
    /\ Goto("late")
    /\ UNCHANGED <<busVars, taskVars, gitVars, agentVars, procVars, batch,
                   outcome, rollingBack, disturbed>>

\* Mutants of TimeOut: the deadline never fires; the outcome is returned with
\* the status value of the step before.
NeverTimesOut(t) ==
    /\ At("late", t) /\ ~CommandsRun
    /\ Conclude(t, "agent_timeout")
    /\ UNCHANGED <<busVars, root, approval, consented, gitVars, agentVars,
                   procVars, batch, rollingBack, disturbed>>
TimesOutStale(t) ==
    /\ At("late", t)
    /\ Goto("publish") /\ outcome' = "agent_running"
    /\ UNCHANGED <<busVars, taskVars, gitVars, agentVars, procVars, batch,
                   rollingBack, disturbed>>

\* Run reports both as agent_timeout, also when the answer came meanwhile.
TimeOut(t) ==
    /\ At("late", t)
    /\ Conclude(t, "agent_timeout")
    /\ UNCHANGED <<busVars, root, approval, consented, gitVars, agentVars,
                   procVars, batch, rollingBack, disturbed>>

\* A claimed success needs its commits in the task worktree and the pinned
\* evidence check to pass; other verdicts are taken as they are.
Verified(t) ==
    /\ verdict[t] \in Verdicts /\ t \in response
    /\ verdict[t] = "succeeded" => CommandsRun /\ worktree[t] = "committed"

AcceptAnswer(t) ==
    /\ At("finalize", t) /\ Verified(t)
    /\ Conclude(t, verdict[t])
    /\ UNCHANGED <<busVars, root, approval, consented, gitVars, agentVars,
                   procVars, batch, rollingBack, disturbed>>

DiscardAnswer(t) ==
    /\ At("finalize", t) /\ ~Verified(t)
    /\ RunError
    /\ UNCHANGED <<busVars, taskVars, gitVars, agentVars, procVars, batch,
                   outcome, rollingBack, disturbed>>

-----------------------------------------------------------------------------
(* Publication, back in app.OnceProject.                                   *)

\* Mutants of RecordFailure: status.json keeps its last state; the failure is
\* recorded under a state nobody knows.
RecordNothing(t) ==
    /\ At("fail", t)
    /\ Goto("report") /\ outcome' = "failed"
    /\ UNCHANGED <<busVars, taskVars, gitVars, agentVars, procVars, batch,
                   rollingBack, disturbed>>
RecordError(t) ==
    /\ At("fail", t)
    /\ WriteStatus(t, "error")
    /\ Goto("report") /\ outcome' = "failed"
    /\ UNCHANGED <<busVars, root, approval, consented, gitVars, agentVars,
                   procVars, batch, rollingBack, disturbed>>

\* Run returned an error: the failure is recorded, then reported.
RecordFailure(t) ==
    /\ At("fail", t)
    /\ WriteStatus(t, "failed")
    /\ Goto("report") /\ outcome' = "failed"
    /\ UNCHANGED <<busVars, root, approval, consented, gitVars, agentVars,
                   procVars, batch, rollingBack, disturbed>>

\* PublishAtomicResult resets the bus worktree to the branch, and appends the
\* result unless the branch already has one under this identity.
AddResult(t) ==
    /\ ~Answered(t)
    /\ results' = [results EXCEPT ![t] = [state |-> outcome, digest |-> batch[t]]]

Publish(t) ==
    /\ At("publish", t) /\ CommandsRun
    /\ AddResult(t) /\ dirty' = FALSE
    /\ batch' = [batch EXCEPT ![t] = NoBundle]
    /\ Goto("queue") /\ outcome' = "none"
    /\ UNCHANGED <<inbox, taskVars, gitVars, agentVars, procVars, rollingBack,
                   disturbed>>

\* After a failed run the pass ends whatever the publication returns.
PublishFailure(t) ==
    /\ At("report", t) /\ CommandsRun
    /\ AddResult(t) /\ dirty' = FALSE
    /\ Return
    /\ UNCHANGED <<inbox, taskVars, gitVars, agentVars, procVars, rollingBack,
                   disturbed>>

\* Three attempts failed, the context is cancelled, or the branch already has
\* a result under this identity; the push of the last attempt may have reached
\* the branch although it was reported as failed.  Attempts leave the bus worktree
\* clean or with files they did not commit.
PublishFails(t) ==
    /\ At("publish", t) \/ At("report", t)
    /\ IF CommandsRun /\ ~Answered(t) THEN Disturb("publish") ELSE UNCHANGED disturbed
    /\ AddResult(t) \/ UNCHANGED results
    /\ dirty' \in BOOLEAN
    /\ Return
    /\ UNCHANGED <<inbox, taskVars, gitVars, agentVars, procVars, rollingBack>>

Worker ==
    \/ Discover \/ DiscoverFails \/ PassDone
    \/ \E t \in Tasks :
        \/ MaterializeRefused(t) \/ QueueHeld(t) \/ SkipTask(t) \/ TakeTask(t)
        \/ RefusePack(t) \/ RefuseByPolicy(t) \/ ResumeAnswer(t)
        \/ BeginPreparation(t) \/ PrepareWorktree(t) \/ PrepareFails(t)
        \/ ApplyPatch(t) \/ ReturnPatch(t) \/ ResetForRepair(t) \/ ResetFails(t)
        \/ ScopeAgrees(t) \/ NothingToCompare(t) \/ ScopeDiffers(t) \/ PayloadFails(t)
        \/ WriteHandoff(t) \/ SessionReady(t) \/ SessionUnavailable(t)
        \/ PromptDelivered(t) \/ PromptFails(t) \/ MarkRunning(t)
        \/ AnswerArrives(t) \/ WaitEnds(t) \/ TimeOut(t)
        \/ AcceptAnswer(t) \/ DiscardAnswer(t)
        \/ RecordFailure(t) \/ Publish(t) \/ PublishFailure(t) \/ PublishFails(t)

-----------------------------------------------------------------------------
(* The daemon process.  A configuration edit takes effect at a start.      *)

\* Ensure points the local branch at the fetched one: a bus worktree that was
\* checked out at another commit is dirty from then on (ProjectBus).
Start ==
    /\ daemon = "down"
    /\ daemon' = "up" /\ mode' \in Modes
    /\ dirty' \in {dirty, dirty \/ "moved" \in Disturbances}
    /\ UNCHANGED <<inbox, results, taskVars, gitVars, agentVars, workVars,
                   rollingBack, disturbed>>

Crash ==
    /\ daemon # "down" /\ Disturb("crash")
    /\ daemon' = "down" /\ Return
    /\ UNCHANGED <<busVars, taskVars, gitVars, agentVars, mode, rollingBack>>

\* SIGTERM cancels the context the worker runs under ...
Stop ==
    /\ daemon = "up" /\ Disturb("stop")
    /\ daemon' = "stopping"
    /\ UNCHANGED <<busVars, taskVars, gitVars, agentVars, mode, workVars,
                   rollingBack>>

\* ... and runDaemon returns without waiting for the worker.
Exit ==
    /\ daemon = "stopping"
    /\ daemon' = "down" /\ Return
    /\ UNCHANGED <<busVars, taskVars, gitVars, agentVars, mode, rollingBack,
                   disturbed>>

\* `doctor`, in a process of its own, calls Ensure as well.
Doctor ==
    /\ Disturb("doctor")
    /\ dirty' = TRUE
    /\ UNCHANGED <<inbox, results, taskVars, gitVars, agentVars, procVars, workVars,
                   rollingBack>>

-----------------------------------------------------------------------------
(* The owner, through the loopback API or the command line.                *)

\* WriteApproval creates the task directory when it is not there yet.
Decide(t, decision) ==
    /\ Disturb(IF root[t] = "absent" THEN "early" ELSE "decision")
    /\ approval' = [approval EXCEPT ![t] = decision]
    /\ root' = [root EXCEPT ![t] = IF @ = "absent" THEN "bare" ELSE @]
    /\ UNCHANGED <<busVars, status, gitVars, agentVars, procVars, workVars,
                   rollingBack>>

Approve(t) == Decide(t, "approved") /\ consented' = consented \cup {t}
Reject(t)  == Decide(t, "rejected") /\ UNCHANGED consented

\* Runner.Rollback: drop the worktree, then its branch, then say so.
RollbackWorktree(t) ==
    /\ rollingBack[t] = "no" /\ Materialized(t) /\ Disturb("rollback")
    /\ worktree' = [worktree EXCEPT ![t] = "absent"]
    /\ rollingBack' = [rollingBack EXCEPT ![t] = "branch"]
    /\ UNCHANGED <<busVars, taskVars, branch, agentVars, procVars, workVars>>

\* git refuses to delete a branch that a worktree has checked out; the
\* rollback then returns the error.
RollbackBranch(t) ==
    /\ rollingBack[t] = "branch"
    /\ LET refused == t \in branch /\ worktree[t] # "absent" IN
       /\ branch' = IF refused THEN branch ELSE branch \ {t}
       /\ rollingBack' = [rollingBack EXCEPT ![t] = IF refused THEN "no"
                                                               ELSE "status"]
    /\ UNCHANGED <<busVars, taskVars, worktree, agentVars, procVars, workVars,
                   disturbed>>

RollbackStatus(t) ==
    /\ rollingBack[t] = "status"
    /\ WriteStatus(t, "rolled_back")
    /\ rollingBack' = [rollingBack EXCEPT ![t] = "no"]
    /\ UNCHANGED <<busVars, root, approval, consented, gitVars, agentVars,
                   procVars, workVars, disturbed>>

Rollback(t) == RollbackWorktree(t) \/ RollbackBranch(t) \/ RollbackStatus(t)

-----------------------------------------------------------------------------
(* The agent works on until both of its outputs are written, whatever the  *)
(* gateway does meanwhile; "invalid" stands for an output that does not    *)
(* pass the checks, one read before it was complete included.              *)

Finish(t) == working' = IF Complete(t)' THEN working \ {t} ELSE working

AgentCommits(t) ==
    /\ t \in working /\ worktree[t] \in {"base", "patched"}
    /\ worktree' = [worktree EXCEPT ![t] = "committed"]
    /\ UNCHANGED <<busVars, taskVars, branch, agentVars, procVars, workVars,
                   rollingBack, disturbed>>

AgentWritesResult(t) ==
    /\ t \in working /\ verdict[t] = "none"
    /\ \E v \in Verdicts \cup {"invalid"} : verdict' = [verdict EXCEPT ![t] = v]
    /\ UNCHANGED response
    /\ Finish(t)
    /\ UNCHANGED <<busVars, taskVars, gitVars, procVars, workVars, rollingBack,
                   disturbed>>

AgentResponds(t) ==
    /\ t \in working /\ t \notin response
    /\ response' = response \cup {t}
    /\ UNCHANGED verdict
    /\ Finish(t)
    /\ UNCHANGED <<busVars, taskVars, gitVars, procVars, workVars, rollingBack,
                   disturbed>>

Agent(t) == AgentCommits(t) \/ AgentWritesResult(t) \/ AgentResponds(t)

-----------------------------------------------------------------------------
(* GPT, on the project branch.                                             *)

Submit(t) ==
    /\ inbox[t] = NoBundle
    /\ \E d \in Digests : inbox' = [inbox EXCEPT ![t] = d]
    /\ UNCHANGED <<results, dirty, taskVars, gitVars, agentVars, procVars, workVars,
                   rollingBack, disturbed>>

\* A later commit changes the content under an id that was already submitted.
Replace(t) ==
    /\ inbox[t] # NoBundle /\ Disturb("replace")
    /\ \E d \in Digests \ {inbox[t]} : inbox' = [inbox EXCEPT ![t] = d]
    /\ UNCHANGED <<results, dirty, taskVars, gitVars, agentVars, procVars, workVars,
                   rollingBack>>

Next ==
    \/ Worker
    \/ Start \/ Crash \/ Stop \/ Exit \/ Doctor
    \/ \E t \in Tasks : \/ Approve(t) \/ Reject(t) \/ Rollback(t)
                        \/ Agent(t) \/ Submit(t) \/ Replace(t)

Spec == Init /\ [][Next]_vars

\* The worker's goroutine and the operating system make progress; the service
\* manager or the owner starts a gateway that is down; a stopping process ends.
FairSpec == Spec /\ WF_vars(Worker) /\ WF_vars(Start) /\ WF_vars(Exit)

\* A prompted agent writes both of its outputs in the end: no part of the
\* gateway's own fairness, but a premise where a result depends on it.
AgentsAnswer ==
    \A t \in Tasks : WF_vars(AgentWritesResult(t)) /\ WF_vars(AgentResponds(t))

-----------------------------------------------------------------------------
(* Safety.                                                                 *)

AtPrompt(t) == At("prompt", t)
Unfinished(t) == status[t] \in Executing /\ ~Complete(t)
RunSteps == Steps \ {"idle", "queue"}

\* The result published for a task carries the identity of the content that
\* was materialised and executed, also when GPT has replaced the bundle since
\* (taskbundle.Materialize, bus.PublishAtomicResult).
PublishedContentIsExecuted ==
    \A t \in Tasks : Answered(t) => results[t].digest = root[t]

\* A task with a result on the branch is never prompted again, whatever crash,
\* failed publication or late approval came between (Discover, PROTOCOL.md
\* "Queueing").
NoRedispatch == \A t \in Tasks : AtPrompt(t) => ~Answered(t)

\* A task is prompted only when every earlier task whose directory exists is
\* settled: done, or parked for the owner (Discover's order, OnceProject's loop).
DispatchInOrder ==
    \A t, u \in Tasks :
        AtPrompt(t) /\ Earlier(u, t) /\ Materialized(u)
            => Answered(u) \/ status[u] \in Reportable

\* While a task is being prepared or executed and its answer is incomplete, the
\* worker is never inside the run of a later task, restarts included
\* (blocksProjectQueue).
EarlierTaskHoldsQueue ==
    \A t, u \in Tasks :
        Earlier(t, u) /\ Unfinished(t) /\ Head(u) => pc \notin RunSteps

\* Local status and published state agree, unless the owner rolled the task
\* back afterwards (OnceProject, Runner.Run, Rollback).
ResultMatchesStatus ==
    \A t \in Tasks :
        Answered(t) => status[t] \in {results[t].state, "rolled_back"}

\* Nothing reaches the agent against the local policy: never in disabled mode,
\* and in manual mode only a task the owner has approved (Run's mode switch).
LocalPolicyGovernsDispatch ==
    \A t \in Tasks :
        AtPrompt(t) => mode = "auto" \/ (mode = "manual" /\ t \in consented)

\* Once a task is marked as running and its agent has delivered both outputs,
\* they stay, and the task only moves on to a state that is reported: no restart,
\* timeout, rollback or change of mode sends it back to be prepared and prompted
\* again (Run's check for both files, finalizeAgentResult).
AnswerInHandSurvives ==
    [][\A t \in Tasks :
            status[t] = "agent_running" /\ Complete(t) =>
                Complete(t)' /\ status'[t] \in Reportable \cup {"agent_running"}]_vars

\* The worker's part of the project branch is the abstract result board.
GatewayBoard == INSTANCE ResultBoard WITH ReportableStates <- Reportable
ImplementsBoard == GatewayBoard!Board

-----------------------------------------------------------------------------
(* The inductive invariant behind the safety properties (proved in         *)
(* ProjectWorkerProofs).                                                   *)

\* Past a conclusion, the outcome is a reportable state and the local status
\* already says so, unless a rollback came after it.
OutcomeIsStatus ==
    pc \in {"publish", "report"} =>
        /\ outcome \in Reportable
        /\ \A t \in Tasks : Head(t) => status[t] \in {outcome, "rolled_back"}

\* The batch holds submitted tasks that have no result; inside a run, the head
\* is materialised with the content that was discovered.
BatchIsOpen ==
    /\ \A t \in Tasks : Queued(t) => ~Answered(t) /\ inbox[t] # NoBundle
    /\ \A t \in Tasks : pc \in RunSteps /\ Head(t) => root[t] = batch[t]

\* A status or a rollback presupposes a task directory, and that a submission.
OnlyMaterializedChange ==
    \A t \in Tasks :
        /\ status[t] # "none" \/ rollingBack[t] # "no" => Materialized(t)
        /\ Materialized(t) => inbox[t] # NoBundle

\* A result names the executed content and agrees with the local status.
ResultsAreBacked ==
    \A t \in Tasks :
        Answered(t) => /\ results[t].digest = root[t]
                       /\ results[t].state \in Reportable
                       /\ status[t] \in {results[t].state, "rolled_back"}

\* Whatever the current pass has left behind is settled.
PassedIsSettled ==
    pc # "idle" =>
        \A t \in Tasks :
            ~Queued(t) /\ Materialized(t) => Answered(t) \/ status[t] \in Reportable

\* From the decision of the mode switch to the prompt, the task in hand is one
\* the policy permits: the mode only changes at a start, and an approval in the
\* file was once given.
Permitted(t) == mode = "auto" \/ (mode = "manual" /\ t \in consented)
UnderWay == {"prepare", "apply", "scope", "repair", "handoff", "session", "prompt"}
PolicyInv ==
    /\ \A t \in Tasks : approval[t] = "approved" => t \in consented
    /\ daemon = "down" => pc = "idle"
    /\ \A t \in Tasks : pc \in UnderWay /\ Head(t) => Permitted(t)

\* Between a run's preparation and its mark, the status is not yet agent_running.
NotYetRunning ==
    \A t \in Tasks :
        pc \in UnderWay \cup {"mark"} /\ Head(t) => status[t] # "agent_running"

IInv ==
    /\ TypeOK
    /\ OutcomeIsStatus
    /\ BatchIsOpen
    /\ OnlyMaterializedChange
    /\ ResultsAreBacked
    /\ PassedIsSettled

-----------------------------------------------------------------------------
(* Liveness.                                                               *)

\* What keeps a project from getting to task t: its bus worktree is dirty, a
\* bundle on the branch cannot be loaded, the bundle of t or of an earlier task
\* cannot be materialised, or an earlier task was left in the middle of its
\* preparation.  Nothing in the gateway clears any of these by itself.
Blocks(u) ==
    \/ inbox[u] # NoBundle /\ ~Answered(u) /\ Refused(u, inbox[u])
    \/ status[u] \in Executing \ {"agent_running"}
Obstructed(t) ==
    \/ ~Discoverable
    \/ inbox[t] # NoBundle /\ Refused(t, inbox[t])
    \/ \E u \in Tasks : Earlier(u, t) /\ Blocks(u)

\* While the daemon runs and nothing disturbs it, every submitted task gets its
\* result, whether or not its agent ever answers, unless a bundle that cannot be
\* loaded or unpacked stands in its way for good (OnceProject, WaitForResult).
UndisturbedTaskAnswered ==
    [](daemon = "up" /\ disturbed = 0) =>
        \A t \in Tasks : inbox[t] # NoBundle ~> (Answered(t) \/ []Obstructed(t))

\* A restart picks up a task that had not begun, that was about to be prompted,
\* or whose agent was running, and brings it to its result once the agent has
\* answered, unless there is another disturbance first or the task stays
\* obstructed for good; nobody waits for that agent with a deadline any more.
RecoverableTaskAnswered ==
    AgentsAnswer => \A t \in Tasks, n \in 1..MaxDisturbances :
        (/\ daemon = "down" /\ disturbed = n /\ Materialized(t)
         /\ status[t] \in {"none", "waiting_for_agent", "agent_running"})
            ~> (Answered(t) \/ []Obstructed(t) \/ disturbed # n)

\* On a bus worktree that stays clean, a restart recovers whatever task had been
\* taken up (ARCHITECTURE.md gives the gateway result publication and recovery).
StartedTaskAnswered ==
    AgentsAnswer /\ []~dirty => \A t \in Tasks : status[t] # "none" ~> Answered(t)

\* A task that waits for the owner runs once the owner approves it
\* (TASK_BUNDLE_V2.md: every task waits for a local approval file).
ApprovedTaskRuns ==
    \A t \in Tasks :
        (status[t] = "waiting_for_approval" /\ approval[t] = "approved")
            ~> t \in working
=============================================================================
