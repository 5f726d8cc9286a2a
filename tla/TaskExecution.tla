---------------------------- MODULE TaskExecution ----------------------------
(***************************************************************************)
(* What the runner does with an unpacked task, file by file: the checks of *)
(* its documents (task/model.go, task/handoff.go), the payload in the      *)
(* source worktree, git's account of what has changed (gitx), the handoff, *)
(* and the judgement of the agent's result.  ProjectWorker has the whole   *)
(* life of a task; here are the contents that it leaves out, in automatic  *)
(* mode.                                                                   *)
(*                                                                         *)
(* A file of the worktree has the content of the base commit, of the       *)
(* payload, of the agent, or is absent; the agent's commits are not told   *)
(* from its index.  One runner step may be cut off by a kill only at its   *)
(* ends: a step that is half done leaves a status that holds the queue.    *)
(***************************************************************************)
EXTENDS TaskBundle

CONSTANTS
    Paths,         \* files of the project's repository
    BaseFiles,     \* those in the base commit
    Ignored,       \* those that .gitignore names; the base commit may have some
    PackOf,        \* [Digests -> what the archive with that digest says]
    Claims,        \* agent results that may be written
    RepairAllowed  \* values of gateway.allow_patch_repair, from start to start

Elements(s) == {s[i] : i \in DOMAIN s}
Outcomes == {"succeeded", "failed", "needs_gpt_revision"}

\* `patch` gives a content to each path it touches.
ASSUME ExecutionAssumption ==
    /\ BaseFiles \cup Ignored \subseteq Paths /\ RepairAllowed \subseteq BOOLEAN
    /\ \A d \in Digests :
        /\ {"wellFormed", "handoff", "created", "modified", "deleted", "gates",
            "patch", "overlay", "deletePaths"} \subseteq DOMAIN PackOf[d]
        /\ DOMAIN PackOf[d].patch \cup PackOf[d].overlay \cup PackOf[d].deletePaths
             \subseteq Paths
        /\ \A p \in DOMAIN PackOf[d].patch : PackOf[d].patch[p] \in {"none", "payload"}
        /\ \A s \in {PackOf[d].created, PackOf[d].modified, PackOf[d].deleted, PackOf[d].gates} :
             s \in Seq(Elements(s))
    /\ None \notin Claims
    /\ \A c \in Claims : c.gates \in Seq(Elements(c.gates))
                        /\ (c.wellFormed => c.status \in Outcomes)

VARIABLES
    run,      \* the runner's next step, or "off"
    status,   \* status.json
    tree,     \* [Paths -> content]: the worktree, or None
    tracked,  \* the paths in its index
    told,     \* the patch state in the handoff, or "nothing"
    prompted, \* a prompt for this task has been delivered
    claim,    \* agent-result.json, or None; the response is written with it
    accepted  \* the result in the outcome of a run that ended with one, or None

execution == <<run, status, tree, tracked, told, prompted, claim, accepted>>
allVars == <<vars, execution>>

RunSteps == {"off", "validate", "prepare", "patch", "payload", "scope", "handoff",
             "prompt", "mark", "wait", "finalize"}
Blocking == {"preparing_worktree", "applying_patch", "patch_repair_required",
             "agent_running"}
Final == {"succeeded", "failed", "needs_gpt_revision", "agent_timeout",
          "agent_unavailable"}
Contents == {"none", "base", "payload", "agent"}
ASSUME TreeAssumption == None \notin [Paths -> Contents]
BaseTree == [p \in Paths |-> IF p \in BaseFiles THEN "base" ELSE "none"]

ExecutionTypeOK ==
    /\ run \in RunSteps
    /\ status \in Blocking \cup Final \cup {"none", "waiting_for_agent"}
    /\ tree \in [Paths -> Contents] \cup {None}
    /\ tracked \subseteq Paths
    /\ told \in {"nothing", "verified", "repair"}
    /\ prompted \in BOOLEAN
    /\ claim \in Claims \cup {None} /\ accepted \in Claims \cup {None}
    \* the runner works for a worker that waits for it, in a worktree
    /\ run # "off" => pc = "done"
    /\ run \notin {"off", "validate", "prepare", "finalize"} \/ prompted => tree # None

ExecutionInit ==
    /\ Init
    /\ run = "off" /\ status = "none" /\ tree = None /\ tracked = {}
    /\ told = "nothing" /\ prompted = FALSE /\ claim = None /\ accepted = None

-----------------------------------------------------------------------------
(* The documents.                                                          *)

pack == PackOf[root.digest]
Distinct(s) == \A i, j \in DOMAIN s : s[i] = s[j] => i = j

\* Manifest.Validate: each path in one list, once; each gate once.
ValidManifest(m) ==
    /\ m.wellFormed /\ m.gates # <<>> /\ Distinct(m.gates)
    /\ Distinct(m.created \o m.modified \o m.deleted)

\* LoadAgentHandoff: the headings are there, nothing is left to fill in, and it
\* names what the manifest names.
ValidHandoff(h) == h.headings /\ h.resolved /\ h.identifies

\* Mutant: a gate may be reported twice.
ValidateAgainstRepeated(c, gates) ==
    c.status = "succeeded" =>
        /\ \A i \in DOMAIN c.gates : c.gates[i].id \in gates /\ c.gates[i].pass
        /\ \A g \in gates : \E i \in DOMAIN c.gates : c.gates[i].id = g
\* AgentResult.ValidateAgainst goes through the reported gates, then through the
\* expected ones.
ValidateAgainst(c, gates) ==
    c.status = "succeeded" =>
        /\ \A i \in DOMAIN c.gates :
            /\ c.gates[i].id \in gates /\ \A j \in 1..(i - 1) : c.gates[j].id # c.gates[i].id
            /\ c.gates[i].pass
        /\ \A g \in gates : \E i \in DOMAIN c.gates : c.gates[i].id = g

\* AgentResult.Validate, the task id, the commits in the repository and the
\* pack's verifier.
ValidClaim(c, gates) ==
    /\ c.wellFormed /\ ValidateAgainst(c, gates)
    /\ c.status = "succeeded" => c.commitsExist

-----------------------------------------------------------------------------
(* The scope of a worktree, as git tells it.                               *)

\* What `git diff base` compares, path by path.
Old(p) == IF p \in BaseFiles THEN "base" ELSE "none"
New(p) == IF p \in tracked THEN tree[p] ELSE "none"
Added == {p \in Paths : Old(p) = "none" /\ New(p) # "none"}
Removed == {p \in Paths : Old(p) # "none" /\ New(p) = "none"}
Changed == {p \in Paths : Old(p) # "none" /\ New(p) \notin {"none", Old(p)}}

\* Git may pair an added file with a removed one as a rename, or with a changed
\* one as a copy, if they look alike.  A removed file is renamed once.
Pairings ==
    {f \in [Added -> {None} \cup Removed \cup Changed] :
        \A p, q \in Added : f[p] = f[q] /\ f[p] \in Removed => p = q}
NameStatus(f) ==
    {[code |-> "A", path |-> p, from |-> None] : p \in {q \in Added : f[q] = None}}
    \cup {[code |-> "R", path |-> p, from |-> f[p]] : p \in {q \in Added : f[q] \in Removed}}
    \cup {[code |-> "C", path |-> p, from |-> f[p]] : p \in {q \in Added : f[q] \in Changed}}
    \cup {[code |-> "D", path |-> p, from |-> None] : p \in Removed \ {f[q] : q \in Added}}
    \cup {[code |-> "M", path |-> p, from |-> None] : p \in Changed}
Untracked == {p \in Paths \ tracked : tree[p] # "none" /\ p \notin Ignored}

PathsOf(lines, codes) == {l.path : l \in {k \in lines : k.code \in codes}}
Scope(created, modified, deleted) ==
    [created |-> created, modified |-> modified, deleted |-> deleted]

\* Mutant: the old name of a renamed file is forgotten.
ScopeWithoutOldNames(lines) ==
    Scope(PathsOf(lines, {"A", "R", "C"}) \cup Untracked, PathsOf(lines, {"M"}),
          PathsOf(lines, {"D"}))
ScopeFromBase(lines) ==
    Scope(PathsOf(lines, {"A", "R", "C"}) \cup Untracked, PathsOf(lines, {"M"}),
          PathsOf(lines, {"D"}) \cup {l.from : l \in {k \in lines : k.code = "R"}})

DeclaredScope == Scope(Elements(pack.created), Elements(pack.modified), Elements(pack.deleted))
\* Mutant: deletions are not compared.
CompareScopeKept(actual) ==
    actual.created = DeclaredScope.created /\ actual.modified = DeclaredScope.modified
CompareScope(actual) == actual = DeclaredScope

-----------------------------------------------------------------------------
(* Runner.Run.                                                             *)

Bundle_ == UNCHANGED vars
RunGoes(step) == run' = step
\* Mutant: the runner is left where it was.
EndsBusy == Refuse /\ UNCHANGED <<run, branch, root, temp>>
Ends == run' = "off" /\ Refuse /\ UNCHANGED <<branch, root, temp>>
RunEnds == Ends /\ UNCHANGED events
WorktreeKept == UNCHANGED <<tree, tracked>>
AnswerKept == UNCHANGED <<told, prompted, claim, accepted>>

\* Materialize has returned; blocksProjectQueue and skipLocalTask.
TakeUp ==
    /\ pc = "done" /\ run = "off" /\ status \notin Final
    /\ status \in Blocking => claim # None
    /\ RunGoes("validate")
    /\ Bundle_ /\ UNCHANGED status /\ WorktreeKept /\ AnswerKept

PackRefused ==
    /\ run = "validate" /\ ~(ValidManifest(pack) /\ ValidHandoff(pack.handoff))
    /\ RunEnds /\ status' = "failed"
    /\ WorktreeKept /\ AnswerKept

PackAccepted ==
    /\ run = "validate" /\ ValidManifest(pack) /\ ValidHandoff(pack.handoff)
    /\ IF claim # None
       THEN RunGoes("finalize") /\ UNCHANGED status
       ELSE RunGoes("prepare") /\ status' = "preparing_worktree"
    /\ Bundle_ /\ WorktreeKept /\ AnswerKept

\* A worktree of an earlier run is used as it is.
Prepare ==
    /\ run = "prepare"
    /\ IF tree = None THEN tree' = BaseTree /\ tracked' = BaseFiles ELSE WorktreeKept
    /\ IF DOMAIN pack.patch # {}
       THEN RunGoes("patch") /\ status' = "applying_patch"
       ELSE RunGoes("payload") /\ UNCHANGED status
    /\ Bundle_ /\ AnswerKept

\* git apply --check: files to change are as in the base, files to create absent.
PatchFits == \A p \in DOMAIN pack.patch : tree[p] = Old(p)

PatchApplies ==
    /\ run = "patch" /\ PatchFits
    /\ tree' = [p \in Paths |-> IF p \in DOMAIN pack.patch THEN pack.patch[p] ELSE tree[p]]
    /\ tracked' = {p \in tracked \cup DOMAIN pack.patch : tree'[p] # "none"}
    /\ RunGoes("payload") /\ told' = "verified"
    /\ Bundle_ /\ UNCHANGED <<status, prompted, claim, accepted>>

PatchReturned ==
    /\ run = "patch" /\ ~PatchFits /\ FALSE \in RepairAllowed
    /\ RunEnds /\ status' = "needs_gpt_revision"
    /\ WorktreeKept /\ AnswerKept

\* git reset --hard leaves what is not tracked.
PatchReset ==
    /\ run = "patch" /\ ~PatchFits /\ TRUE \in RepairAllowed
    /\ tree' = [p \in Paths |-> IF p \in tracked \cup BaseFiles THEN Old(p) ELSE tree[p]]
    /\ tracked' = BaseFiles
    /\ RunGoes("payload") /\ status' = "patch_repair_required" /\ told' = "nothing"
    /\ Bundle_ /\ UNCHANGED <<prompted, claim, accepted>>

\* applyOverlay and applyDeletes.  told stands for payloadReady from here on.
ApplyPayload ==
    /\ run = "payload"
    /\ tree' = [p \in Paths |-> IF p \in pack.deletePaths THEN "none"
                               ELSE IF p \in pack.overlay THEN "payload" ELSE tree[p]]
    /\ UNCHANGED tracked
    /\ LET ready == \/ DOMAIN pack.patch # {} /\ told = "verified"
                    \/ pack.overlay # {} \/ pack.deleted # <<>>
       IN IF ready THEN told' = "verified" /\ RunGoes("scope")
          ELSE told' = "repair" /\ RunGoes("handoff")
    /\ Bundle_ /\ UNCHANGED <<status, prompted, claim, accepted>>

ScopeAgrees ==
    /\ run = "scope" /\ RunGoes("handoff")
    /\ \E f \in Pairings : CompareScope(ScopeFromBase(NameStatus(f)))
    /\ Bundle_ /\ UNCHANGED status /\ WorktreeKept /\ AnswerKept

ScopeDiffers ==
    /\ run = "scope"
    /\ \E f \in Pairings : ~CompareScope(ScopeFromBase(NameStatus(f)))
    /\ RunEnds /\ status' = "needs_gpt_revision"
    /\ WorktreeKept /\ AnswerKept

\* What an earlier agent has left as its answer is removed.
Handoff ==
    /\ run = "handoff" /\ RunGoes("prompt")
    /\ claim' = None /\ status' = "waiting_for_agent"
    /\ Bundle_ /\ WorktreeKept /\ UNCHANGED <<told, prompted, accepted>>

Prompt ==
    /\ run = "prompt" /\ RunGoes("mark") /\ prompted' = TRUE
    /\ Bundle_ /\ WorktreeKept /\ UNCHANGED <<status, told, claim, accepted>>

MarkRunning ==
    /\ run = "mark" /\ RunGoes("wait") /\ status' = "agent_running"
    /\ Bundle_ /\ WorktreeKept /\ AnswerKept

AnswerArrives ==
    /\ run = "wait" /\ claim # None /\ RunGoes("finalize")
    /\ Bundle_ /\ UNCHANGED status /\ WorktreeKept /\ AnswerKept

WaitEnds ==
    /\ run = "wait" /\ claim = None
    /\ RunEnds /\ status' = "agent_timeout"
    /\ WorktreeKept /\ AnswerKept

\* The result is read once; what is judged is what is reported.
AcceptAnswer ==
    /\ run = "finalize" /\ ValidClaim(claim, Elements(pack.gates))
    /\ RunEnds /\ status' = claim.status /\ accepted' = claim
    /\ WorktreeKept /\ UNCHANGED <<told, prompted, claim>>

AnswerRefused ==
    /\ run = "finalize" /\ ~ValidClaim(claim, Elements(pack.gates))
    /\ RunEnds /\ status' = "failed"
    /\ WorktreeKept /\ AnswerKept

\* A git command, a file or the prompt fails; or there is no session.
RunFails ==
    /\ run \notin {"off", "mark", "wait", "finalize"} /\ Event /\ Ends
    /\ status' \in {"failed"} \cup (IF run = "prompt" THEN {"agent_unavailable"} ELSE {})
    /\ WorktreeKept /\ AnswerKept

\* The worker goes on without running the task.
Skip == /\ run = "off" /\ (status \in Final \/ (status \in Blocking /\ claim = None))
        /\ Return /\ UNCHANGED execution

-----------------------------------------------------------------------------
(* The agent, once prompted, whatever the gateway is doing; and kills.     *)

\* The agent's work ends with its answer, or is of no account any more.
AgentCommits ==
    /\ prompted /\ claim = None /\ status \notin Final
    /\ \E p \in Paths :
        /\ tree' = [tree EXCEPT ![p] = "agent"]
        /\ tracked' = IF p \in Ignored THEN tracked ELSE tracked \cup {p}
    /\ Bundle_ /\ UNCHANGED <<run, status>> /\ AnswerKept

\* The agent may still be writing when the gateway has begun to look.
AgentAnswers ==
    /\ prompted /\ claim' \in Claims
    /\ status \notin Final /\ (claim = None \/ run = "finalize")
    /\ Bundle_ /\ UNCHANGED <<run, status, tree, tracked, told, prompted, accepted>>

KillRun == Kill /\ run' = "off" /\ UNCHANGED <<status, tree, tracked>> /\ AnswerKept

Runner ==
    \/ TakeUp \/ PackRefused \/ PackAccepted \/ Prepare
    \/ PatchApplies \/ PatchReturned \/ PatchReset \/ ApplyPayload
    \/ ScopeAgrees \/ ScopeDiffers \/ Handoff \/ Prompt \/ MarkRunning
    \/ AnswerArrives \/ WaitEnds \/ AcceptAnswer \/ AnswerRefused \/ Skip

BundleStep == (Materialize \/ WriteFails \/ Submit \/ ApproveEarly) /\ UNCHANGED execution

ExecutionNext == BundleStep \/ Runner \/ RunFails \/ AgentCommits \/ AgentAnswers \/ KillRun

\* The worker's goroutine unpacks a bundle and runs the task.
ExecutionSpec ==
    /\ ExecutionInit /\ [][ExecutionNext]_allVars
    /\ WF_allVars((Materialize /\ UNCHANGED execution) \/ Runner)

-----------------------------------------------------------------------------
(* Properties.                                                             *)

\* What git would record of the worktree, file by file, and the difference of that
\* from the base commit.  An ignored file is recorded only while it is in the index:
\* one of the base that the patch took out of the index counts as deleted, although
\* the overlay may have written it again (Leftover).
Recorded(p) == IF p \in tracked \/ p \notin Ignored THEN tree[p] ELSE "none"
Difference ==
    Scope({p \in Paths : Old(p) = "none" /\ Recorded(p) # "none"},
          {p \in Paths : Old(p) # "none" /\ Recorded(p) \notin {"none", Old(p)}},
          {p \in Paths : Old(p) # "none" /\ Recorded(p) = "none"})
Leftover == {p \in (BaseFiles \cap Ignored) \ tracked : tree[p] # "none"}

\* Files of the base that the patch took out of the index and the overlay has
\* written again: git tells of each, unless it is ignored, as removed and as
\* untracked.
Recreated == {p \in BaseFiles \ (tracked \cup Ignored) : tree[p] # "none"}

\* In whatever way git pairs files, ScopeFromBase gives exactly the difference
\* that git would record, each path in one list, unless a file has been recreated;
\* then it is in two lists, and no manifest's scope is like that (validateScopeSets).
\* A leftover is listed as deleted although it is on disk.
ScopeIsExact ==
    tree # None =>
        LET difference == Difference
            recreated == Recreated
            leftover == Leftover
        IN  \A f \in Pairings :
                LET scope == ScopeFromBase(NameStatus(f))
                IN  /\ IF recreated = {} THEN scope = difference
                       ELSE recreated \subseteq scope.created \cap scope.deleted
                    /\ leftover \subseteq scope.deleted \ scope.created

\* When the handoff says that the exact scope is verified, what git would record is
\* the declared difference, on a first run and after any number of runs that a kill
\* cut off (Run: CompareScope).  Of the files declared as deleted, those on disk are
\* leftovers: tracked in the base, ignored, and rewritten by the overlay.
HandoffInScope ==
    run = "prompt" /\ told = "verified" /\ ~prompted =>
        /\ Difference = DeclaredScope
        /\ \A p \in DeclaredScope.deleted : tree[p] # "none" => p \in Leftover

\* A task that is reported as succeeded has each gate of its manifest reported
\* once, as passed, and its commits in the repository.
SuccessIsBacked ==
    status = "succeeded" =>
        /\ accepted # None /\ accepted.commitsExist
        /\ \A i \in DOMAIN accepted.gates : accepted.gates[i].pass
        /\ {accepted.gates[i].id : i \in DOMAIN accepted.gates} = Elements(pack.gates)
        /\ Len(accepted.gates) = Len(pack.gates)
=============================================================================
