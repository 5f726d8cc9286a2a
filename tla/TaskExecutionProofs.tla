------------------------- MODULE TaskExecutionProofs -------------------------
(***************************************************************************)
(* Proofs about TaskExecution, for any bundles, paths, packs and agent     *)
(* results.  Running a task does to the bundle only what TaskBundle        *)
(* allows, so all that is proved there holds here; the pack does not       *)
(* change while its task runs; and what git tells of a worktree is         *)
(* computed for every pairing of files.                                    *)
(***************************************************************************)
EXTENDS TaskExecution, TaskBundleProofs, FunctionTheorems, FiniteSetTheorems

USE DEF branch

-----------------------------------------------------------------------------
(* The runner as a step of TaskBundle.                                     *)

\* The end of a run is the worker's Return, or its failure a Kill.
LEMMA ExecutionRefines ==
    ASSUME ExecutionTypeOK, [ExecutionNext]_allVars PROVE [Next]_vars
  <1>1. CASE BundleStep
    BY <1>1 DEF BundleStep, Next
  <1>2. CASE TakeUp \/ PackAccepted \/ Prepare \/ PatchApplies \/ PatchReset \/ ApplyPayload
             \/ ScopeAgrees \/ Handoff \/ Prompt \/ MarkRunning \/ AnswerArrives
             \/ AgentCommits \/ AgentAnswers
    BY <1>2 DEF TakeUp, PackAccepted, Prepare, PatchApplies, PatchReset, ApplyPayload,
                ScopeAgrees, Handoff, Prompt, MarkRunning, AnswerArrives, AgentCommits,
                AgentAnswers, Bundle_
  <1>3. CASE PackRefused \/ PatchReturned \/ ScopeDiffers \/ WaitEnds \/ AcceptAnswer
             \/ AnswerRefused
    <2>1. RunEnds /\ pc = "done"
      BY <1>3 DEF PackRefused, PatchReturned, ScopeDiffers, WaitEnds, AcceptAnswer,
                  AnswerRefused, ExecutionTypeOK
    <2> QED
      BY <2>1 DEF RunEnds, Ends, Return, Next
  <1>4. CASE RunFails
    BY <1>4 DEF RunFails, Ends, Refuse, Kill, Next
  <1>5. CASE Skip \/ KillRun
    BY <1>5 DEF Skip, KillRun, Next
  <1>6. CASE UNCHANGED allVars
    BY <1>6 DEF allVars
  <1> QED
    BY <1>1, <1>2, <1>3, <1>4, <1>5, <1>6 DEF ExecutionNext, Runner

\* A task directory that is there stays as it is.
LEMMA RootKept ==
    ASSUME Materialized, [Next]_vars PROVE root' = root
  <1>1. CASE Materialize
    BY <1>1 DEF Materialize, Sleep, vars, Load, Present, OtherContent, Absent, Clear, Extract,
                ArchiveEnds, ArchiveRefused, WriteDocuments, WriteMarker, Rename, RenameFails,
                Materialized
  <1>2. CASE Return \/ WriteFails \/ Submit \/ ApproveEarly \/ Kill \/ UNCHANGED vars
    BY <1>2 DEF Return, WriteFails, Submit, ApproveEarly, Kill, vars, Materialized
  <1> QED
    BY <1>1, <1>2 DEF Next

\* The pack of a task that runs is that of some bundle.
LEMMA RunningPack ==
    ASSUME PackInv, run # "off" => pc = "done", run # "off" \/ Materialized
    PROVE  Materialized /\ root.digest \in Digests
  <1>1. Materialized
    BY DEF PackInv, AttemptInv
  <1> QED
    BY <1>1 DEF PackInv, PackIsWhole, Digests

\* What is assumed of a pack.
LEMMA PackType ==
    ASSUME root.digest \in Digests
    PROVE  /\ DOMAIN pack.patch \subseteq Paths
           /\ \A p \in DOMAIN pack.patch : pack.patch[p] \in Contents
           /\ pack.created \in Seq(Elements(pack.created))
           /\ pack.modified \in Seq(Elements(pack.modified))
           /\ pack.deleted \in Seq(Elements(pack.deleted))
           /\ pack.gates \in Seq(Elements(pack.gates))
  BY ExecutionAssumption DEF pack, Contents

-----------------------------------------------------------------------------
(* Types.                                                                  *)

LEMMA TypeInit == ExecutionInit => ExecutionTypeOK
  BY DEF ExecutionInit, ExecutionTypeOK, RunSteps

\* The steps that leave the worktree alone.
LEMMA TypeBeside ==
    ASSUME ExecutionTypeOK,
           TakeUp \/ PackRefused \/ PackAccepted \/ PatchReturned \/ ScopeAgrees
           \/ ScopeDiffers \/ Handoff \/ Prompt \/ MarkRunning \/ AnswerArrives
           \/ WaitEnds \/ AnswerRefused \/ Skip \/ RunFails \/ AgentAnswers \/ KillRun
    PROVE  ExecutionTypeOK'
  <1>1. WorktreeKept /\ (tree' # None <=> tree # None)
    BY DEF TakeUp, PackRefused, PackAccepted, PatchReturned, ScopeAgrees, ScopeDiffers,
           Handoff, Prompt, MarkRunning, AnswerArrives, WaitEnds, AnswerRefused, Skip,
           RunFails, AgentAnswers, KillRun, WorktreeKept, execution
  <1>2. /\ run' \in RunSteps /\ (run' # "off" => pc' = "done")
        /\ run' \notin {"off", "validate", "prepare", "finalize"} =>
             run \notin {"off", "validate", "prepare", "finalize"}
    BY DEF TakeUp, PackRefused, PackAccepted, PatchReturned, ScopeAgrees, ScopeDiffers,
           Handoff, Prompt, MarkRunning, AnswerArrives, WaitEnds, AnswerRefused, Skip,
           RunFails, AgentAnswers, KillRun, execution, RunEnds, Ends, RunGoes, Bundle_, vars,
           work, ExecutionTypeOK, RunSteps
  <1>3. status' \in Blocking \cup Final \cup {"none", "waiting_for_agent"}
    <2>1. status' = status \/ status' \in {"failed", "preparing_worktree", "needs_gpt_revision",
              "waiting_for_agent", "agent_running", "agent_timeout", "agent_unavailable"}
      BY DEF TakeUp, PackRefused, PackAccepted, PatchReturned, ScopeAgrees, ScopeDiffers,
             Handoff, Prompt, MarkRunning, AnswerArrives, WaitEnds, AnswerRefused, Skip,
             RunFails, AgentAnswers, KillRun, execution
    <2> QED
      BY <2>1 DEF ExecutionTypeOK, Blocking, Final
  <1>4. UNCHANGED <<told, accepted>>
    BY DEF TakeUp, PackRefused, PackAccepted, PatchReturned, ScopeAgrees, ScopeDiffers,
           Handoff, Prompt, MarkRunning, AnswerArrives, WaitEnds, AnswerRefused, Skip,
           RunFails, AgentAnswers, KillRun, execution, AnswerKept
  <1>5. claim' \in Claims \cup {None}
    BY DEF TakeUp, PackRefused, PackAccepted, PatchReturned, ScopeAgrees, ScopeDiffers,
           Handoff, Prompt, MarkRunning, AnswerArrives, WaitEnds, AnswerRefused, Skip,
           RunFails, AgentAnswers, KillRun, execution, AnswerKept, ExecutionTypeOK
  <1>6. prompted' = prompted \/ (run = "prompt" /\ prompted' = TRUE)
    BY DEF TakeUp, PackRefused, PackAccepted, PatchReturned, ScopeAgrees, ScopeDiffers,
           Handoff, Prompt, MarkRunning, AnswerArrives, WaitEnds, AnswerRefused, Skip,
           RunFails, AgentAnswers, KillRun, execution, AnswerKept
  <1>7. prompted' \in BOOLEAN
    BY <1>6 DEF ExecutionTypeOK
  <1>8. run' \notin {"off", "validate", "prepare", "finalize"} \/ prompted' => tree' # None
    BY <1>1, <1>2, <1>6 DEF ExecutionTypeOK
  <1>9. tree' \in [Paths -> Contents] \cup {None} /\ tracked' \subseteq Paths
    BY <1>1 DEF ExecutionTypeOK, WorktreeKept
  <1> QED
    BY <1>2, <1>3, <1>4, <1>5, <1>7, <1>8, <1>9 DEF ExecutionTypeOK

\* The steps on the worktree.
LEMMA TypeWorktree ==
    ASSUME ExecutionTypeOK, root.digest \in Digests,
           Prepare \/ PatchApplies \/ PatchReset \/ ApplyPayload
    PROVE  ExecutionTypeOK'
  <1>1. BaseFiles \subseteq Paths /\ \A p \in Paths : Old(p) \in Contents
    BY ExecutionAssumption DEF Old, Contents
  <1>2. UNCHANGED <<pc, accepted, prompted, claim>>
    BY DEF Prepare, PatchApplies, PatchReset, ApplyPayload, Bundle_, vars, work, AnswerKept
  <1>3. /\ run # "off" /\ run' \in RunSteps
        /\ status' \in Blocking \cup Final \cup {"none", "waiting_for_agent"}
        /\ told' \in {"nothing", "verified", "repair"}
    BY DEF Prepare, PatchApplies, PatchReset, ApplyPayload, RunGoes, AnswerKept,
           ExecutionTypeOK, RunSteps, Blocking
  <1>4. tree' \in [Paths -> Contents] /\ tracked' \subseteq Paths
    <2>1. CASE Prepare
      BY <1>1, <2>1 DEF Prepare, WorktreeKept, BaseTree, Contents, ExecutionTypeOK
    <2>2. tree \in [Paths -> Contents] \/ Prepare
      BY DEF PatchApplies, PatchReset, ApplyPayload, ExecutionTypeOK
    <2>3. CASE PatchApplies
      <3>1. tree \in [Paths -> Contents]
        BY <2>3 DEF PatchApplies, ExecutionTypeOK
      <3>2. tree' = [p \in Paths |-> IF p \in DOMAIN pack.patch THEN pack.patch[p] ELSE tree[p]]
        BY <2>3 DEF PatchApplies
      <3>3. \A p \in DOMAIN pack.patch : pack.patch[p] \in Contents
        BY PackType
      <3>4. tracked' \subseteq tracked \cup DOMAIN pack.patch /\ DOMAIN pack.patch \subseteq Paths
        BY <2>3, PackType DEF PatchApplies
      <3> QED
        BY <3>1, <3>2, <3>3, <3>4 DEF ExecutionTypeOK
    <2>4. CASE PatchReset
      <3>1. tree \in [Paths -> Contents]
        BY <2>4 DEF PatchReset, ExecutionTypeOK
      <3> QED
        BY <1>1, <2>4, <3>1 DEF PatchReset
    <2>5. CASE ApplyPayload
      <3>1. tree \in [Paths -> Contents] /\ {"none", "payload"} \subseteq Contents
        BY <2>5 DEF ApplyPayload, ExecutionTypeOK, Contents
      <3> QED
        BY <2>5, <3>1 DEF ApplyPayload, ExecutionTypeOK
    <2> QED
      BY <2>1, <2>3, <2>4, <2>5
  <1>5. tree' # None
    BY <1>4, TreeAssumption
  <1> QED
    BY <1>2, <1>3, <1>4, <1>5 DEF ExecutionTypeOK

LEMMA TypeAgentCommits ==
    ASSUME ExecutionTypeOK, AgentCommits PROVE ExecutionTypeOK'
  <1>1. tree \in [Paths -> Contents] /\ "agent" \in Contents /\ tracked \subseteq Paths
    BY DEF AgentCommits, ExecutionTypeOK, Contents
  <1>2. PICK p \in Paths : /\ tree' = [tree EXCEPT ![p] = "agent"]
                           /\ tracked' \in {tracked, tracked \cup {p}}
    BY DEF AgentCommits
  <1>3. tree' \in [Paths -> Contents] /\ tracked' \subseteq Paths /\ tree' # None
    BY <1>1, <1>2, TreeAssumption
  <1>4. UNCHANGED <<run, status, pc, told, prompted, claim, accepted>>
    BY DEF AgentCommits, Bundle_, vars, work, AnswerKept
  <1> QED
    BY <1>3, <1>4 DEF ExecutionTypeOK

\* The runner judges an answer that it has seen; an agent never removes one.
AnswerSeen == run = "finalize" => claim # None

LEMMA AnswerSeenStep == AnswerSeen /\ [ExecutionNext]_allVars => AnswerSeen'
  <1> SUFFICES ASSUME AnswerSeen, [ExecutionNext]_allVars, run' = "finalize"
               PROVE  claim' # None
    BY DEF AnswerSeen
  <1>1. CASE BundleStep \/ UNCHANGED allVars \/ Skip \/ AgentCommits
    BY <1>1 DEF BundleStep, allVars, Skip, AgentCommits, execution, AnswerKept, AnswerSeen
  <1>2. CASE PackAccepted \/ AnswerArrives
    BY <1>2 DEF PackAccepted, AnswerArrives, AnswerKept, RunGoes
  <1>3. CASE AgentAnswers
    BY <1>3, ExecutionAssumption DEF AgentAnswers
  <1>4. CASE PackRefused \/ PatchReturned \/ ScopeDiffers \/ WaitEnds \/ AcceptAnswer
             \/ AnswerRefused \/ RunFails \/ KillRun
    BY <1>4 DEF PackRefused, PatchReturned, ScopeDiffers, WaitEnds, AcceptAnswer,
                AnswerRefused, RunFails, KillRun, RunEnds, Ends
  <1>5. CASE TakeUp \/ Prepare \/ PatchApplies \/ PatchReset \/ ApplyPayload \/ ScopeAgrees
             \/ Handoff \/ Prompt \/ MarkRunning
    BY <1>5 DEF TakeUp, Prepare, PatchApplies, PatchReset, ApplyPayload, ScopeAgrees,
                Handoff, Prompt, MarkRunning, RunGoes
  <1> QED
    BY <1>1, <1>2, <1>3, <1>4, <1>5 DEF ExecutionNext, Runner

\* An answer that is accepted is one that an agent can give.
LEMMA AcceptedClaim ==
    ASSUME ExecutionTypeOK, AnswerSeen, AcceptAnswer
    PROVE  claim \in Claims /\ claim.status \in Outcomes /\ claim.gates \in Seq(Elements(claim.gates))
  <1>1. claim \in Claims /\ claim.wellFormed
    BY DEF ExecutionTypeOK, AnswerSeen, AcceptAnswer, ValidClaim
  <1> QED
    BY <1>1, ExecutionAssumption

LEMMA TypeStep ==
    ASSUME PackInv, ExecutionTypeOK, AnswerSeen, [ExecutionNext]_allVars
    PROVE  ExecutionTypeOK'
  <1>1. CASE BundleStep
    <2>1. UNCHANGED execution /\ (pc = "done" => pc' = "done")
      BY <1>1 DEF BundleStep, Materialize, Sleep, vars, work, Load, Present, OtherContent,
                  Absent, Clear, Extract, ArchiveEnds, ArchiveRefused, WriteDocuments,
                  WriteMarker, Rename, RenameFails, WriteFails, Submit, ApproveEarly
    <2> QED
      BY <2>1 DEF execution, ExecutionTypeOK
  <1>2. CASE Prepare \/ PatchApplies \/ PatchReset \/ ApplyPayload
    <2>1. run # "off"
      BY <1>2 DEF Prepare, PatchApplies, PatchReset, ApplyPayload
    <2> QED
      BY <1>2, <2>1, RunningPack, TypeWorktree DEF ExecutionTypeOK
  <1>3. CASE AcceptAnswer
    <2>1. claim \in Claims /\ claim.status \in Final
      BY <1>3, AcceptedClaim DEF Outcomes, Final
    <2>2. /\ status' = claim.status /\ accepted' = claim /\ run' = "off"
          /\ UNCHANGED <<tree, tracked, told, prompted, claim>>
      BY <1>3 DEF AcceptAnswer, RunEnds, Ends, WorktreeKept
    <2> QED
      BY <2>1, <2>2 DEF ExecutionTypeOK, RunSteps
  <1>4. CASE UNCHANGED allVars
    BY <1>4 DEF allVars, execution, vars, work, ExecutionTypeOK
  <1> QED
    BY <1>1, <1>2, <1>3, <1>4, TypeBeside, TypeAgentCommits DEF ExecutionNext, Runner

-----------------------------------------------------------------------------
(* The judgement of a result.                                              *)

\* A list without repetitions is as long as it has members.
LEMMA DistinctLength ==
    ASSUME NEW n \in Nat, NEW f, f \in [1..n -> Elements(f)], Distinct(f)
    PROVE  Cardinality(Elements(f)) = n
  <1>1. f \in Bijection(1..n, Elements(f))
    BY DEF Distinct, Elements, Bijection, Injection, Surjection, IsInjective
  <1>2. IsFiniteSet(1..n) /\ Cardinality(1..n) = n
    BY FS_Interval
  <1> QED
    BY <1>1, <1>2, FS_Bijection DEF ExistsBijection

LEMMA ListType ==
    ASSUME NEW s, s \in Seq(Elements(s))
    PROVE  Len(s) \in Nat /\ DOMAIN s = 1..Len(s) /\ s \in [1..Len(s) -> Elements(s)]
  <1> DEFINE S == Elements(s)
  <1>1. s \in Seq(S)
    OBVIOUS
  <1> HIDE DEF S
  <1>2. Len(s) \in Nat /\ DOMAIN s = 1..Len(s) /\ s \in [1..Len(s) -> S]
    BY <1>1
  <1> QED
    BY <1>2 DEF S

\* What ValidateAgainst makes sure of: it looks at each report beside those
\* before it, and at each gate; together that is one report for each gate.
LEMMA GatesMatch ==
    ASSUME NEW c, c.status = "succeeded", c.gates \in Seq(Elements(c.gates)),
           NEW gates, gates \in Seq(Elements(gates)), Distinct(gates),
           ValidateAgainst(c, Elements(gates))
    PROVE  /\ \A i \in DOMAIN c.gates : c.gates[i].pass
           /\ {c.gates[i].id : i \in DOMAIN c.gates} = Elements(gates)
           /\ Len(c.gates) = Len(gates)
  <1> DEFINE n == Len(c.gates)
             ids == [i \in 1..n |-> c.gates[i].id]
  <1>1. n \in Nat /\ DOMAIN c.gates = 1..n
    BY ListType
  <1>2. /\ \A i \in 1..n : /\ c.gates[i].id \in Elements(gates) /\ c.gates[i].pass
                           /\ \A j \in 1..(i - 1) : c.gates[j].id # c.gates[i].id
        /\ \A g \in Elements(gates) : \E i \in 1..n : c.gates[i].id = g
    BY <1>1 DEF ValidateAgainst
  <1> HIDE DEF n
  <1>3. Elements(ids) = Elements(gates) /\ Elements(ids) = {c.gates[i].id : i \in 1..n}
    <2>1. DOMAIN ids = 1..n /\ \A i \in 1..n : ids[i] = c.gates[i].id
      OBVIOUS
    <2> HIDE DEF ids
    <2>2. Elements(ids) = {c.gates[i].id : i \in 1..n}
      BY <2>1 DEF Elements
    <2>3. \A g : g \in {c.gates[i].id : i \in 1..n} <=> g \in Elements(gates)
      BY <1>2
    <2> QED
      BY <2>2, <2>3
  <1>4. Distinct(ids)
    <2> SUFFICES ASSUME NEW i \in 1..n, NEW j \in 1..n, ids[i] = ids[j] PROVE i = j
      BY DEF Distinct
    <2>1. c.gates[i].id = c.gates[j].id
      OBVIOUS
    <2>2. CASE i < j
      <3>1. i \in 1..(j - 1)
        BY <1>1, <2>2
      <3> QED
        BY <1>2, <2>1, <3>1
    <2>3. CASE j < i
      <3>1. j \in 1..(i - 1)
        BY <1>1, <2>3
      <3> QED
        BY <1>2, <2>1, <3>1
    <2> QED
      BY <1>1, <2>2, <2>3
  <1>5. ids \in [1..n -> Elements(ids)]
    BY DEF Elements
  <1> HIDE DEF ids
  <1>6. Cardinality(Elements(ids)) = n
    BY <1>1, <1>4, <1>5, DistinctLength
  <1>7. Cardinality(Elements(gates)) = Len(gates)
    <2>1. Len(gates) \in Nat /\ gates \in [1..Len(gates) -> Elements(gates)]
      BY ListType
    <2> QED
      BY <2>1, DistinctLength
  <1> QED
    BY <1>1, <1>2, <1>3, <1>6, <1>7 DEF n

-----------------------------------------------------------------------------
(* The scope that git tells.                                               *)

\* Whatever pairs git makes, the files that are new are those added, the files
\* that are gone those removed.
LEMMA ScopeOfPairing ==
    ASSUME NEW f \in Pairings
    PROVE  ScopeFromBase(NameStatus(f)) = Scope(Added \cup Untracked, Changed, Removed)
  <1> DEFINE lines == NameStatus(f)
  <1>1. \A q \in Added : f[q] = None \/ f[q] \in Removed \/ f[q] \in Changed
    BY DEF Pairings
  <1>2. PathsOf(lines, {"A", "R", "C"}) = Added
    <2>1. ASSUME NEW l \in lines, l.code \in {"A", "R", "C"} PROVE l.path \in Added
      BY <2>1 DEF NameStatus
    <2>2. ASSUME NEW q \in Added
          PROVE  \E l \in lines : l.code \in {"A", "R", "C"} /\ l.path = q
      <3>1. CASE f[q] = None
        <4>1. [code |-> "A", path |-> q, from |-> None] \in lines
          BY <3>1 DEF NameStatus
        <4> QED
          BY <4>1
      <3>2. CASE f[q] \in Removed
        <4>1. [code |-> "R", path |-> q, from |-> f[q]] \in lines
          BY <3>2 DEF NameStatus
        <4> QED
          BY <4>1
      <3>3. CASE f[q] \in Changed
        <4>1. [code |-> "C", path |-> q, from |-> f[q]] \in lines
          BY <3>3 DEF NameStatus
        <4> QED
          BY <4>1
      <3> QED
        BY <1>1, <3>1, <3>2, <3>3
    <2> QED
      BY <2>1, <2>2 DEF PathsOf
  <1>3. PathsOf(lines, {"M"}) = Changed
    <2>1. ASSUME NEW l \in lines, l.code = "M" PROVE l.path \in Changed
      BY <2>1 DEF NameStatus
    <2>2. \A p \in Changed : [code |-> "M", path |-> p, from |-> None] \in lines
      BY DEF NameStatus
    <2>3. ASSUME NEW p \in Changed PROVE \E l \in lines : l.code = "M" /\ l.path = p
      <3> DEFINE line == [code |-> "M", path |-> p, from |-> None]
      <3>1. line \in lines /\ line.code = "M" /\ line.path = p
        BY <2>2
      <3> QED
        BY <3>1
    <2> HIDE DEF lines
    <2> QED
      BY <2>1, <2>3 DEF PathsOf
  <1>4. PathsOf(lines, {"D"}) \cup {l.from : l \in {k \in lines : k.code = "R"}} = Removed
    <2>1. ASSUME NEW l \in lines, l.code = "D" PROVE l.path \in Removed
      BY <2>1 DEF NameStatus
    <2>2. ASSUME NEW l \in lines, l.code = "R" PROVE l.from \in Removed
      BY <2>2 DEF NameStatus
    <2>3. ASSUME NEW p \in Removed, p \notin {f[q] : q \in Added}
          PROVE  [code |-> "D", path |-> p, from |-> None] \in lines
      BY <2>3 DEF NameStatus
    <2>4. ASSUME NEW q \in Added, f[q] \in Removed
          PROVE  [code |-> "R", path |-> q, from |-> f[q]] \in lines
      BY <2>4 DEF NameStatus
    <2>5. PathsOf(lines, {"D"}) \subseteq Removed
          /\ {l.from : l \in {k \in lines : k.code = "R"}} \subseteq Removed
      BY <2>1, <2>2 DEF PathsOf
    <2>6. ASSUME NEW p \in Removed
          PROVE  p \in PathsOf(lines, {"D"}) \cup {l.from : l \in {k \in lines : k.code = "R"}}
      <3>1. CASE p \in {f[q] : q \in Added}
        <4>1. PICK q \in Added : f[q] = p
          BY <3>1
        <4>2. [code |-> "R", path |-> q, from |-> p] \in lines
          BY <2>4, <4>1
        <4> QED
          BY <4>2
      <3>2. CASE p \notin {f[q] : q \in Added}
        <4>1. [code |-> "D", path |-> p, from |-> None] \in lines
          BY <2>3, <3>2
        <4>2. \E l \in lines : l.code = "D" /\ l.path = p
          BY <4>1
        <4> HIDE DEF lines
        <4> QED
          BY <4>2 DEF PathsOf
      <3> QED
        BY <3>1, <3>2
    <2> QED
      BY <2>5, <2>6
  <1> HIDE DEF lines
  <1> QED
    BY <1>2, <1>3, <1>4 DEF ScopeFromBase, lines

\* What the three lists hold beside the difference that git would record: nothing, as
\* long as no file of the base that git does not ignore is there without being in the
\* index; such a file is in two lists.  An ignored one is in the list of the deleted.
LEMMA ScopeExact ==
    ASSUME ExecutionTypeOK, tree # None, NEW f \in Pairings
    PROVE  /\ IF Recreated = {} THEN ScopeFromBase(NameStatus(f)) = Difference
              ELSE Recreated \subseteq ScopeFromBase(NameStatus(f)).created
                                       \cap ScopeFromBase(NameStatus(f)).deleted
           /\ Leftover \subseteq ScopeFromBase(NameStatus(f)).deleted
                                 \ ScopeFromBase(NameStatus(f)).created
  <1> DEFINE scope == ScopeFromBase(NameStatus(f))
  <1>1. scope = Scope(Added \cup Untracked, Changed, Removed)
    BY ScopeOfPairing
  <1>2. /\ BaseFiles \subseteq Paths
        /\ \A p \in Paths : Old(p) = IF p \in BaseFiles THEN "base" ELSE "none"
    BY ExecutionAssumption DEF Old
  <1>3. scope.created = Added \cup Untracked /\ scope.deleted = Removed
    BY <1>1 DEF Scope
  <1>4. ASSUME Recreated = {} PROVE scope = Difference
    <2>1. \A p \in BaseFiles \ Ignored : p \in tracked \/ tree[p] = "none"
      BY <1>4 DEF Recreated
    <2>2. \A p \in Paths : Old(p) # "none" => Recorded(p) = New(p)
      BY <1>2, <2>1 DEF Recorded, New
    <2>3. \A p \in Paths : Recorded(p) = IF p \in tracked \/ p \notin Ignored THEN tree[p] ELSE "none"
      BY DEF Recorded
    <2>4. Added \cup Untracked = {p \in Paths : Old(p) = "none" /\ Recorded(p) # "none"}
      BY <1>2, <2>1, <2>3 DEF Added, Untracked, New
    <2>5. Changed = {p \in Paths : Old(p) # "none" /\ Recorded(p) \notin {"none", Old(p)}}
      BY <2>2 DEF Changed
    <2>6. Removed = {p \in Paths : Old(p) # "none" /\ Recorded(p) = "none"}
      BY <2>2 DEF Removed
    <2> QED
      BY <1>1, <2>4, <2>5, <2>6 DEF Difference
  <1>5. Recreated \subseteq scope.created \cap scope.deleted
    <2>1. Recreated \subseteq Untracked /\ Recreated \subseteq Removed
      BY <1>2 DEF Recreated, Untracked, Removed, New
    <2> QED
      BY <1>3, <2>1
  <1>6. Leftover \subseteq Removed \ (Added \cup Untracked)
    BY <1>2 DEF Leftover, Removed, Added, Untracked, New
  <1>7. Leftover \subseteq scope.deleted \ scope.created
    BY <1>3, <1>6
  <1> HIDE DEF scope
  <1> QED
    BY <1>4, <1>5, <1>7 DEF scope

\* The files that are declared as deleted and are on disk all the same.
LEMMA DeletedOnDisk ==
    ASSUME NEW p \in Difference.deleted, tree[p] # "none"
    PROVE  p \in Leftover
  <1>1. Difference.deleted = {q \in Paths : Old(q) # "none" /\ Recorded(q) = "none"}
    BY DEF Difference, Scope
  <1> QED
    BY <1>1 DEF Recorded, Old, Leftover

\* A manifest's lists have no path in common.
LEMMA DeclaredApart ==
    ASSUME NEW c, NEW m, NEW d, c \in Seq(Elements(c)), m \in Seq(Elements(m)),
           d \in Seq(Elements(d)), Distinct(c \o m \o d)
    PROVE  Elements(c) \cap Elements(d) = {}
  <1> SUFFICES ASSUME NEW i \in DOMAIN c, NEW k \in DOMAIN d, c[i] = d[k] PROVE FALSE
    BY DEF Elements
  <1> DEFINE S == Elements(c) \cup Elements(m) \cup Elements(d)
             all == c \o m \o d
             j == Len(c) + Len(m) + k
  <1>1. c \in Seq(S) /\ m \in Seq(S) /\ d \in Seq(S)
    <2>1. \A s : s \in Seq(Elements(s)) => \A T : Elements(s) \subseteq T => s \in Seq(T)
      OBVIOUS
    <2> QED
      BY <2>1
  <1> HIDE DEF S
  <1>2. /\ Len(c) \in Nat /\ Len(m) \in Nat /\ Len(d) \in Nat
        /\ i \in 1..Len(c) /\ k \in 1..Len(d)
    BY <1>1
  <1>3. DOMAIN all = 1..(Len(c) + Len(m) + Len(d))
    BY <1>1
  <1>4. i \in DOMAIN all /\ j \in DOMAIN all /\ i # j
    BY <1>2, <1>3
  <1>5. all[i] = c[i] /\ all[j] = d[k]
    BY <1>1, <1>2
  <1> QED
    BY <1>4, <1>5 DEF Distinct

-----------------------------------------------------------------------------
(* The invariant.                                                          *)

\* A run goes on only with a manifest that is valid.
ManifestInv == run \notin {"off", "validate"} => ValidManifest(pack)

BackedInv == (status = "succeeded" => Materialized) /\ SuccessIsBacked

\* From the comparison on, nobody touches the worktree before the prompt.
HandoffInv ==
    run \in {"handoff", "prompt"} /\ told = "verified" /\ ~prompted
        => Difference = DeclaredScope

ExecutionInv ==
    /\ PackInv /\ SizeInv /\ ExecutionTypeOK /\ AnswerSeen
    /\ ManifestInv /\ BackedInv /\ HandoffInv

LEMMA PackKept ==
    ASSUME ExecutionTypeOK, Materialized, [ExecutionNext]_allVars
    PROVE  root' = root /\ pack' = pack /\ Materialized'
  BY ExecutionRefines, RootKept DEF pack, Materialized

LEMMA ManifestStep ==
    ASSUME PackInv, ExecutionTypeOK, ManifestInv, [ExecutionNext]_allVars
    PROVE  ManifestInv'
  <1> SUFFICES ASSUME run' \notin {"off", "validate"} PROVE ValidManifest(pack')
    BY DEF ManifestInv
  <1>1. run # "off" /\ (PackAccepted \/ run # "validate")
    <2>1. CASE BundleStep \/ UNCHANGED allVars \/ AgentCommits \/ AgentAnswers
      BY <2>1 DEF BundleStep, allVars, AgentCommits, AgentAnswers, execution
    <2>2. CASE TakeUp \/ PackRefused \/ PackAccepted \/ Prepare \/ PatchApplies \/ PatchReturned
               \/ PatchReset \/ ApplyPayload \/ ScopeAgrees \/ ScopeDiffers
      BY <2>2 DEF TakeUp, PackRefused, PackAccepted, Prepare, PatchApplies, PatchReturned,
                  PatchReset, ApplyPayload, ScopeAgrees, ScopeDiffers, RunGoes, RunEnds, Ends
    <2>3. CASE Handoff \/ Prompt \/ MarkRunning \/ AnswerArrives \/ WaitEnds \/ AcceptAnswer
               \/ AnswerRefused \/ Skip \/ RunFails \/ KillRun
      BY <2>3 DEF Handoff, Prompt, MarkRunning, AnswerArrives, WaitEnds, AcceptAnswer,
                  AnswerRefused, Skip, RunFails, KillRun, RunEnds, Ends, execution
    <2> QED
      BY <2>1, <2>2, <2>3 DEF ExecutionNext, Runner
  <1>2. pack' = pack
    BY <1>1, RunningPack, PackKept DEF ExecutionTypeOK
  <1>3. ValidManifest(pack)
    BY <1>1 DEF ManifestInv, PackAccepted
  <1> QED
    BY <1>2, <1>3

\* Only an accepted answer makes a success, and it is kept with it.
LEMMA BackedStep ==
    ASSUME ExecutionInv, [ExecutionNext]_allVars PROVE BackedInv'
  <1> SUFFICES ASSUME status' = "succeeded" PROVE BackedInv'
    BY DEF BackedInv, SuccessIsBacked
  <1>1. CASE AcceptAnswer
    <2>1. run = "finalize" /\ ValidClaim(claim, Elements(pack.gates)) /\ accepted' = claim
          /\ claim.status = "succeeded"
      BY <1>1 DEF AcceptAnswer
    <2>2. ExecutionTypeOK /\ Materialized /\ root.digest \in Digests /\ ValidManifest(pack)
      BY <2>1, RunningPack DEF ExecutionInv, ExecutionTypeOK, ManifestInv
    <2>3. pack' = pack /\ Materialized'
      BY <2>2, PackKept
    <2>4. claim \in Claims /\ claim # None /\ claim.gates \in Seq(Elements(claim.gates))
      BY <1>1, <2>1, AcceptedClaim DEF ExecutionInv, AnswerSeen
    <2>5. /\ pack.gates \in Seq(Elements(pack.gates)) /\ Distinct(pack.gates)
          /\ ValidateAgainst(claim, Elements(pack.gates)) /\ claim.commitsExist
      BY <2>1, <2>2, PackType DEF ValidManifest, ValidClaim
    <2>6. /\ \A i \in DOMAIN claim.gates : claim.gates[i].pass
          /\ {claim.gates[i].id : i \in DOMAIN claim.gates} = Elements(pack.gates)
          /\ Len(claim.gates) = Len(pack.gates)
      BY <2>1, <2>4, <2>5, GatesMatch
    <2> QED
      BY <2>1, <2>3, <2>4, <2>5, <2>6 DEF BackedInv, SuccessIsBacked
  <1>2. CASE ~AcceptAnswer
    <2>1. UNCHANGED <<status, accepted>>
      <3>1. CASE BundleStep \/ UNCHANGED allVars \/ AgentCommits \/ AgentAnswers \/ Skip
        BY <3>1 DEF BundleStep, allVars, AgentCommits, AgentAnswers, Skip, execution, AnswerKept
      <3>2. CASE TakeUp \/ PackRefused \/ PackAccepted \/ Prepare \/ PatchApplies
                 \/ PatchReturned \/ PatchReset \/ ApplyPayload
        BY <3>2 DEF TakeUp, PackRefused, PackAccepted, Prepare, PatchApplies, PatchReturned,
                    PatchReset, ApplyPayload, AnswerKept
      <3>3. CASE ScopeAgrees \/ ScopeDiffers \/ Handoff \/ Prompt \/ MarkRunning
                 \/ AnswerArrives \/ WaitEnds \/ AnswerRefused \/ RunFails \/ KillRun
        BY <3>3 DEF ScopeAgrees, ScopeDiffers, Handoff, Prompt, MarkRunning, AnswerArrives,
                    WaitEnds, AnswerRefused, RunFails, KillRun, AnswerKept
      <3> QED
        BY <1>2, <3>1, <3>2, <3>3 DEF ExecutionNext, Runner
    <2>2. Materialized /\ SuccessIsBacked
      BY <2>1 DEF ExecutionInv, BackedInv
    <2>3. pack' = pack /\ Materialized'
      BY <2>2, PackKept DEF ExecutionInv
    <2> QED
      BY <2>1, <2>2, <2>3 DEF BackedInv, SuccessIsBacked
  <1> QED
    BY <1>1, <1>2

\* The comparison is made for one pairing; it cannot agree when a file has been
\* recreated.
LEMMA HandoffStep ==
    ASSUME ExecutionInv, [ExecutionNext]_allVars PROVE HandoffInv'
  <1> SUFFICES ASSUME run' \in {"handoff", "prompt"}, told' = "verified", ~prompted'
               PROVE  Difference' = DeclaredScope'
    BY DEF HandoffInv
  <1>0. ExecutionTypeOK /\ PackInv
    BY DEF ExecutionInv
  <1>1. CASE ScopeAgrees
    <2>1. run = "scope" /\ UNCHANGED <<tree, tracked>>
      BY <1>1 DEF ScopeAgrees, WorktreeKept
    <2>2. PICK f \in Pairings : CompareScope(ScopeFromBase(NameStatus(f)))
      BY <1>1 DEF ScopeAgrees
    <2>3. tree # None /\ Materialized /\ root.digest \in Digests /\ ValidManifest(pack)
      BY <1>0, <2>1, RunningPack DEF ExecutionInv, ExecutionTypeOK, ManifestInv
    <2>4. Elements(pack.created) \cap Elements(pack.deleted) = {}
      BY <2>3, PackType, DeclaredApart DEF ValidManifest
    <2>5. ScopeFromBase(NameStatus(f)) = DeclaredScope
      BY <2>2 DEF CompareScope
    <2>6. /\ DeclaredScope.created = Elements(pack.created)
          /\ DeclaredScope.deleted = Elements(pack.deleted)
      BY DEF DeclaredScope, Scope
    <2>7. Recreated = {}
      BY <1>0, <2>3, <2>4, <2>5, <2>6, ScopeExact
    <2>8. Difference = DeclaredScope
      BY <1>0, <2>3, <2>5, <2>7, ScopeExact
    <2>9. pack' = pack
      BY <1>0, <2>3, PackKept
    <2> QED
      BY <2>1, <2>8, <2>9 DEF Difference, Recorded, DeclaredScope, Old
  <1>2. CASE ~ScopeAgrees
    <2>1. run \in {"handoff", "prompt"} /\ UNCHANGED <<tree, tracked, told, prompted>>
      <3>1. CASE BundleStep \/ UNCHANGED allVars \/ AgentCommits \/ AgentAnswers \/ Skip
        BY <3>1 DEF BundleStep, allVars, AgentCommits, AgentAnswers, Skip, execution, AnswerKept
      <3>2. CASE TakeUp \/ PackRefused \/ PackAccepted \/ Prepare \/ PatchApplies
                 \/ PatchReturned \/ PatchReset \/ ApplyPayload
        BY <3>2 DEF TakeUp, PackRefused, PackAccepted, Prepare, PatchApplies, PatchReturned,
                    PatchReset, ApplyPayload, RunGoes, RunEnds, Ends
      <3>3. CASE ScopeDiffers \/ Handoff \/ Prompt \/ MarkRunning \/ AnswerArrives \/ WaitEnds
                 \/ AcceptAnswer \/ AnswerRefused \/ RunFails \/ KillRun
        BY <3>3 DEF ScopeDiffers, Handoff, Prompt, MarkRunning, AnswerArrives, WaitEnds,
                    AcceptAnswer, AnswerRefused, RunFails, KillRun, WorktreeKept, RunGoes,
                    RunEnds, Ends
      <3> QED
        BY <1>2, <3>1, <3>2, <3>3 DEF ExecutionNext, Runner
    <2>2. Difference = DeclaredScope
      BY <2>1 DEF ExecutionInv, HandoffInv
    <2>3. Materialized
      BY <1>0, <2>1, RunningPack DEF ExecutionTypeOK
    <2>4. pack' = pack
      BY <1>0, <2>3, PackKept
    <2> QED
      BY <2>1, <2>2, <2>4 DEF Difference, Recorded, DeclaredScope, Old
  <1> QED
    BY <1>1, <1>2
-----------------------------------------------------------------------------
(* The theorems.                                                           *)

\* What a bundle, its task directory, the worktree, the handoff and the agent's
\* answer have to do with each other, after any step of any of them.
THEOREM ExecutionInvariance == ExecutionSpec => []ExecutionInv
  <1>1. ExecutionInit => ExecutionInv
    <2> SUFFICES ASSUME ExecutionInit PROVE ExecutionInv
      OBVIOUS
    <2>1. Init /\ run = "off" /\ status = "none"
      BY DEF ExecutionInit
    <2> QED
      BY <2>1, PackInit, SizeInit, TypeInit
         DEF ExecutionInv, AnswerSeen, ManifestInv, BackedInv, SuccessIsBacked, HandoffInv
  <1>2. ExecutionInv /\ [ExecutionNext]_allVars => ExecutionInv'
    <2> SUFFICES ASSUME ExecutionInv, [ExecutionNext]_allVars PROVE ExecutionInv'
      OBVIOUS
    <2>1. [Next]_vars
      BY ExecutionRefines DEF ExecutionInv
    <2> QED
      BY <2>1, PackStep, SizeStep, TypeStep, AnswerSeenStep, ManifestStep, BackedStep,
         HandoffStep DEF ExecutionInv
  <1> QED
    BY <1>1, <1>2, PTL DEF ExecutionSpec

\* Running tasks is a refinement of unpacking bundles: what TaskBundle promises
\* of task directories holds while tasks are run, fail and are killed.
THEOREM ExecutionImplementsBundle == ExecutionSpec => Spec
  <1>1. ExecutionInit => Init
    BY DEF ExecutionInit
  <1>2. ExecutionInv /\ [ExecutionNext]_allVars => [Next]_vars
    BY ExecutionRefines DEF ExecutionInv
  <1> QED
    BY <1>1, <1>2, ExecutionInvariance, PTL DEF ExecutionSpec, Spec

\* Hence a task directory stays the whole work of one bundle, within the limits,
\* also while the runner applies, resets and is killed around it.
THEOREM ExecutionKeepsPacks == ExecutionSpec => [](PackIsWhole /\ PackIsBounded)
  BY ExecutionImplementsBundle, PackTheorem, BoundedTheorem, PTL

\* No run, no agent and no kill takes a variable out of its type.
THEOREM ExecutionTypeCorrect == ExecutionSpec => []ExecutionTypeOK
  <1>1. ExecutionInv => ExecutionTypeOK
    BY DEF ExecutionInv
  <1> QED
    BY <1>1, ExecutionInvariance, PTL

\* In whatever way git pairs files of whatever repository, the scope that is
\* compared is the difference that git would record, or one that no manifest
\* declares; an ignored file that has lost its place in the index is in it as
\* deleted, also when it is on disk.
THEOREM ScopeTheorem == ExecutionSpec => []ScopeIsExact
  <1>1. ExecutionInv => ScopeIsExact
    BY ScopeExact DEF ExecutionInv, ScopeIsExact
  <1> QED
    BY <1>1, ExecutionInvariance, PTL

\* An agent that is told that the scope is verified finds the declared difference
\* in its worktree, as git would record it, however many runs were cut off before;
\* what is declared as deleted is gone, but for ignored files that the base tracks.
THEOREM HandoffTheorem == ExecutionSpec => []HandoffInScope
  <1>1. ExecutionInv => HandoffInScope
    <2> SUFFICES ASSUME HandoffInv, run = "prompt", told = "verified", ~prompted
                 PROVE  /\ Difference = DeclaredScope
                        /\ \A p \in DeclaredScope.deleted : tree[p] # "none" => p \in Leftover
      BY DEF ExecutionInv, HandoffInScope
    <2>1. Difference = DeclaredScope
      BY DEF HandoffInv
    <2> QED
      BY <2>1, DeletedOnDisk
  <1> QED
    BY <1>1, ExecutionInvariance, PTL

\* A reported success is backed by one passed report for each gate of the
\* manifest and by commits that exist, for manifests and answers of any length.
THEOREM SuccessTheorem == ExecutionSpec => []SuccessIsBacked
  <1>1. ExecutionInv => SuccessIsBacked
    BY DEF ExecutionInv, BackedInv
  <1> QED
    BY <1>1, ExecutionInvariance, PTL
=============================================================================
