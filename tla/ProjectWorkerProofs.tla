------------------------ MODULE ProjectWorkerProofs ------------------------
(***************************************************************************)
(* Proofs about ProjectWorker, for every set of tasks and contents, every  *)
(* ranking, every mode and any number of disturbances.                     *)
(***************************************************************************)
EXTENDS ProjectWorker, TLAPS

USE DEF busVars, taskVars, gitVars, agentVars, procVars, workVars

-----------------------------------------------------------------------------
(* The queue.                                                              *)

\* At most one task is at the head: the rank is injective (Discover's sort).
LEMMA HeadIsUnique ==
    ASSUME NEW t \in Tasks, NEW u \in Tasks, Head(t), Head(u)
    PROVE  t = u
BY RankAssumption DEF Head, Earlier

\* The steps of a run are not "idle" and not "queue".
LEMMA StepNames ==
    /\ {"validate", "prepare", "apply", "scope", "repair", "handoff", "session",
        "prompt", "mark", "wait", "late", "finalize", "fail", "publish",
        "report"} = RunSteps
    /\ {"publish", "report"} \subseteq RunSteps
BY DEF RunSteps, Steps

\* Final states are states, and none of them says that the task executes.
LEMMA StateNames ==
    /\ Reportable \subseteq States
    /\ Verdicts \subseteq Reportable
    /\ Reportable \cap Executing = {}
    /\ "none" \notin States
BY DEF Reportable, States, Final, Executing, Verdicts

-----------------------------------------------------------------------------
(* Types.                                                                  *)

LEMMA InitType == Init => TypeOK
<1>1. Init => dirty \in BOOLEAN
  BY DEF Init
<1> QED
  BY <1>1, DisturbanceAssumption
     DEF Init, TypeOK, NoBatch, Content, NoResult, Results, Steps

LEMMA TypeStep ==
    ASSUME TypeOK, OutcomeIsStatus, [Next]_vars
    PROVE  TypeOK'
<1> USE DEF TypeOK, Goto, Return, At, NoBatch, Content
<1>1. ASSUME Discover PROVE TypeOK'
  BY <1>1 DEF Discover, Steps
<1>13. ASSUME DiscoverFails PROVE TypeOK'
  BY <1>13 DEF DiscoverFails, vars
<1>2. ASSUME PassDone PROVE TypeOK'
  BY <1>2 DEF PassDone, Steps
<1>3. ASSUME NEW t \in Tasks, MaterializeRefused(t) \/ QueueHeld(t)
                              \/ SkipTask(t) \/ TakeTask(t)
      PROVE  TypeOK'
  BY <1>3 DEF MaterializeRefused, QueueHeld, SkipTask, TakeTask, MaterializeOk,
              Head, Queued, Steps
<1>4. ASSUME NEW t \in Tasks, RefusePack(t) \/ RefuseByPolicy(t)
                              \/ ResumeAnswer(t) \/ BeginPreparation(t)
      PROVE  TypeOK'
  BY <1>4 DEF RefusePack, RefuseByPolicy, ResumeAnswer, BeginPreparation,
              PolicyState, Conclude, RunError, WriteStatus, Steps, States, Final,
              Executing
<1>5. ASSUME NEW t \in Tasks, PrepareWorktree(t) \/ PrepareFails(t)
                              \/ ApplyPatch(t) \/ ReturnPatch(t)
                              \/ ResetForRepair(t) \/ ResetFails(t)
      PROVE  TypeOK'
  BY <1>5 DEF PrepareWorktree, PrepareFails, ApplyPatch, ReturnPatch,
              ResetForRepair, ResetFails, Conclude, RunError, WriteStatus,
              Steps, States, Final, Executing
<1>14. ASSUME NEW t \in Tasks, ScopeAgrees(t) \/ NothingToCompare(t)
                               \/ ScopeDiffers(t) \/ PayloadFails(t)
      PROVE  TypeOK'
  BY <1>14 DEF ScopeAgrees, NothingToCompare, ScopeDiffers, PayloadFails, PutInPlace,
               Conclude, RunError, WriteStatus, Steps, States, Final
<1>6. ASSUME NEW t \in Tasks, WriteHandoff(t) \/ SessionReady(t)
                              \/ SessionUnavailable(t) \/ PromptDelivered(t)
                              \/ PromptFails(t) \/ MarkRunning(t)
      PROVE  TypeOK'
  BY <1>6, DisturbanceAssumption DEF WriteHandoff, SessionReady, SessionUnavailable, PromptDelivered,
              PromptFails, MarkRunning, Conclude, RunError, WriteStatus, Disturb,
              Steps, States, Final, Executing
<1>7. ASSUME NEW t \in Tasks, AnswerArrives(t) \/ WaitEnds(t) \/ TimeOut(t)
                              \/ AcceptAnswer(t) \/ DiscardAnswer(t) \/ RecordFailure(t)
      PROVE  TypeOK'
  BY <1>7 DEF AnswerArrives, WaitEnds, TimeOut, AcceptAnswer, DiscardAnswer, RecordFailure,
              Verified, Verdicts, Conclude, RunError, WriteStatus, Steps, States,
              Final, Executing
<1>8. ASSUME NEW t \in Tasks, Publish(t) \/ PublishFailure(t) \/ PublishFails(t)
      PROVE  TypeOK'
  <2>1. outcome \in States /\ batch[t] \in Digests
    BY <1>8, StateNames DEF Publish, PublishFailure, PublishFails, Head, Queued,
                            OutcomeIsStatus
  <2>4. dirty' \in BOOLEAN
    BY <1>8 DEF Publish, PublishFailure, PublishFails
  <2>2. CASE AddResult(t)
    <3>1. [state |-> outcome, digest |-> batch[t]] \in Results
      BY <2>1 DEF Results
    <3>2. results' \in [Tasks -> Results]
      BY <2>2, <3>1 DEF AddResult
    <3> QED BY <1>8, <2>4, <3>2, DisturbanceAssumption
               DEF Publish, PublishFailure, PublishFails, Disturb, Steps
  <2>3. CASE UNCHANGED results
    BY <1>8, <2>3, <2>4, DisturbanceAssumption
       DEF Publish, PublishFailure, PublishFails, AddResult, Disturb, Steps
  <2> QED BY <1>8, <2>2, <2>3 DEF Publish, PublishFailure, PublishFails
<1>9. ASSUME Start \/ Crash \/ Stop \/ Exit \/ Doctor PROVE TypeOK'
  <2>1. dirty' \in BOOLEAN
    BY <1>9 DEF Start, Crash, Stop, Exit, Doctor
  <2> QED
    BY <1>9, <2>1, DisturbanceAssumption
       DEF Start, Crash, Stop, Exit, Doctor, Disturb, Steps
<1>10. ASSUME NEW t \in Tasks, Approve(t) \/ Reject(t) \/ Rollback(t)
       PROVE  TypeOK'
  BY <1>10, DisturbanceAssumption DEF Approve, Reject, Decide, Rollback, RollbackWorktree, RollbackBranch,
               RollbackStatus, Disturb, WriteStatus, States, Final
<1>11. ASSUME NEW t \in Tasks, Agent(t) \/ Submit(t) \/ Replace(t)
       PROVE  TypeOK'
  BY <1>11, DisturbanceAssumption DEF Agent, AgentCommits, AgentWritesResult, AgentResponds, Finish,
               Submit, Replace, Disturb, Verdicts
<1>12. CASE UNCHANGED vars
  BY <1>12 DEF vars
<1> QED
  BY <1>1, <1>2, <1>3, <1>4, <1>5, <1>6, <1>7, <1>8, <1>9, <1>10, <1>11, <1>12,
     <1>13, <1>14 DEF Next, Worker

-----------------------------------------------------------------------------
(* The kinds of steps: the actions are taken in groups, and a lemma says   *)
(* what the steps of each group have in common.                            *)

WorkerActions(t) ==
    \/ RefusePack(t) \/ RefuseByPolicy(t) \/ ResumeAnswer(t)
    \/ BeginPreparation(t) \/ PrepareWorktree(t) \/ PrepareFails(t)
    \/ ApplyPatch(t) \/ ReturnPatch(t) \/ ResetForRepair(t) \/ ResetFails(t)
    \/ ScopeAgrees(t) \/ NothingToCompare(t) \/ ScopeDiffers(t) \/ PayloadFails(t)
    \/ WriteHandoff(t) \/ SessionReady(t) \/ SessionUnavailable(t)
    \/ PromptDelivered(t) \/ PromptFails(t) \/ MarkRunning(t)
    \/ AnswerArrives(t) \/ WaitEnds(t) \/ TimeOut(t)
    \/ AcceptAnswer(t) \/ DiscardAnswer(t) \/ RecordFailure(t)

\* What every step of a run does: it stays on its task and inside the run,
\* touches the status of no other task, and no bundle, result or directory; a
\* conclusion writes the state it is about to report (Runner.Run).
LEMMA RunStep ==
    ASSUME TypeOK, NEW t \in Tasks, WorkerActions(t)
    PROVE  /\ Head(t) /\ pc \in RunSteps /\ pc' \in RunSteps
           /\ UNCHANGED <<inbox, results, root, batch, rollingBack>>
           /\ \/ UNCHANGED status
              \/ \E s \in States : status' = [status EXCEPT ![t] = s]
           /\ pc' \in {"publish", "report"} =>
                 outcome' \in Reportable /\ status'[t] = outcome'
<1> USE DEF WorkerActions, At, Goto, RunError, Conclude, WriteStatus, RunSteps,
            Steps, TypeOK, Reportable, States, Final, Executing
<1>1. CASE RefusePack(t) \/ ResumeAnswer(t) \/ PrepareFails(t) \/ ResetFails(t)
           \/ SessionReady(t) \/ PromptDelivered(t) \/ PromptFails(t)
           \/ AnswerArrives(t) \/ WaitEnds(t) \/ DiscardAnswer(t)
  BY <1>1 DEF RefusePack, ResumeAnswer, PrepareFails, ResetFails, SessionReady,
              PromptDelivered, PromptFails, AnswerArrives, WaitEnds, DiscardAnswer
<1>2. CASE RefuseByPolicy(t)
  BY <1>2 DEF RefuseByPolicy, PolicyState
<1>3. CASE BeginPreparation(t) \/ WriteHandoff(t) \/ MarkRunning(t)
  BY <1>3 DEF BeginPreparation, WriteHandoff, MarkRunning
<1>4. CASE PrepareWorktree(t) \/ ResetForRepair(t)
  BY <1>4 DEF PrepareWorktree, ResetForRepair
<1>5. CASE ApplyPatch(t) \/ ReturnPatch(t)
  BY <1>5 DEF ApplyPatch, ReturnPatch
<1>8. CASE ScopeAgrees(t) \/ NothingToCompare(t) \/ ScopeDiffers(t)
           \/ PayloadFails(t)
  BY <1>8 DEF ScopeAgrees, NothingToCompare, ScopeDiffers, PayloadFails, AtPayload
<1>6. CASE SessionUnavailable(t) \/ TimeOut(t) \/ RecordFailure(t)
  BY <1>6 DEF SessionUnavailable, TimeOut, RecordFailure
<1>7. CASE AcceptAnswer(t)
  BY <1>7 DEF AcceptAnswer, Verified, Verdicts
<1> QED BY <1>1, <1>2, <1>3, <1>4, <1>5, <1>6, <1>7, <1>8

\* What ends a run: the head's result is added or not, and the batch only loses
\* places (PublishAtomicResult and the returns of OnceProject).
Publication(t) == Publish(t) \/ PublishFailure(t) \/ PublishFails(t)

LEMMA PublicationStep ==
    ASSUME TypeOK, NEW t \in Tasks, Publication(t)
    PROVE  /\ Head(t) /\ pc \in {"publish", "report"}
           /\ UNCHANGED <<inbox, root, status, rollingBack>>
           /\ UNCHANGED results \/ AddResult(t)
           /\ \/ pc' = "idle" /\ batch' = NoBatch
              \/ pc' = "queue" /\ batch' = [batch EXCEPT ![t] = NoBundle]
                 /\ AddResult(t)
BY DEF Publication, Publish, PublishFailure, PublishFails, At, Goto, Return

\* What the steps outside a run leave alone: owner, agent, GPT and the process.
Environment ==
    \/ Start \/ Crash \/ Stop \/ Exit \/ Doctor
    \/ \E t \in Tasks : Approve(t) \/ Reject(t) \/ Rollback(t) \/ Agent(t)
                        \/ Submit(t) \/ Replace(t)

LEMMA EnvironmentStep ==
    ASSUME TypeOK, Environment
    PROVE  /\ UNCHANGED results
           /\ UNCHANGED <<pc, batch, outcome>> \/ (pc' = "idle" /\ batch' = NoBatch)
           /\ \A u \in Tasks :
                 /\ inbox[u] # NoBundle => inbox'[u] # NoBundle
                 /\ root'[u] = root[u] \/ (root[u] = "absent" /\ root'[u] = "bare")
                 /\ status'[u] = status[u]
                       \/ (rollingBack[u] # "no" /\ status'[u] = "rolled_back")
                 /\ rollingBack'[u] # "no" =>
                       rollingBack[u] # "no" \/ Materialized(u)
<1> USE DEF TypeOK, Materialized
<1>1. CASE Start \/ Crash \/ Stop \/ Exit \/ Doctor
  BY <1>1 DEF Start, Crash, Stop, Exit, Doctor, Return
<1>2. CASE \E t \in Tasks : Approve(t) \/ Reject(t)
  BY <1>2 DEF Approve, Reject, Decide
<1>3. CASE \E t \in Tasks : Rollback(t)
  BY <1>3 DEF Rollback, RollbackWorktree, RollbackBranch, RollbackStatus, WriteStatus
<1>4. CASE \E t \in Tasks : Agent(t)
  BY <1>4 DEF Agent, AgentCommits, AgentWritesResult, AgentResponds
<1>5. CASE \E t \in Tasks : Submit(t) \/ Replace(t)
  BY <1>5, NoBundleAssumption DEF Submit, Replace
<1> QED BY <1>1, <1>2, <1>3, <1>4, <1>5 DEF Environment

\* Every step is one of these, or a move along the queue.
QueueStep ==
    \/ Discover \/ PassDone
    \/ \E t \in Tasks : MaterializeRefused(t) \/ QueueHeld(t) \/ SkipTask(t)
                        \/ TakeTask(t)

LEMMA StepKinds ==
    ASSUME [Next]_vars
    PROVE  \/ QueueStep
           \/ \E t \in Tasks : WorkerActions(t) \/ Publication(t)
           \/ Environment
           \/ UNCHANGED vars
BY DEF Next, Worker, DiscoverFails, QueueStep, WorkerActions, Publication, Environment

-----------------------------------------------------------------------------
(* The inductive step, conjunct by conjunct.                               *)

LEMMA OutcomeStep ==
    ASSUME IInv, [Next]_vars
    PROVE  OutcomeIsStatus'
<1> USE DEF IInv, OutcomeIsStatus
<1>1. CASE QueueStep
  BY <1>1 DEF QueueStep, Discover, PassDone, MaterializeRefused, QueueHeld,
              SkipTask, TakeTask, MaterializeOk, At, Goto, Return
<1>2. ASSUME NEW t \in Tasks, WorkerActions(t) PROVE OutcomeIsStatus'
  <2>1. SUFFICES ASSUME pc' \in {"publish", "report"}
                 PROVE  /\ outcome' \in Reportable
                        /\ \A u \in Tasks : Head(u)' => status'[u] = outcome'
    BY <2>1
  <2>2. outcome' \in Reportable /\ status'[t] = outcome' /\ batch' = batch /\ Head(t)
    BY <1>2, <2>1, RunStep
  <2>3. \A u \in Tasks : Head(u)' => u = t
    BY <2>2, HeadIsUnique DEF Head, Queued
  <2> QED BY <2>2, <2>3
<1>3. ASSUME NEW t \in Tasks, Publication(t) PROVE OutcomeIsStatus'
  BY <1>3, PublicationStep
<1>4. CASE Environment
  BY <1>4, EnvironmentStep DEF Head, Queued
<1>5. CASE UNCHANGED vars
  BY <1>5 DEF vars, Head, Queued
<1> QED BY <1>1, <1>2, <1>3, <1>4, <1>5, StepKinds

LEMMA BatchStep ==
    ASSUME IInv, [Next]_vars
    PROVE  BatchIsOpen'
<1> USE DEF IInv, BatchIsOpen
<1>1. CASE Discover
  BY <1>1 DEF Discover, Goto, Queued, Answered, RunSteps
<1>2. CASE PassDone \/ \E t \in Tasks : MaterializeRefused(t) \/ QueueHeld(t)
  BY <1>2 DEF PassDone, MaterializeRefused, QueueHeld, MaterializeOk, Return,
              NoBatch, Queued, RunSteps
<1>3. ASSUME NEW t \in Tasks, SkipTask(t) PROVE BatchIsOpen'
  BY <1>3 DEF SkipTask, MaterializeOk, At, Queued, Answered, RunSteps, TypeOK
<1>4. ASSUME NEW t \in Tasks, TakeTask(t) PROVE BatchIsOpen'
  <2>1. Head(t) /\ batch' = batch /\ root'[t] = batch[t] /\ UNCHANGED <<inbox, results>>
    BY <1>4 DEF TakeTask, MaterializeOk, At, TypeOK
  <2>2. \A u \in Tasks : Head(u)' => u = t
    BY <2>1, HeadIsUnique DEF Head, Queued
  <2> QED BY <2>1, <2>2 DEF Queued, Answered
<1>5. ASSUME NEW t \in Tasks, WorkerActions(t) PROVE BatchIsOpen'
  BY <1>5, RunStep DEF Queued, Answered, Head
<1>6. ASSUME NEW t \in Tasks, Publication(t) PROVE BatchIsOpen'
  <2>1. pc' \notin RunSteps
    BY <1>6, PublicationStep DEF RunSteps
  <2>2. \A u \in Tasks : Queued(u)' => Queued(u) /\ results'[u] = results[u]
    BY <1>6, PublicationStep DEF Queued, AddResult, NoBatch, TypeOK
  <2> QED BY <1>6, <2>1, <2>2, PublicationStep DEF Answered
<1>7. CASE Environment
  <2>1. CASE UNCHANGED <<pc, batch, outcome>>
    <3>1. \A u \in Tasks : Head(u)' = Head(u) /\ Queued(u)' = Queued(u)
      BY <2>1 DEF Head, Queued
    <3>2. \A u \in Tasks : pc \in RunSteps /\ Head(u) => root[u] # "absent"
      BY NoBundleAssumption DEF Head, Queued, TypeOK, Content
    <3> QED BY <1>7, <2>1, <3>1, <3>2, EnvironmentStep DEF Answered, Queued
  <2>2. CASE pc' = "idle" /\ batch' = NoBatch
    BY <2>2 DEF Queued, NoBatch, RunSteps
  <2> QED BY <1>7, <2>1, <2>2, EnvironmentStep
<1>8. CASE UNCHANGED vars
  BY <1>8 DEF vars, Queued, Answered, Head
<1> QED BY <1>1, <1>2, <1>3, <1>4, <1>5, <1>6, <1>7, <1>8, StepKinds DEF QueueStep

LEMMA ChangeStep ==
    ASSUME IInv, [Next]_vars
    PROVE  OnlyMaterializedChange'
<1> USE DEF IInv, OnlyMaterializedChange, Materialized
<1>1. CASE Discover \/ PassDone \/ \E t \in Tasks : MaterializeRefused(t)
  BY <1>1 DEF Discover, PassDone, MaterializeRefused
<1>2. ASSUME NEW t \in Tasks, MaterializeOk(t),
             UNCHANGED <<inbox, status, rollingBack>>
      PROVE  OnlyMaterializedChange'
  <2>1. batch[t] \in Digests /\ inbox[t] # NoBundle
    BY <1>2 DEF MaterializeOk, At, Head, Queued, TypeOK, Content, BatchIsOpen
  <2> QED BY <1>2, <2>1 DEF MaterializeOk, TypeOK
<1>3. CASE \E t \in Tasks : QueueHeld(t) \/ SkipTask(t) \/ TakeTask(t)
  BY <1>2, <1>3 DEF QueueHeld, SkipTask, TakeTask
<1>4. ASSUME NEW t \in Tasks, WorkerActions(t) PROVE OnlyMaterializedChange'
  <2>1. Materialized(t)
    BY <1>4, RunStep DEF BatchIsOpen, Head, Queued, TypeOK, Content
  <2> QED BY <1>4, <2>1, RunStep DEF TypeOK
<1>5. ASSUME NEW t \in Tasks, Publication(t) PROVE OnlyMaterializedChange'
  BY <1>5, PublicationStep
<1>6. CASE Environment
  BY <1>6, EnvironmentStep, NoBundleAssumption
<1>7. CASE UNCHANGED vars
  BY <1>7 DEF vars
<1> QED BY <1>1, <1>3, <1>4, <1>5, <1>6, <1>7, StepKinds DEF QueueStep

LEMMA ResultStep ==
    ASSUME IInv, [Next]_vars
    PROVE  ResultsAreBacked'
<1> USE DEF IInv, ResultsAreBacked, Answered
<1>1. CASE Discover \/ PassDone \/ \E t \in Tasks : MaterializeRefused(t)
  BY <1>1 DEF Discover, PassDone, MaterializeRefused
<1>2. ASSUME NEW t \in Tasks, MaterializeOk(t), UNCHANGED <<results, status>>
      PROVE  ResultsAreBacked'
  BY <1>2 DEF MaterializeOk, At, Head, BatchIsOpen, TypeOK
<1>3. CASE \E t \in Tasks : QueueHeld(t) \/ SkipTask(t) \/ TakeTask(t)
  BY <1>2, <1>3 DEF QueueHeld, SkipTask, TakeTask
<1>4. ASSUME NEW t \in Tasks, WorkerActions(t) PROVE ResultsAreBacked'
  <2>1. ~Answered(t)
    BY <1>4, RunStep DEF Head, BatchIsOpen
  <2> QED BY <1>4, <2>1, RunStep DEF TypeOK
<1>5. ASSUME NEW t \in Tasks, Publication(t) PROVE ResultsAreBacked'
  <2>1. /\ outcome \in Reportable /\ status[t] \in {outcome, "rolled_back"}
        /\ root[t] = batch[t]
    BY <1>5, PublicationStep, StepNames DEF OutcomeIsStatus, BatchIsOpen
  <2>2. CASE UNCHANGED results
    BY <1>5, <2>2, PublicationStep
  <2>3. CASE AddResult(t)
    BY <1>5, <2>1, <2>3, PublicationStep DEF AddResult, TypeOK
  <2> QED BY <1>5, <2>2, <2>3, PublicationStep
<1>6. CASE Environment
  <2>1. \A u \in Tasks : Answered(u) => root[u] \in Digests
    BY DEF OnlyMaterializedChange, Materialized, TypeOK, Reportable, Final
  <2> QED BY <1>6, <2>1, EnvironmentStep, NoBundleAssumption
<1>7. CASE UNCHANGED vars
  BY <1>7 DEF vars
<1> QED BY <1>1, <1>3, <1>4, <1>5, <1>6, <1>7, StepKinds DEF QueueStep

LEMMA PassedStep ==
    ASSUME IInv, [Next]_vars
    PROVE  PassedIsSettled'
<1> USE DEF IInv, PassedIsSettled, Answered, Materialized
<1>1. CASE Discover
  BY <1>1 DEF Discover, Queued, OnlyMaterializedChange
<1>2. CASE PassDone \/ \E t \in Tasks : MaterializeRefused(t) \/ QueueHeld(t)
  BY <1>2 DEF PassDone, MaterializeRefused, QueueHeld, Return
<1>3. ASSUME NEW t \in Tasks, SkipTask(t) PROVE PassedIsSettled'
  <2>1. status[t] \in Reportable
    BY <1>3 DEF SkipTask, BlocksProjectQueue, SkipLocalTask, Executing, Reportable
  <2> QED BY <1>3, <2>1 DEF SkipTask, MaterializeOk, At, Queued, TypeOK
<1>4. ASSUME NEW t \in Tasks, TakeTask(t) PROVE PassedIsSettled'
  BY <1>4 DEF TakeTask, MaterializeOk, At, Head, Queued, TypeOK
<1>5. ASSUME NEW t \in Tasks, WorkerActions(t) PROVE PassedIsSettled'
  BY <1>5, RunStep DEF Head, Queued, TypeOK, RunSteps
<1>6. ASSUME NEW t \in Tasks, Publication(t) PROVE PassedIsSettled'
  <2>1. outcome \in Reportable /\ status[t] \in {outcome, "rolled_back"}
    BY <1>6, PublicationStep DEF OutcomeIsStatus
  <2>2. status[t] \in Reportable
    BY <2>1 DEF Reportable, Final
  <2>3. CASE pc' = "idle"
    BY <2>3
  <2>4. CASE pc' = "queue" /\ batch' = [batch EXCEPT ![t] = NoBundle] /\ AddResult(t)
    BY <1>6, <2>2, <2>4, PublicationStep DEF AddResult, Queued, TypeOK
  <2> QED BY <1>6, <2>3, <2>4, PublicationStep
<1>7. CASE Environment
  BY <1>7, EnvironmentStep, NoBundleAssumption
     DEF Queued, Reportable, Final
<1>8. CASE UNCHANGED vars
  BY <1>8 DEF vars, Queued
<1> QED BY <1>1, <1>2, <1>3, <1>4, <1>5, <1>6, <1>7, <1>8, StepKinds DEF QueueStep

-----------------------------------------------------------------------------
(* The theorems.                                                           *)

LEMMA InitInv == Init => IInv
<1> SUFFICES ASSUME Init PROVE IInv
  OBVIOUS
<1>1. TypeOK
  BY InitType
<1> QED BY <1>1, NoBundleAssumption
   DEF Init, IInv, OutcomeIsStatus, BatchIsOpen, OnlyMaterializedChange,
       ResultsAreBacked, PassedIsSettled, Queued, Answered, Materialized, NoBatch,
       NoResult, RunSteps

LEMMA NextInv == IInv /\ [Next]_vars => IInv'
BY TypeStep, OutcomeStep, BatchStep, ChangeStep, ResultStep, PassedStep DEF IInv

\* The inductive invariant holds in every reachable state.
THEOREM Invariance == Spec => []IInv
BY InitInv, NextInv, PTL DEF Spec

\* Every variable keeps its type.
THEOREM TypeCorrect == Spec => []TypeOK
<1>1. IInv => TypeOK
  BY DEF IInv
<1> QED BY <1>1, Invariance, PTL

\* A published result names the content that was executed, for any number of
\* crashes, replaced bundles and failed publications.
THEOREM ContentTheorem == Spec => []PublishedContentIsExecuted
<1>1. IInv => PublishedContentIsExecuted
  BY DEF IInv, ResultsAreBacked, PublishedContentIsExecuted
<1> QED BY <1>1, Invariance, PTL

\* The local status of an answered task is the published state, or rolled_back.
THEOREM StatusTheorem == Spec => []ResultMatchesStatus
<1>1. IInv => ResultMatchesStatus
  BY DEF IInv, ResultsAreBacked, ResultMatchesStatus
<1> QED BY <1>1, Invariance, PTL

\* No task is prompted once its result is on the branch.
THEOREM NoRedispatchTheorem == Spec => []NoRedispatch
<1>1. IInv => NoRedispatch
  BY DEF IInv, BatchIsOpen, NoRedispatch, AtPrompt, At, Head
<1> QED BY <1>1, Invariance, PTL

\* A task is prompted only when every earlier materialised task is settled.
THEOREM OrderTheorem == Spec => []DispatchInOrder
<1>1. ASSUME IInv, NEW t \in Tasks, NEW u \in Tasks, AtPrompt(t), Earlier(u, t),
             Materialized(u)
      PROVE  Answered(u) \/ status[u] \in Reportable
  BY <1>1, RankAssumption DEF AtPrompt, At, Head, Earlier, IInv, PassedIsSettled
<1>2. IInv => DispatchInOrder
  BY <1>1 DEF DispatchInOrder
<1> QED BY <1>2, Invariance, PTL

\* The worker is never inside the run of a task while an earlier one is being
\* prepared or executed, whatever restarts came between.
THEOREM HoldTheorem == Spec => []EarlierTaskHoldsQueue
<1>1. ASSUME IInv, NEW t \in Tasks, NEW u \in Tasks, Earlier(t, u), Unfinished(t),
             Head(u), pc \in RunSteps
      PROVE  FALSE
  <2>1. ~Queued(t)
    BY <1>1 DEF Head
  <2>2. Materialized(t) /\ status[t] \notin Reportable
    BY <1>1, StateNames DEF IInv, OnlyMaterializedChange, Unfinished, Executing
  <2>3. Answered(t)
    BY <1>1, <2>1, <2>2 DEF IInv, PassedIsSettled, RunSteps
  <2> QED BY <1>1, <2>2, <2>3 DEF IInv, ResultsAreBacked, Reportable, Final
<1>2. IInv => EarlierTaskHoldsQueue
  BY <1>1 DEF EarlierTaskHoldsQueue
<1> QED BY <1>2, Invariance, PTL

-----------------------------------------------------------------------------
(* The local policy.                                                       *)

\* A run keeps mode and decisions, and comes under way through the mode switch.
LEMMA PolicyRunStep ==
    ASSUME NEW t \in Tasks, WorkerActions(t)
    PROVE  /\ Head(t) /\ daemon # "down"
           /\ UNCHANGED <<approval, consented, daemon, mode, batch>>
           /\ pc' \in UnderWay => pc \in UnderWay \/ PolicyState(t) = "none"
<1> USE DEF WorkerActions, At, Goto, RunError, Conclude, UnderWay, CommandsRun
<1>1. CASE RefusePack(t) \/ RefuseByPolicy(t) \/ ResumeAnswer(t) \/ BeginPreparation(t)
  BY <1>1 DEF RefusePack, RefuseByPolicy, ResumeAnswer, BeginPreparation
<1>2. CASE PrepareWorktree(t) \/ PrepareFails(t) \/ ApplyPatch(t) \/ ReturnPatch(t)
           \/ ResetForRepair(t) \/ ResetFails(t)
  BY <1>2 DEF PrepareWorktree, PrepareFails, ApplyPatch, ReturnPatch, ResetForRepair,
              ResetFails
<1>5. CASE ScopeAgrees(t) \/ NothingToCompare(t) \/ ScopeDiffers(t) \/ PayloadFails(t)
  BY <1>5 DEF ScopeAgrees, NothingToCompare, ScopeDiffers, PayloadFails, AtPayload
<1>3. CASE WriteHandoff(t) \/ SessionReady(t) \/ SessionUnavailable(t)
           \/ PromptDelivered(t) \/ PromptFails(t) \/ MarkRunning(t)
  BY <1>3 DEF WriteHandoff, SessionReady, SessionUnavailable, PromptDelivered,
              PromptFails, MarkRunning
<1>4. CASE AnswerArrives(t) \/ WaitEnds(t) \/ TimeOut(t) \/ AcceptAnswer(t)
           \/ DiscardAnswer(t) \/ RecordFailure(t)
  BY <1>4 DEF AnswerArrives, WaitEnds, TimeOut, AcceptAnswer, DiscardAnswer,
              RecordFailure
<1> QED BY <1>1, <1>2, <1>3, <1>4, <1>5

LEMMA PolicyStep ==
    ASSUME TypeOK, PolicyInv, [Next]_vars
    PROVE  PolicyInv'
<1> USE DEF PolicyInv, Permitted
<1>1. CASE QueueStep
  BY <1>1 DEF QueueStep, Discover, PassDone, MaterializeRefused, QueueHeld, SkipTask,
              TakeTask, MaterializeOk, At, Goto, Return, CommandsRun, UnderWay
<1>2. ASSUME NEW t \in Tasks, WorkerActions(t) PROVE PolicyInv'
  <2>1. ASSUME pc' \in UnderWay PROVE Permitted(t)
    BY <1>2, <2>1, PolicyRunStep, ModesAssumption DEF PolicyState, TypeOK
  <2>2. \A u \in Tasks : Head(u)' => u = t
    BY <1>2, PolicyRunStep, HeadIsUnique DEF Head, Queued
  <2> QED BY <1>2, <2>1, <2>2, PolicyRunStep
<1>3. ASSUME NEW t \in Tasks, Publication(t) PROVE PolicyInv'
  BY <1>3 DEF Publication, Publish, PublishFailure, PublishFails, At, Goto, Return,
              UnderWay
<1>4. CASE Start \/ Crash \/ Exit
  BY <1>4 DEF Start, Crash, Exit, Return, UnderWay
<1>5. CASE Stop \/ Doctor \/ \E t \in Tasks : Rollback(t) \/ Agent(t) \/ Submit(t) \/ Replace(t)
  BY <1>5 DEF Stop, Doctor, Rollback, RollbackWorktree, RollbackBranch, RollbackStatus, Agent,
              AgentCommits, AgentWritesResult, AgentResponds, Submit, Replace,
              Head, Queued
<1>6. ASSUME NEW t \in Tasks, Approve(t) \/ Reject(t) PROVE PolicyInv'
  BY <1>6 DEF Approve, Reject, Decide, Head, Queued, TypeOK
<1>7. CASE UNCHANGED vars
  BY <1>7 DEF vars, Head, Queued
<1> QED BY <1>1, <1>2, <1>3, <1>4, <1>5, <1>6, <1>7, StepKinds DEF Environment

\* No task is prompted in disabled mode, and in manual mode only one the owner
\* approved, however the mode changed between the gateway's starts.
THEOREM PolicyTheorem == Spec => []LocalPolicyGovernsDispatch
<1>1. Init => PolicyInv
  BY DEF Init, PolicyInv, UnderWay
<1>2. TypeOK /\ PolicyInv /\ [Next]_vars => PolicyInv'
  BY PolicyStep
<1>3. PolicyInv => LocalPolicyGovernsDispatch
  BY DEF PolicyInv, LocalPolicyGovernsDispatch, AtPrompt, At, UnderWay, Permitted
<1> QED BY <1>1, <1>2, <1>3, TypeCorrect, PTL DEF Spec

-----------------------------------------------------------------------------
(* The answer in hand.                                                     *)

\* Only the run's first steps, the wait and the judgement find a task marked as
\* running: they keep the outputs, and either leave the mark or conclude.
LEMMA AnswerRunStep ==
    ASSUME TypeOK, NotYetRunning, NEW t \in Tasks, WorkerActions(t),
           status[t] = "agent_running", Complete(t)
    PROVE  /\ UNCHANGED <<verdict, response>>
           /\ status'[t] \in Reportable \cup {"agent_running"}
<1> USE DEF At, Goto, RunError, Conclude, WriteStatus, TypeOK, Reportable, Final
<1>1. Head(t) /\ pc \notin UnderWay \cup {"mark"}
  BY RunStep DEF NotYetRunning
<1>2. ~BeginPreparation(t)
  BY DEF BeginPreparation, AnswerWaits
<1>3. CASE RefusePack(t) \/ ResumeAnswer(t) \/ AnswerArrives(t) \/ WaitEnds(t)
           \/ DiscardAnswer(t)
  BY <1>3 DEF RefusePack, ResumeAnswer, AnswerArrives, WaitEnds, DiscardAnswer
<1>4. CASE RefuseByPolicy(t)
  <2>1. PolicyState(t) \in {"execution_disabled", "rejected", "waiting_for_approval"}
    BY <1>4 DEF RefuseByPolicy, PolicyState
  <2> QED BY <1>4, <2>1 DEF RefuseByPolicy
<1>5. CASE TimeOut(t) \/ AcceptAnswer(t) \/ RecordFailure(t)
  BY <1>5 DEF TimeOut, AcceptAnswer, RecordFailure, Verified, Verdicts
<1>6. CASE PrepareWorktree(t) \/ PrepareFails(t) \/ ApplyPatch(t) \/ ReturnPatch(t)
           \/ ResetForRepair(t) \/ ResetFails(t)
  BY <1>1, <1>6 DEF PrepareWorktree, PrepareFails, ApplyPatch, ReturnPatch,
                    ResetForRepair, ResetFails, UnderWay
<1>8. CASE ScopeAgrees(t) \/ NothingToCompare(t) \/ ScopeDiffers(t) \/ PayloadFails(t)
  BY <1>1, <1>8 DEF ScopeAgrees, NothingToCompare, ScopeDiffers, PayloadFails,
                    AtPayload, UnderWay
<1>7. CASE WriteHandoff(t) \/ SessionReady(t) \/ SessionUnavailable(t)
           \/ PromptDelivered(t) \/ PromptFails(t) \/ MarkRunning(t)
  BY <1>1, <1>7 DEF WriteHandoff, SessionReady, SessionUnavailable, PromptDelivered,
                    PromptFails, MarkRunning, UnderWay
<1> QED BY <1>2, <1>3, <1>4, <1>5, <1>6, <1>7, <1>8 DEF WorkerActions

\* A run writes the outputs of no other task.
LEMMA OutputsStep ==
    ASSUME TypeOK, NEW t \in Tasks, WorkerActions(t), NEW u \in Tasks \ {t}
    PROVE  verdict'[u] = verdict[u] /\ (u \in response' <=> u \in response)
<1>1. CASE WriteHandoff(t)
  BY <1>1 DEF WriteHandoff, TypeOK
<1>2. CASE ~WriteHandoff(t)
  BY <1>2 DEF WorkerActions, RefusePack, RefuseByPolicy, ResumeAnswer, BeginPreparation,
              PrepareWorktree, PrepareFails, ApplyPatch, ReturnPatch, ResetForRepair,
              ResetFails, ScopeAgrees, NothingToCompare, ScopeDiffers, PayloadFails,
              SessionReady, SessionUnavailable, PromptDelivered, PromptFails,
              MarkRunning, AnswerArrives, WaitEnds, TimeOut, AcceptAnswer,
              DiscardAnswer, RecordFailure
<1> QED BY <1>1, <1>2

LEMMA AnswerStep ==
    ASSUME TypeOK, NotYetRunning, [Next]_vars, NEW u \in Tasks,
           status[u] = "agent_running", Complete(u)
    PROVE  Complete(u)' /\ status'[u] \in Reportable \cup {"agent_running"}
<1> USE DEF Complete
<1>1. CASE QueueStep
  BY <1>1 DEF QueueStep, Discover, PassDone, MaterializeRefused, QueueHeld, SkipTask,
              TakeTask
<1>2. ASSUME NEW t \in Tasks, WorkerActions(t)
      PROVE  Complete(u)' /\ status'[u] \in Reportable \cup {"agent_running"}
  <2>1. CASE u = t
    BY <1>2, <2>1, AnswerRunStep
  <2>2. CASE u # t
    BY <1>2, <2>2, RunStep, OutputsStep DEF TypeOK
  <2> QED BY <2>1, <2>2
<1>3. ASSUME NEW t \in Tasks, Publication(t)
      PROVE  UNCHANGED <<status, verdict, response>>
  BY <1>3 DEF Publication, Publish, PublishFailure, PublishFails
<1>4. CASE Environment
  <2>1. status'[u] \in {status[u], "rolled_back"}
    BY <1>4, EnvironmentStep
  <2>2. ASSUME NEW t \in Tasks, Agent(t) PROVE Complete(u)'
    BY <2>2 DEF Agent, AgentCommits, AgentWritesResult, AgentResponds, TypeOK, Verdicts
  <2>3. ASSUME NEW t \in Tasks, Approve(t) \/ Reject(t) \/ Rollback(t) \/ Submit(t)
                                \/ Replace(t)
        PROVE  Complete(u)'
    BY <2>3 DEF Approve, Reject, Decide, Rollback, RollbackWorktree, RollbackBranch,
                RollbackStatus, Submit, Replace
  <2>4. ASSUME Start \/ Crash \/ Stop \/ Exit \/ Doctor PROVE Complete(u)'
    BY <2>4 DEF Start, Crash, Stop, Exit, Doctor
  <2> QED BY <1>4, <2>1, <2>2, <2>3, <2>4 DEF Environment, Reportable, Final
<1>5. CASE UNCHANGED vars
  BY <1>5 DEF vars
<1> QED BY <1>1, <1>2, <1>3, <1>4, <1>5, StepKinds

\* A run comes to the steps before the mark through BeginPreparation.
LEMMA MarkStep ==
    ASSUME TypeOK, NotYetRunning, NEW t \in Tasks, WorkerActions(t),
           pc' \in UnderWay \cup {"mark"}
    PROVE  status'[t] # "agent_running"
<1> USE DEF At, Goto, RunError, Conclude, WriteStatus, TypeOK, UnderWay, NotYetRunning
<1>1. Head(t)
  BY RunStep
<1>2. CASE RefusePack(t) \/ RefuseByPolicy(t) \/ ResumeAnswer(t) \/ BeginPreparation(t)
  BY <1>2 DEF RefusePack, RefuseByPolicy, ResumeAnswer, BeginPreparation
<1>3. CASE PrepareWorktree(t) \/ PrepareFails(t) \/ ApplyPatch(t) \/ ReturnPatch(t)
           \/ ResetForRepair(t) \/ ResetFails(t)
  BY <1>1, <1>3 DEF PrepareWorktree, PrepareFails, ApplyPatch, ReturnPatch,
                    ResetForRepair, ResetFails
<1>6. CASE ScopeAgrees(t) \/ NothingToCompare(t) \/ ScopeDiffers(t) \/ PayloadFails(t)
  BY <1>1, <1>6 DEF ScopeAgrees, NothingToCompare, ScopeDiffers, PayloadFails, AtPayload
<1>4. CASE WriteHandoff(t) \/ SessionReady(t) \/ SessionUnavailable(t)
           \/ PromptDelivered(t) \/ PromptFails(t) \/ MarkRunning(t)
  BY <1>1, <1>4 DEF WriteHandoff, SessionReady, SessionUnavailable, PromptDelivered,
                    PromptFails, MarkRunning
<1>5. CASE AnswerArrives(t) \/ WaitEnds(t) \/ TimeOut(t) \/ AcceptAnswer(t)
           \/ DiscardAnswer(t) \/ RecordFailure(t)
  BY <1>5 DEF AnswerArrives, WaitEnds, TimeOut, AcceptAnswer, DiscardAnswer,
              RecordFailure
<1> QED BY <1>2, <1>3, <1>4, <1>5, <1>6 DEF WorkerActions

LEMMA NotYetRunningStep ==
    ASSUME TypeOK, NotYetRunning, [Next]_vars
    PROVE  NotYetRunning'
<1> USE DEF NotYetRunning, UnderWay
<1>1. CASE QueueStep
  BY <1>1 DEF QueueStep, Discover, PassDone, MaterializeRefused, QueueHeld, SkipTask,
              TakeTask, MaterializeOk, At, Goto, Return
<1>2. ASSUME NEW t \in Tasks, WorkerActions(t) PROVE NotYetRunning'
  <2>1. \A u \in Tasks : Head(u)' => u = t
    BY <1>2, RunStep, HeadIsUnique DEF Head, Queued
  <2> QED BY <1>2, <2>1, MarkStep
<1>3. ASSUME NEW t \in Tasks, Publication(t) PROVE NotYetRunning'
  BY <1>3, PublicationStep
<1>4. CASE Environment
  BY <1>4, EnvironmentStep DEF Head, Queued
<1>5. CASE UNCHANGED vars
  BY <1>5 DEF vars, Head, Queued
<1> QED BY <1>1, <1>2, <1>3, <1>4, <1>5, StepKinds

\* An answer that has been delivered is neither removed nor asked for again,
\* whatever the configured modes and whenever the gateway was restarted.
THEOREM AnswerTheorem == Spec => AnswerInHandSurvives
<1>1. Init => NotYetRunning
  BY DEF Init, NotYetRunning, UnderWay
<1>2. TypeOK /\ NotYetRunning /\ [Next]_vars => NotYetRunning'
  BY NotYetRunningStep
<1>3. TypeOK /\ NotYetRunning /\ [Next]_vars =>
        [\A t \in Tasks :
            status[t] = "agent_running" /\ Complete(t) =>
                Complete(t)' /\ status'[t] \in Reportable \cup {"agent_running"}]_vars
  BY AnswerStep
<1> QED BY <1>1, <1>2, <1>3, TypeCorrect, PTL DEF Spec, AnswerInHandSurvives

-----------------------------------------------------------------------------
(* Refinement.                                                             *)

\* The detailed worker implements the abstract result board: one result per
\* task, added in one step, for a submitted task, and never changed.
THEOREM BoardRefinement == Spec => ImplementsBoard
<1> USE DEF GatewayBoard!Submit, GatewayBoard!Answer, GatewayBoard!Open
<1>1. Init => GatewayBoard!BoardInit
  BY DEF Init, GatewayBoard!BoardInit, NoBatch
<1>2. ASSUME IInv, [Next]_vars
      PROVE  [GatewayBoard!BoardNext]_<<inbox, results>>
  <2> USE DEF GatewayBoard!BoardNext
  <2>1. CASE QueueStep
    BY <2>1 DEF QueueStep, Discover, PassDone, MaterializeRefused, QueueHeld,
                SkipTask, TakeTask
  <2>2. ASSUME NEW t \in Tasks, WorkerActions(t)
        PROVE  UNCHANGED <<inbox, results>>
    BY <1>2, <2>2, RunStep DEF IInv
  <2>3. ASSUME NEW t \in Tasks, Publication(t)
        PROVE  [GatewayBoard!BoardNext]_<<inbox, results>>
    <3>1. UNCHANGED inbox /\ (UNCHANGED results \/ AddResult(t))
      BY <1>2, <2>3, PublicationStep DEF IInv
    <3>2. CASE AddResult(t)
      <4>1. outcome \in Reportable /\ batch[t] \in Digests
        BY <1>2, <2>3, PublicationStep
           DEF IInv, OutcomeIsStatus, TypeOK, Head, Queued, Content
      <4>2. GatewayBoard!Open(t)
        BY <1>2, <2>3, PublicationStep
           DEF IInv, BatchIsOpen, Head, Answered
      <4> QED BY <3>1, <3>2, <4>1, <4>2 DEF AddResult
    <3> QED BY <3>1, <3>2
  <2>4. CASE Start \/ Crash \/ Stop \/ Exit \/ Doctor
    BY <2>4 DEF Start, Crash, Stop, Exit, Doctor
  <2>5. ASSUME NEW t \in Tasks, Submit(t) \/ Replace(t)
        PROVE  GatewayBoard!BoardNext
    BY <2>5 DEF Submit, Replace
  <2>6. ASSUME NEW t \in Tasks, Approve(t) \/ Reject(t) \/ Rollback(t) \/ Agent(t)
        PROVE  UNCHANGED <<inbox, results>>
    BY <2>6 DEF Approve, Reject, Decide, Rollback, RollbackWorktree, RollbackBranch,
                RollbackStatus, Agent, AgentCommits, AgentWritesResult, AgentResponds
  <2>7. CASE UNCHANGED vars
    BY <2>7 DEF vars
  <2> QED BY <1>2, <2>1, <2>2, <2>3, <2>4, <2>5, <2>6, <2>7, StepKinds DEF Environment
<1> QED
  BY <1>1, <1>2, Invariance, PTL DEF ImplementsBoard, GatewayBoard!Board, Spec
=============================================================================
