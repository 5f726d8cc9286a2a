-------------------------- MODULE ProjectBusProofs --------------------------
(* Proofs of the safety properties of ProjectBus for every set of tasks,   *)
(* every number of GPT's pushes and every choice of disturbances.          *)
EXTENDS ProjectBus, TLAPS

-----------------------------------------------------------------------------
(* Commits as sequences of changes.                                        *)

LEMMA KindsDiffer ==
    ASSUME NEW t \in Tasks
    PROVE  /\ \A u \in Tasks : ResultOf(t) # Submission(u)
           /\ \A u \in Tasks : ResultOf(t) = ResultOf(u) => t = u
           /\ \A n \in 1..MaxNotes : ResultOf(t) # Note(n)
           /\ ResultOf(t) # Bootstrap /\ ResultOf(t) # BadCheckpoint
           /\ \A u \in Tasks : ResultFile(t) # ResultTemp(u)
           /\ \A u \in Tasks : ResultFile(t) = ResultFile(u) => t = u
           /\ ResultFile(t) # CheckpointTemp
  BY DEF ResultOf, Submission, Note, Bootstrap, BadCheckpoint, ResultFile, ResultTemp, CheckpointTemp

LEMMA AppendKeeps ==
    ASSUME NEW h \in Seq(Changes), NEW c \in Changes
    PROVE  /\ Append(h, c) \in Seq(Changes)
           /\ IsPrefix(h, Append(h, c))
           /\ \A d : Has(Append(h, c), d) <=> (Has(h, d) \/ d = c)
  BY DEF IsPrefix, Has

LEMMA EmptyHasNothing == \A c : ~Has(<<>>, c)
  <1>1. Len(<<>>) = 0
    OBVIOUS
  <1> QED
    BY <1>1 DEF Has

LEMMA PrefixKeeps ==
    ASSUME NEW g \in Seq(Changes), NEW h \in Seq(Changes), IsPrefix(g, h)
    PROVE  \A d : Has(g, d) => Has(h, d)
  BY DEF IsPrefix, Has

LEMMA PrefixExtends ==
    \A g, h \in Seq(Changes) : \A c \in Changes :
        IsPrefix(g, h) => IsPrefix(g, Append(h, c))
  BY DEF IsPrefix

\* What lies between a commit and its child is one of them.
LEMMA PrefixBetween ==
    ASSUME NEW g \in Seq(Changes), NEW h \in Seq(Changes), NEW c \in Changes,
           IsPrefix(g, h), IsPrefix(h, Append(g, c)), ~Has(h, c)
    PROVE  h = g
  <1>1. Len(h) = Len(g) \/ Len(h) = Len(g) + 1
    BY DEF IsPrefix
  <1>2. CASE Len(h) = Len(g)
    BY <1>2 DEF IsPrefix
  <1>3. CASE Len(h) = Len(g) + 1
    <2>1. h = Append(g, c)
      BY <1>3 DEF IsPrefix
    <2> QED
      BY <2>1, AppendKeeps
  <1> QED
    BY <1>1, <1>2, <1>3

LEMMA PrefixOfEmpty ==
    ASSUME NEW g \in Seq(Changes), IsPrefix(g, <<>>)
    PROVE  g = <<>>
  <1>1. Len(<<>>) = 0 /\ Len(g) \in Nat
    OBVIOUS
  <1>2. Len(g) = 0
    BY <1>1 DEF IsPrefix
  <1> QED
    BY <1>2

LEMMA EmptyIsPrefix == \A h \in Seq(Changes) : IsPrefix(<<>>, h)
  BY DEF IsPrefix

LEMMA PrefixReflexive == \A h \in Seq(Changes) : IsPrefix(h, h)
  BY DEF IsPrefix

LEMMA ValuesTyped ==
    /\ Bootstrap \in Changes /\ BadCheckpoint \in Changes /\ CheckpointTemp \in Strays
    /\ \A t \in Tasks : /\ ResultOf(t) \in Changes /\ Submission(t) \in Changes
                         /\ ResultFile(t) \in Strays /\ ResultTemp(t) \in Strays
    /\ \A n \in 1..MaxNotes : Note(n) \in Changes
    /\ <<>> \in Seq(Changes) /\ <<Bootstrap>> \in Seq(Changes)
    /\ <<Bootstrap>> = Append(<<>>, Bootstrap)
  <1>1. Bootstrap \in Changes
    BY DEF Changes
  <1>2. <<>> \in Seq(Changes) /\ <<Bootstrap>> \in Seq(Changes)
    BY <1>1
  <1>3. <<Bootstrap>> = Append(<<>>, Bootstrap)
    OBVIOUS
  <1> QED
    BY <1>1, <1>2, <1>3 DEF Changes, Strays

-----------------------------------------------------------------------------
(* Types, and the task that is being published.                            *)

Typed == TypeOK /\ TaskIsConcluded

LEMMA TypeInit == Init => Typed
  <1> SUFFICES ASSUME Init PROVE Typed
    OBVIOUS
  <1>1. /\ attempt \in 0..Attempts /\ disturbed \in 0..MaxDisturbances
    BY BoundsAssumption DEF Init, Attempts
  <1>2. TaskIsConcluded
    BY DEF Init, TaskIsConcluded, PublishSteps
  <1> QED
    BY <1>1, <1>2, ValuesTyped DEF Init, Typed, TypeOK, Steps

LEMMA NoAttempt == 0 \in 0..Attempts
  BY DEF Attempts

LEMMA DisturbTyped ==
    ASSUME NEW kind, disturbed \in 0..MaxDisturbances, Disturb(kind)
    PROVE  disturbed' \in 0..MaxDisturbances
  BY BoundsAssumption DEF Disturb

\* After a failed attempt the next one begins, or the publication is over.
LEMMA RetryKinds ==
    ASSUME attempt \in 0..Attempts, Retry
    PROVE  /\ attempt' \in 0..Attempts
           /\ UNCHANGED claimed
           /\ \/ pc' = "fetch" /\ task' = task
              \/ pc' = "idle" /\ task' = NoTask
  BY DEF Retry, Attempts, Goto

\* The steps of Ensure are outside every publication; only the push of the
\* bootstrap commit touches origin.
EnsureSteps == EnsureFetch \/ EnsureFails \/ PointBranch \/ AddWorktree \/ FirstPushInterrupted

LEMMA EnsureStep ==
    ASSUME EnsureSteps
    PROVE  /\ pc \notin PublishSteps
           /\ pc' \in {"ensure", "point", "add worktree", "initialize", "idle"}
           /\ UNCHANGED taskVars
           /\ \/ remote' = remote /\ tracking' \in {tracking, remote}
              \/ /\ pc = "first push" /\ remote = <<>> /\ remote' = head
                 /\ tracking' = tracking
           /\ stray' \in {stray, {}}
  <1> USE DEF EnsureSteps, At, Goto, PublishSteps, taskVars
  <1>1. CASE EnsureFetch
    BY <1>1 DEF EnsureFetch, Fetch
  <1>2. CASE EnsureFails
    BY <1>2 DEF EnsureFails, Fails, gitVars
  <1>3. CASE PointBranch
    BY <1>3 DEF PointBranch
  <1>4. CASE AddWorktree
    BY <1>4 DEF AddWorktree, WorktreeOf
  <1>5. CASE FirstPushInterrupted
    BY <1>5 DEF FirstPushInterrupted, Fails, gitVars
  <1> QED
    BY <1>1, <1>2, <1>3, <1>4, <1>5

LEMMA EnsureTyped == Typed /\ EnsureSteps => Typed'
  <1> SUFFICES ASSUME Typed, EnsureSteps PROVE Typed'
    OBVIOUS
  <1>1. TaskIsConcluded'
    BY EnsureStep DEF Typed, TaskIsConcluded, PublishSteps, taskVars
  <1>2. UNCHANGED taskVars /\ pc' \in Steps
    BY EnsureStep DEF Steps
  <1> USE DEF TypeOK, Typed, taskVars
  <1>3. CASE EnsureFetch
    BY <1>1, <1>2, <1>3 DEF EnsureFetch, Fetch
  <1>4. CASE EnsureFails
    BY <1>1, <1>2, <1>4, DisturbTyped DEF EnsureFails, Fails, gitVars
  <1>5. CASE PointBranch
    BY <1>1, <1>2, <1>5 DEF PointBranch
  <1>6. CASE AddWorktree
    <2>1. exists' = TRUE /\ UNCHANGED <<remote, tracking, head, process, taskVars, disturbed>>
      BY <1>6 DEF AddWorktree, WorktreeOf
    <2>2. \/ UNCHANGED <<tree, stray, modified, staged>>
          \/ tree' = head /\ stray' = {} /\ modified' = FALSE /\ staged' = {}
      BY <1>6 DEF AddWorktree, WorktreeOf
    <2> QED
      BY <1>1, <1>2, <2>1, <2>2
  <1>7. CASE FirstPushInterrupted
    BY <1>1, <1>2, <1>7, DisturbTyped DEF FirstPushInterrupted, Fails, gitVars
  <1> QED
    BY <1>3, <1>4, <1>5, <1>6, <1>7 DEF EnsureSteps

LEMMA TypeStep == Typed /\ [Next]_vars => Typed'
  <1> SUFFICES ASSUME Typed, [Next]_vars PROVE Typed'
    OBVIOUS
  <1> USE BoundsAssumption, ValuesTyped
      DEF Typed, TypeOK, TaskIsConcluded, At, Goto, Attempts, Steps, PublishSteps
  <1>1. CASE EnsureSteps
    BY <1>1, EnsureTyped
  <1>2. CASE Initialize
    BY <1>2 DEF Initialize, gitVars, taskVars
  <1>3. CASE FirstPush
    BY <1>3 DEF FirstPush, gitVars, taskVars
  <1>4. CASE SyncFetch
    BY <1>4 DEF SyncFetch, Fetch, gitVars, taskVars
  <1>5. CASE SyncRefused
    BY <1>5 DEF SyncRefused, gitVars, taskVars
  <1>6. CASE SyncReset
    BY <1>6 DEF SyncReset, ResetHard, gitVars, taskVars
  <1>7. CASE PassDone
    BY <1>7 DEF PassDone, gitVars, taskVars
  <1>8. CASE PublishFetch
    BY <1>8 DEF PublishFetch, Fetch, gitVars, taskVars
  <1>9. CASE PublishReset
    BY <1>9 DEF PublishReset, ResetHard, gitVars, taskVars
  <1>10. CASE ResultPresent
    BY <1>10 DEF ResultPresent, Succeed, gitVars, taskVars
  <1>11. CASE ResultAbsent
    BY <1>11 DEF ResultAbsent, gitVars, taskVars
  <1>12. CASE WriteResultTemp
    BY <1>12 DEF WriteResultTemp, WriteStep, gitVars, taskVars
  <1>13. CASE WriteResult
    BY <1>13 DEF WriteResult, WriteStep, gitVars, taskVars
  <1>14. CASE WriteCheckpointTemp
    BY <1>14 DEF WriteCheckpointTemp, WriteStep, gitVars, taskVars
  <1>15. CASE WriteCheckpoint
    BY <1>15 DEF WriteCheckpoint, WriteStep, gitVars, taskVars
  <1>16. CASE Add
    BY <1>16 DEF Add, WriteStep, gitVars, taskVars
  <1>17. CASE Commit
    BY <1>17, AppendKeeps DEF Commit, gitVars, taskVars
  <1>18. CASE Push
    BY <1>18 DEF Push, Succeed, gitVars, taskVars
  <1>19. CASE PushRejected
    BY <1>19, RetryKinds DEF PushRejected, gitVars, taskVars
  <1>20. CASE PushInterrupted
    BY <1>20, RetryKinds, DisturbTyped DEF PushInterrupted, gitVars, taskVars
  <1>21. CASE FetchFails
    BY <1>21, RetryKinds, DisturbTyped DEF FetchFails, gitVars, taskVars
  <1>22. CASE Crash
    <2>1. TaskIsConcluded'
      BY <1>22 DEF Crash
    <2> QED
      BY <1>22, <2>1, DisturbTyped, NoAttempt DEF Crash, gitVars
  <1>23. CASE Start
    BY <1>23 DEF Start, gitVars, taskVars
  <1>24. CASE DoctorEnsure
    <2>1. /\ UNCHANGED <<remote, process, pc, taskVars>>
          /\ disturbed' \in 0..MaxDisturbances
          /\ head' = remote /\ tracking' = remote /\ exists' = TRUE
      BY <1>24, DisturbTyped DEF DoctorEnsure, WorktreeOf, Fetch
    <2>2. \/ UNCHANGED <<tree, stray, modified, staged>>
          \/ tree' = remote /\ stray' = {} /\ modified' = FALSE /\ staged' = {}
      BY <1>24 DEF DoctorEnsure, WorktreeOf
    <2>3. TaskIsConcluded'
      BY <2>1 DEF taskVars
    <2> QED
      BY <2>1, <2>2, <2>3 DEF taskVars
  <1>25. ASSUME NEW t \in Tasks, Conclude(t) PROVE Typed'
    BY <1>25 DEF Conclude, gitVars
  <1>26. ASSUME NEW c \in Changes, GptPush(c), disturbed' \in 0..MaxDisturbances
         PROVE  Typed'
    BY <1>26, AppendKeeps DEF GptPush, gitVars, taskVars
  <1>27. CASE Gpt
    BY <1>26, <1>27, DisturbTyped DEF Gpt
  <1>29. CASE CheckpointRefused
    BY <1>29, RetryKinds DEF CheckpointRefused, gitVars, taskVars
  <1>28. CASE UNCHANGED vars
    BY <1>28 DEF vars, gitVars, taskVars
  <1> QED
    BY <1>1, <1>2, <1>3, <1>4, <1>5, <1>6, <1>7, <1>8, <1>9, <1>10, <1>11, <1>12, <1>13, <1>14, <1>15, <1>16, <1>17, <1>18, <1>19, <1>20, <1>21, <1>22, <1>23, <1>24, <1>25, <1>26, <1>27, <1>28, <1>29 DEF Next, Worker, EnsureSteps

-----------------------------------------------------------------------------
(* What a step does to the branch at origin and to the fetched commit.     *)

LEMMA RefStep ==
    ASSUME Next
    PROVE  \/ remote' = remote /\ tracking' \in {tracking, remote}
           \/ pc = "first push" /\ remote = <<>> /\ remote' = head
              /\ tracking' \in {tracking, head}
           \/ pc = "push" /\ PushAccepted /\ remote' = head /\ tracking' \in {tracking, head}
           \/ Gpt
  <1> USE DEF gitVars, Fetch
  <1>1. CASE EnsureSteps
    BY <1>1, EnsureStep
  <1>9. CASE DoctorEnsure
    BY <1>9 DEF DoctorEnsure
  <1>2. CASE Initialize \/ FirstPush
    BY <1>2 DEF Initialize, FirstPush, At
  <1>3. CASE SyncFetch \/ SyncRefused \/ SyncReset \/ PassDone
    BY <1>3 DEF SyncFetch, SyncRefused, SyncReset, PassDone
  <1>4. ASSUME NEW t \in Tasks, Conclude(t) PROVE remote' = remote /\ tracking' = tracking
    BY <1>4 DEF Conclude
  <1>5. CASE PublishFetch \/ PublishReset \/ ResultPresent \/ ResultAbsent
    BY <1>5 DEF PublishFetch, PublishReset, ResultPresent, ResultAbsent
  <1>6. CASE \/ WriteResultTemp \/ WriteResult \/ WriteCheckpointTemp
             \/ WriteCheckpoint \/ Add \/ Commit
    BY <1>6 DEF WriteResultTemp, WriteResult, WriteCheckpointTemp, WriteCheckpoint,
                Add, WriteStep, Commit
  <1>7. CASE Push \/ PushRejected \/ PushInterrupted \/ FetchFails \/ CheckpointRefused
    BY <1>7 DEF Push, PushRejected, PushInterrupted, FetchFails, CheckpointRefused, At
  <1>8. CASE Crash \/ Start
    BY <1>8 DEF Crash, Start
  <1> QED
    BY <1>1, <1>2, <1>3, <1>4, <1>5, <1>6, <1>7, <1>8, <1>9 DEF Next, Worker, EnsureSteps

LEMMA GptStep ==
    Gpt => \E c \in Changes :
               /\ remote' = Append(remote, c) /\ ~Has(remote, c)
               /\ \A t \in Tasks : c # ResultOf(t)
               /\ tracking' = tracking /\ head' = head /\ tree' = tree
               /\ stray' = stray /\ pc' = pc /\ task' = task
               /\ concluded' = concluded /\ claimed' = claimed
  BY ValuesTyped, KindsDiffer DEF Gpt, GptPush, gitVars, taskVars

\* A push that origin accepts finds there what the attempt had fetched.
LEMMA AcceptedPush ==
    ASSUME IInv, pc = "push", PushAccepted
    PROVE  /\ task \in Tasks
           /\ remote = tracking
           /\ head = Append(remote, ResultOf(task))
           /\ ~Has(remote, ResultOf(task))
  <1>1. task \in Tasks
    BY DEF IInv, TypeOK, TaskIsConcluded, PublishSteps
  <1>2. ResultOf(task) \in Changes
    BY <1>1, ValuesTyped
  <1>3. head = Append(tracking, ResultOf(task)) /\ ~Has(remote, ResultOf(task))
    BY DEF IInv, WorksOnFetched, ResultIsNew
  <1>4. remote = tracking
    BY <1>2, <1>3, PrefixBetween DEF IInv, TypeOK, FetchedIsKept, PushAccepted
  <1> QED
    BY <1>1, <1>3, <1>4

LEMMA FirstPushAppends ==
    ASSUME IInv, pc = "first push", remote = <<>>
    PROVE  head = Append(remote, Bootstrap) /\ ~Has(remote, Bootstrap)
  <1>1. head = <<Bootstrap>>
    BY DEF IInv, WorksOnFetched
  <1>2. <<Bootstrap>> = Append(<<>>, Bootstrap)
    BY ValuesTyped
  <1> QED
    BY <1>1, <1>2, EmptyHasNothing, Zenon

LEMMA GrowthStep ==
    IInv /\ [Next]_vars =>
        remote' = remote \/ \E c \in Changes : remote' = Append(remote, c) /\ ~Has(remote, c)
  <1> SUFFICES ASSUME IInv, Next, remote' # remote
               PROVE  \E c \in Changes : remote' = Append(remote, c) /\ ~Has(remote, c)
    BY DEF vars
  <1>1. CASE pc = "first push" /\ remote = <<>> /\ remote' = head
    BY <1>1, FirstPushAppends, ValuesTyped
  <1>2. CASE pc = "push" /\ PushAccepted /\ remote' = head
    BY <1>2, AcceptedPush, ValuesTyped
  <1>3. CASE Gpt
    BY <1>3, GptStep
  <1> QED
    BY <1>1, <1>2, <1>3, RefStep

\* No step takes a change back.
LEMMA HistoryStep ==
    ASSUME IInv, [Next]_vars
    PROVE  \A d : Has(remote, d) => Has(remote', d)
  <1>1. remote \in Seq(Changes)
    BY DEF IInv, TypeOK
  <1>2. ASSUME NEW c \in Changes, remote' = Append(remote, c)
        PROVE  \A d : Has(remote, d) => Has(remote', d)
    <2>1. \A d : Has(Append(remote, c), d) <=> (Has(remote, d) \/ d = c)
      BY <1>1, AppendKeeps
    <2> QED
      BY <1>2, <2>1
  <1> QED
    BY <1>2, GrowthStep

LEMMA KeptStep == IInv /\ [Next]_vars => FetchedIsKept'
  <1> SUFFICES ASSUME IInv, [Next]_vars PROVE FetchedIsKept'
    OBVIOUS
  <1>1. /\ remote \in Seq(Changes) /\ tracking \in Seq(Changes) /\ head \in Seq(Changes)
        /\ IsPrefix(tracking, remote)
    BY DEF IInv, TypeOK, FetchedIsKept
  <1>2. CASE remote' = remote /\ tracking' \in {tracking, remote}
    BY <1>1, <1>2, PrefixReflexive DEF FetchedIsKept
  <1>3. CASE remote' = head /\ tracking' = head
    BY <1>1, <1>3, PrefixReflexive DEF FetchedIsKept
  <1>4. CASE pc = "push" /\ PushAccepted /\ remote' = head /\ tracking' = tracking
    <2>1. head = Append(tracking, ResultOf(task)) /\ ResultOf(task) \in Changes
      BY <1>4, AcceptedPush, ValuesTyped
    <2> QED
      BY <1>1, <1>4, <2>1, AppendKeeps DEF FetchedIsKept
  <1>7. CASE pc = "first push" /\ remote = <<>> /\ remote' = head /\ tracking' = tracking
    <2>1. tracking = <<>>
      BY <1>1, <1>7, PrefixOfEmpty
    <2> QED
      BY <1>1, <1>7, <2>1, EmptyIsPrefix DEF FetchedIsKept
  <1>5. CASE Gpt
    <2>1. PICK c \in Changes : remote' = Append(remote, c) /\ tracking' = tracking
      BY <1>5, GptStep
    <2> QED
      BY <1>1, <2>1, PrefixExtends DEF FetchedIsKept
  <1>6. CASE UNCHANGED vars
    BY <1>6 DEF vars, gitVars, IInv, FetchedIsKept
  <1> QED
    BY <1>2, <1>3, <1>4, <1>5, <1>6, <1>7, RefStep

-----------------------------------------------------------------------------
(* The publication in progress.                                            *)

LEMMA WorksStep == IInv /\ [Next]_vars => WorksOnFetched'
  <1> SUFFICES ASSUME IInv, [Next]_vars PROVE WorksOnFetched'
    OBVIOUS
  <1> USE DEF WorksOnFetched, CommitSteps, Goto, At
  <1>a. WorksOnFetched /\ attempt \in 0..Attempts
    BY DEF IInv, TypeOK
  <1>1. CASE SyncFetch \/ SyncReset \/ PublishFetch
    BY <1>1 DEF SyncFetch, SyncReset, PublishFetch
  <1>15. CASE EnsureSteps
    BY <1>15, EnsureStep
  <1>2. CASE SyncRefused \/ PassDone \/ ResultPresent \/ Start \/ UNCHANGED vars
    BY <1>a, <1>2 DEF SyncRefused, PassDone, ResultPresent, Succeed, Start, vars, gitVars, taskVars
  <1>3. CASE Initialize
    BY <1>3 DEF Initialize
  <1>4. CASE FirstPush
    BY <1>4 DEF FirstPush
  <1>5. ASSUME NEW t \in Tasks, Conclude(t) PROVE WorksOnFetched'
    BY <1>5 DEF Conclude
  <1>6. CASE PublishReset
    BY <1>6 DEF PublishReset, ResetHard
  <1>7. CASE ResultAbsent
    BY <1>a, <1>7 DEF ResultAbsent, gitVars
  <1>8. CASE \/ WriteResultTemp \/ WriteResult \/ WriteCheckpointTemp
             \/ WriteCheckpoint \/ Add
    BY <1>a, <1>8 DEF WriteResultTemp, WriteResult, WriteCheckpointTemp, WriteCheckpoint,
                      Add, WriteStep
  <1>9. CASE Commit
    BY <1>a, <1>9 DEF Commit, taskVars
  <1>10. CASE Push
    BY <1>10 DEF Push, Succeed
  <1>11. CASE PushRejected \/ PushInterrupted \/ FetchFails \/ CheckpointRefused
    BY <1>a, <1>11, RetryKinds DEF PushRejected, PushInterrupted, FetchFails,
                                  CheckpointRefused
  <1>12. CASE Crash
    BY <1>12 DEF Crash
  <1>13. CASE DoctorEnsure
    BY <1>13 DEF DoctorEnsure
  <1>14. CASE Gpt
    BY <1>a, <1>14, GptStep
  <1> QED
    BY <1>1, <1>2, <1>3, <1>4, <1>5, <1>6, <1>7, <1>8, <1>9, <1>10, <1>11, <1>12,
       <1>13, <1>14, <1>15 DEF Next, Worker, EnsureSteps

LEMMA NewStep == IInv /\ [Next]_vars => ResultIsNew'
  <1> SUFFICES ASSUME IInv, [Next]_vars PROVE ResultIsNew'
    OBVIOUS
  <1> USE DEF ResultIsNew, CommitSteps, Goto, At
  <1>a. ResultIsNew /\ attempt \in 0..Attempts
    BY DEF IInv, TypeOK
  <1>13. CASE EnsureSteps
    BY <1>13, EnsureStep
  <1>1. CASE \/ Initialize \/ FirstPush
             \/ SyncFetch \/ SyncRefused \/ SyncReset \/ PassDone
    BY <1>1 DEF Initialize, FirstPush, SyncFetch, SyncRefused, SyncReset, PassDone
  <1>2. CASE ResultPresent \/ Push \/ Crash
    BY <1>2 DEF ResultPresent, Push, Succeed, Crash
  <1>3. CASE Start \/ UNCHANGED vars
    BY <1>a, <1>3 DEF Start, vars, gitVars, taskVars
  <1>4. ASSUME NEW t \in Tasks, Conclude(t) PROVE ResultIsNew'
    BY <1>4 DEF Conclude
  <1>5. CASE PublishFetch
    BY <1>5 DEF PublishFetch, Fetch, taskVars
  <1>6. CASE PublishReset
    BY <1>a, <1>6 DEF PublishReset, ResetHard, taskVars
  <1>7. CASE ResultAbsent
    <2>1. tree = tracking
      BY <1>7 DEF ResultAbsent, IInv, WorksOnFetched
    <2> QED
      BY <1>a, <1>7, <2>1 DEF ResultAbsent, gitVars, taskVars
  <1>8. CASE \/ WriteResultTemp \/ WriteResult \/ WriteCheckpointTemp
             \/ WriteCheckpoint \/ Add
    BY <1>a, <1>8 DEF WriteResultTemp, WriteResult, WriteCheckpointTemp, WriteCheckpoint,
                      Add, WriteStep, taskVars
  <1>9. CASE Commit
    BY <1>a, <1>9 DEF Commit, taskVars
  <1>10. CASE PushRejected \/ PushInterrupted \/ FetchFails \/ CheckpointRefused
    BY <1>10, RetryKinds, <1>a DEF PushRejected, PushInterrupted, FetchFails,
                                  CheckpointRefused
  <1>11. CASE DoctorEnsure
    BY <1>11 DEF DoctorEnsure
  <1>12. CASE Gpt
    <2>1. PICK c \in Changes : /\ remote' = Append(remote, c)
                               /\ \A t \in Tasks : c # ResultOf(t)
                               /\ tracking' = tracking /\ pc' = pc /\ task' = task
      BY <1>12, GptStep
    <2>2. \A d : Has(remote', d) <=> (Has(remote, d) \/ d = c)
      BY <2>1, AppendKeeps DEF IInv, TypeOK
    <2>3. pc \in PublishSteps => task \in Tasks
      BY DEF IInv, TypeOK, TaskIsConcluded
    <2> QED
      BY <1>a, <2>1, <2>2, <2>3 DEF PublishSteps
  <1> QED
    BY <1>1, <1>2, <1>3, <1>4, <1>5, <1>6, <1>7, <1>8, <1>9, <1>10, <1>11, <1>12, <1>13
       DEF Next, Worker, EnsureSteps

LEMMA StrayStep == IInv /\ [Next]_vars => StrayIsPast'
  <1> SUFFICES ASSUME IInv, [Next]_vars, NEW t \in Tasks, ResultFile(t) \in stray'
               PROVE  /\ t \in concluded'
                      /\ t = task' => \/ pc' \in {"checkpoint temp", "checkpoint", "add"}
                                      \/ Has(remote', BadCheckpoint)
    BY DEF StrayIsPast
  <1>c. Has(remote, BadCheckpoint) => Has(remote', BadCheckpoint)
    BY HistoryStep
  <1> USE DEF Goto, At, gitVars, taskVars
  <1>a. /\ ResultFile(t) \in stray =>
              /\ t \in concluded
              /\ t = task => \/ pc \in {"checkpoint temp", "checkpoint", "add"}
                             \/ Has(remote, BadCheckpoint)
        /\ IF pc \in PublishSteps THEN task \in concluded ELSE task = NoTask
        /\ t # NoTask
        /\ attempt \in 0..Attempts
        /\ concluded \subseteq Tasks
    BY TasksAssumption DEF IInv, TypeOK, StrayIsPast, TaskIsConcluded
  <1>b. /\ \A u \in Tasks : ResultFile(t) # ResultTemp(u)
        /\ \A u \in Tasks : ResultFile(t) = ResultFile(u) => t = u
        /\ ResultFile(t) # CheckpointTemp
    BY KindsDiffer
  <1>15. CASE EnsureSteps
    BY <1>a, <1>15, <1>c, EnsureStep
  <1>1. CASE Initialize \/ FirstPush
    BY <1>a, <1>1, <1>c DEF Initialize, FirstPush, PublishSteps
  <1>2. CASE \/ SyncFetch \/ SyncRefused \/ SyncReset \/ PassDone \/ Start \/ UNCHANGED vars
    BY <1>a, <1>2, <1>c DEF SyncFetch, SyncRefused, SyncReset, ResetHard, PassDone, Start, vars, PublishSteps
  <1>3. ASSUME NEW u \in Tasks, Conclude(u)
        PROVE  t \in concluded' /\ t # task'
    BY <1>a, <1>3 DEF Conclude
  <1>4. CASE PublishFetch \/ PublishReset \/ ResultAbsent
    BY <1>a, <1>4, <1>c DEF PublishFetch, PublishReset, ResetHard, ResultAbsent
  <1>5. CASE ResultPresent \/ Push
    BY <1>a, <1>5 DEF ResultPresent, Push, Succeed
  <1>6. CASE WriteResultTemp \/ WriteCheckpointTemp \/ WriteCheckpoint
    BY <1>a, <1>b, <1>6, <1>c DEF WriteResultTemp, WriteCheckpointTemp, WriteCheckpoint,
                            WriteStep, PublishSteps
  <1>7. CASE WriteResult
    BY <1>a, <1>b, <1>7 DEF WriteResult, WriteStep, PublishSteps
  <1>8. CASE Add
    BY <1>a, <1>b, <1>8 DEF Add, WriteStep, PublishSteps
  <1>9. CASE Commit
    BY <1>a, <1>9, <1>c DEF Commit
  <1>10. CASE PushRejected \/ PushInterrupted \/ FetchFails
    BY <1>a, <1>10, <1>c, RetryKinds DEF PushRejected, PushInterrupted, FetchFails
  <1>11. CASE Crash
    BY <1>a, <1>11 DEF Crash
  <1>12. CASE DoctorEnsure
    BY <1>a, <1>12, <1>c DEF DoctorEnsure, WorktreeOf
  <1>13. CASE Gpt
    BY <1>a, <1>13, <1>c, GptStep
  <1>14. CASE CheckpointRefused
    <2>1. Has(tracking, BadCheckpoint)
      BY <1>14 DEF CheckpointRefused, IInv, WorksOnFetched, CommitSteps
    <2>2. Has(remote, BadCheckpoint)
      BY <2>1, PrefixKeeps DEF IInv, TypeOK, FetchedIsKept
    <2> QED
      BY <1>a, <1>c, <1>14, <2>2, RetryKinds DEF CheckpointRefused
  <1> QED
    BY <1>1, <1>2, <1>3, <1>4, <1>5, <1>6, <1>7, <1>8, <1>9, <1>10, <1>11, <1>12, <1>13,
       <1>14, <1>15 DEF Next, Worker, EnsureSteps

\* A publication that succeeds leaves its result at origin, unless the checkpoint
\* there does not decode.
LEMMA ClaimStep == IInv /\ [Next]_vars => ClaimedIsPublished'
  <1> SUFFICES ASSUME IInv, [Next]_vars, NEW t \in claimed'
               PROVE  Has(remote', ResultOf(t)) \/ Has(remote', BadCheckpoint)
    BY DEF ClaimedIsPublished
  <1>1. CASE t \in claimed
    BY <1>1, HistoryStep DEF IInv, ClaimedIsPublished
  <1>2. CASE t \notin claimed
    <2>1. (ResultPresent /\ t = task) \/ (Push /\ t = task)
      <3> USE <1>2 DEF gitVars, taskVars
      <3>1. ASSUME NEW u \in Tasks, Conclude(u) PROVE FALSE
        BY <3>1 DEF Conclude
      <3>2. CASE PushRejected \/ PushInterrupted \/ FetchFails \/ CheckpointRefused
        <4>1. attempt \in 0..Attempts
          BY DEF IInv, TypeOK
        <4> QED
          BY <3>2, <4>1, RetryKinds DEF PushRejected, PushInterrupted, FetchFails,
                                       CheckpointRefused
      <3>3. CASE Gpt
        BY <3>3, GptStep
      <3>4. CASE ResultPresent \/ Push
        BY <3>4 DEF ResultPresent, Push, Succeed
      <3>9. CASE EnsureSteps
        BY <3>9, EnsureStep
      <3>5. CASE \/ Initialize \/ FirstPush
                 \/ SyncFetch \/ SyncRefused \/ SyncReset \/ PassDone
        BY <3>5 DEF Initialize, FirstPush, SyncFetch, SyncRefused, SyncReset, PassDone
      <3>6. CASE PublishFetch \/ PublishReset \/ ResultAbsent \/ Commit
        BY <3>6 DEF PublishFetch, PublishReset, ResultAbsent, Commit
      <3>7. CASE \/ WriteResultTemp \/ WriteResult \/ WriteCheckpointTemp
                 \/ WriteCheckpoint \/ Add
        BY <3>7 DEF WriteResultTemp, WriteResult, WriteCheckpointTemp, WriteCheckpoint,
                    Add, WriteStep
      <3>8. CASE Crash \/ Start \/ DoctorEnsure \/ UNCHANGED vars
        BY <3>8 DEF Crash, Start, DoctorEnsure, vars
      <3> QED
        BY <3>1, <3>2, <3>3, <3>4, <3>5, <3>6, <3>7, <3>8, <3>9 DEF Next, Worker, EnsureSteps
    <2>2. CASE ResultPresent /\ t = task
      <3>1. task \in Tasks /\ tracking \in Seq(Changes) /\ remote \in Seq(Changes)
        BY <2>2 DEF ResultPresent, At, IInv, TypeOK, TaskIsConcluded, PublishSteps
      <3>2. pc = "look"
        BY <2>2 DEF ResultPresent, At
      <3>4. tree = tracking
        BY <3>2 DEF IInv, WorksOnFetched
      <3>5. ResultFile(task) \notin stray \/ Has(remote, BadCheckpoint)
        BY <3>1, <3>2 DEF IInv, StrayIsPast
      <3>3. /\ remote' = remote
            /\ Has(tracking, ResultOf(task)) \/ Has(remote, BadCheckpoint)
        BY <2>2, <3>4, <3>5 DEF ResultPresent
      <3> QED
        BY <2>2, <3>1, <3>3, PrefixKeeps DEF IInv, FetchedIsKept
    <2>3. CASE Push /\ t = task
      <3>1. /\ task \in Tasks /\ remote \in Seq(Changes)
            /\ remote' = Append(remote, ResultOf(task))
        BY <2>3, AcceptedPush DEF Push, At, IInv, TypeOK
      <3>2. ResultOf(task) \in Changes
        BY <3>1, ValuesTyped
      <3> QED
        BY <2>3, <3>1, <3>2, AppendKeeps
    <2> QED
      BY <2>1, <2>2, <2>3
  <1> QED
    BY <1>1, <1>2

-----------------------------------------------------------------------------
(* The theorems.                                                           *)

\* Whom a step finds, or concludes.
LEMMA FoundStep ==
    ASSUME [Next]_vars
    PROVE  \/ found' \subseteq found /\ concluded' \subseteq found \cup concluded
           \/ /\ found' = {t \in Tasks : Has(tracking, Submission(t)) /\ ~Has(tracking, ResultOf(t))}
              /\ concluded' = concluded
  <1> USE DEF taskVars
  <1>10. CASE EnsureSteps
    BY <1>10, EnsureStep
  <1>1. CASE Initialize \/ FirstPush \/ DoctorEnsure
    BY <1>1 DEF Initialize, FirstPush, DoctorEnsure
  <1>2. CASE SyncFetch \/ SyncRefused \/ SyncReset \/ PassDone
    BY <1>2 DEF SyncFetch, SyncRefused, SyncReset, PassDone
  <1>3. ASSUME NEW t \in Tasks, Conclude(t)
        PROVE  found' \subseteq found /\ concluded' \subseteq found \cup concluded
    BY <1>3 DEF Conclude
  <1>4. CASE PublishFetch \/ PublishReset \/ ResultPresent \/ ResultAbsent
    BY <1>4 DEF PublishFetch, PublishReset, ResultPresent, ResultAbsent
  <1>5. CASE \/ WriteResultTemp \/ WriteResult \/ WriteCheckpointTemp
             \/ WriteCheckpoint \/ Add \/ Commit
    BY <1>5 DEF WriteResultTemp, WriteResult, WriteCheckpointTemp, WriteCheckpoint,
                Add, WriteStep, Commit
  <1>6. CASE Push \/ PushRejected \/ PushInterrupted \/ FetchFails \/ CheckpointRefused
    BY <1>6 DEF Push, PushRejected, PushInterrupted, FetchFails, CheckpointRefused
  <1>7. CASE Crash \/ Start
    BY <1>7 DEF Crash, Start
  <1>8. CASE Gpt
    BY <1>8 DEF Gpt, GptPush
  <1>9. CASE UNCHANGED vars
    BY <1>9 DEF vars
  <1> QED
    BY <1>1, <1>2, <1>3, <1>4, <1>5, <1>6, <1>7, <1>8, <1>9, <1>10 DEF Next, Worker, EnsureSteps

LEMMA SubmittedStep == IInv /\ [Next]_vars => OnlySubmitted'
  <1> SUFFICES ASSUME IInv, [Next]_vars, NEW t \in found' \cup concluded'
               PROVE  Has(remote', Submission(t))
    BY DEF OnlySubmitted, Submitted
  <1>1. \A d : Has(tracking, d) => Has(remote, d)
    BY PrefixKeeps DEF IInv, TypeOK, FetchedIsKept
  <1>2. Has(remote, Submission(t))
    BY <1>1, FoundStep DEF IInv, OnlySubmitted, Submitted
  <1> QED
    BY <1>2, HistoryStep

LEMMA InitInv == Init => IInv
  <1> SUFFICES ASSUME Init PROVE IInv
    OBVIOUS
  <1>1. FetchedIsKept
    BY ValuesTyped, PrefixReflexive DEF Init, FetchedIsKept
  <1>2. WorksOnFetched /\ ResultIsNew
    BY DEF Init, WorksOnFetched, ResultIsNew, CommitSteps
  <1>3. StrayIsPast /\ OnlySubmitted /\ ClaimedIsPublished
    BY DEF Init, StrayIsPast, OnlySubmitted, ClaimedIsPublished
  <1> QED
    BY <1>1, <1>2, <1>3, TypeInit DEF IInv, Typed

LEMMA NextInv == IInv /\ [Next]_vars => IInv'
  BY TypeStep, KeptStep, WorksStep, NewStep, StrayStep, SubmittedStep, ClaimStep
     DEF IInv, Typed

\* The strengthened invariant of the transport holds always.
THEOREM BusInvariance == Spec => []IInv
  BY InitInv, NextInv, PTL DEF Spec

\* Every variable keeps its type.
THEOREM BusTypeCorrect == Spec => []TypeOK
  BY BusInvariance, PTL DEF IInv

\* A publication that returned without error has its result at origin: neither a
\* file left in the worktree nor a commit that was not pushed is taken for it, as
\* long as the checkpoint at origin decodes.
THEOREM ClaimTheorem == Spec => []ClaimedIsPublished
  BY BusInvariance, PTL DEF IInv

\* An attempt pushes the commit it fetched and one result it does not contain.
THEOREM CommitTheorem == Spec => []PushedCommitIsOneResult
  <1>1. IInv => PushedCommitIsOneResult
    BY DEF IInv, WorksOnFetched, ResultIsNew, PushedCommitIsOneResult
  <1> QED
    BY <1>1, BusInvariance, PTL

\* The project branch is append-only, one new change at a time.
THEOREM GrowthTheorem == Spec => BranchOnlyGrows
  <1>1. IInv /\ [Next]_vars =>
            [\E c \in Changes : remote' = Append(remote, c) /\ ~Has(remote, c)]_remote
    BY GrowthStep
  <1> QED
    BY <1>1, BusInvariance, PTL DEF Spec, BranchOnlyGrows

-----------------------------------------------------------------------------
(* The branch as a result board.                                           *)

\* Which push is which step of the board.
LEMMA PushIsBoardStep ==
    ASSUME IInv, [Next]_vars, remote' # remote
    PROVE  \/ \E t \in Tasks : remote' = Append(remote, Submission(t))
           \/ \E t \in Tasks : /\ remote' = Append(remote, ResultOf(t))
                               /\ Submitted(t) /\ ~Published(t)
           \/ \E c \in Changes : /\ remote' = Append(remote, c)
                                 /\ \A t \in Tasks : c # Submission(t) /\ c # ResultOf(t)
  <1>1. CASE pc = "first push" /\ remote = <<>> /\ remote' = head
    <2>1. remote' = Append(remote, Bootstrap) /\ Bootstrap \in Changes
      BY <1>1, FirstPushAppends, ValuesTyped
    <2>2. \A t \in Tasks : Bootstrap # Submission(t) /\ Bootstrap # ResultOf(t)
      BY DEF Bootstrap, Submission, ResultOf
    <2> QED
      BY <2>1, <2>2
  <1>2. CASE pc = "push" /\ PushAccepted /\ remote' = head
    <2>1. task \in Tasks /\ remote' = Append(remote, ResultOf(task)) /\ ~Published(task)
      BY <1>2, AcceptedPush DEF Published
    <2>2. task \in concluded
      BY <1>2 DEF IInv, TaskIsConcluded, PublishSteps
    <2> QED
      BY <2>1, <2>2 DEF IInv, OnlySubmitted
  <1>3. CASE Gpt
    <2>1. PICK c \in {Submission(t) : t \in Tasks} \cup {Note(n) : n \in 1..MaxNotes}
                     \cup {BadCheckpoint} : remote' = Append(remote, c)
      BY <1>3 DEF Gpt, GptPush
    <2>2. CASE c \in {Submission(t) : t \in Tasks}
      BY <2>1, <2>2
    <2>3. CASE c \in {Note(n) : n \in 1..MaxNotes} \cup {BadCheckpoint}
      <3>1. c[1] = "note" \/ c[1] = "bad checkpoint"
        <4>1. \A n \in 1..MaxNotes : Note(n)[1] = "note"
          BY DEF Note
        <4>2. BadCheckpoint[1] = "bad checkpoint"
          BY DEF BadCheckpoint
        <4> QED
          BY <2>3, <4>1, <4>2
      <3>3. \A t \in Tasks : Submission(t)[1] = "submit" /\ ResultOf(t)[1] = "result"
        BY DEF Submission, ResultOf
      <3>2. c \in Changes
        BY <2>3 DEF Changes
      <3> QED
        BY <2>1, <3>1, <3>2, <3>3
    <2> QED
      BY <2>1, <2>2, <2>3
  <1>4. Next
    BY DEF vars
  <1> QED
    BY <1>1, <1>2, <1>3, <1>4, RefStep

\* After a push the board says of the change that was pushed, and of no other task.
LEMMA BoardAfter ==
    ASSUME IInv, NEW c \in Changes, remote' = Append(remote, c)
    PROVE  \A t \in Tasks : /\ Submitted(t)' <=> Submitted(t) \/ c = Submission(t)
                            /\ Published(t)' <=> Published(t) \/ c = ResultOf(t)
  BY AppendKeeps DEF IInv, TypeOK, Submitted, Published

\* For every set of tasks, and in whatever way pushes, crashes and retries meet,
\* what GPT sees of the branch is the result board: the publication that
\* ProjectWorker takes for one step is one, and is of a submitted, unanswered task.
THEOREM BranchRefinement == Spec => ImplementsBoard
  <1> DEFINE inboxOf == [t \in Tasks |-> IF Submitted(t) THEN "content" ELSE "no bundle"]
             resultsOf == [t \in Tasks |-> IF Published(t)
                                           THEN [state |-> "concluded", digest |-> "content"]
                                           ELSE [state |-> "open", digest |-> "none"]]
  <1>1. Init => BranchBoard!BoardInit
    BY EmptyHasNothing DEF Init, BranchBoard!BoardInit, Submitted, Published
  <1>2. ASSUME IInv, [Next]_vars
        PROVE  [BranchBoard!BoardNext]_<<inboxOf, resultsOf>>
    <2>1. CASE remote' = remote
      BY <2>1 DEF Submitted, Published
    <2>2. ASSUME NEW t \in Tasks, remote' = Append(remote, Submission(t))
          PROVE  BranchBoard!Submit(t)
      <3>1. \A u \in Tasks : /\ Submitted(u)' <=> Submitted(u) \/ Submission(t) = Submission(u)
                             /\ Published(u)' <=> Published(u) \/ Submission(t) = ResultOf(u)
        BY <1>2, <2>2, BoardAfter, ValuesTyped
      <3>2. \A u \in Tasks : /\ Submission(t) # ResultOf(u)
                             /\ Submission(t) = Submission(u) => t = u
        BY DEF Submission, ResultOf
      <3>3. resultsOf' = resultsOf
        BY <3>1, <3>2
      <3>4. inboxOf' = [inboxOf EXCEPT ![t] = "content"]
        BY <3>1, <3>2
      <3> QED
        BY <3>3, <3>4 DEF BranchBoard!Submit
    <2>3. ASSUME NEW t \in Tasks, remote' = Append(remote, ResultOf(t)),
                 Submitted(t), ~Published(t)
          PROVE  BranchBoard!Answer(t)
      <3>1. \A u \in Tasks : /\ Submitted(u)' <=> Submitted(u) \/ ResultOf(t) = Submission(u)
                             /\ Published(u)' <=> Published(u) \/ ResultOf(t) = ResultOf(u)
        BY <1>2, <2>3, BoardAfter, ValuesTyped
      <3>2. \A u \in Tasks : /\ ResultOf(t) # Submission(u)
                             /\ ResultOf(t) = ResultOf(u) => t = u
        BY DEF Submission, ResultOf
      <3>3. inboxOf' = inboxOf
        BY <3>1, <3>2
      <3>4. resultsOf' = [resultsOf EXCEPT ![t] = [state |-> "concluded", digest |-> "content"]]
        BY <3>1, <3>2
      <3> QED
        BY <2>3, <3>3, <3>4 DEF BranchBoard!Answer, BranchBoard!Open
    <2>4. ASSUME NEW c \in Changes, remote' = Append(remote, c),
                 \A t \in Tasks : c # Submission(t) /\ c # ResultOf(t)
          PROVE  inboxOf' = inboxOf /\ resultsOf' = resultsOf
      BY <1>2, <2>4, BoardAfter
    <2> QED
      BY <1>2, <2>1, <2>2, <2>3, <2>4, PushIsBoardStep DEF BranchBoard!BoardNext
  <1> QED
    BY <1>1, <1>2, BusInvariance, PTL DEF ImplementsBoard, BranchBoard!Board, Spec
=============================================================================
