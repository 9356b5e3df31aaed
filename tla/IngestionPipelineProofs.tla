----------------------- MODULE IngestionPipelineProofs -----------------------
(***************************************************************************)
(* Theorems about IngestionPipeline for every number of jobs, workers,     *)
(* attempts, message copies and faults, among them: single ownership and   *)
(* final outcomes of the jobs of which no attempt outlasted the stale      *)
(* threshold, agreeing statuses, and the implementation of JobLifecycle.   *)
(***************************************************************************)
EXTENDS IngestionPipeline, FiniteSetTheorems, TLAPS

-----------------------------------------------------------------------------
(* Operations on one row, process or queue keep it well formed. *)

LEMMA RetryJobType ==
  ASSUME NEW row \in JobRow, NEW n \in Nat PROVE RetryJob(row, n) \in JobRow
BY DEF JobRow, Ages, RetryJob

LEMMA ClaimJobType ==
  ASSUME NEW row \in JobRow PROVE ClaimJob(row) \in JobRow
<1>1. row.attempts + 1 \in Nat
  BY DEF JobRow
<1>2. ASSUME NEW n \in Nat
      PROVE  [row EXCEPT !.status = "processing", !.startedAt = "recent",
                         !.retryAt = "null", !.attempts = n] \in JobRow
  BY DEF JobRow, Ages
<1> QED BY <1>1, <1>2 DEF ClaimJob

LEMMA JobRowTypes ==
  /\ NoRow \in JobRow
  /\ CreateJob \in JobRow
  /\ \A row \in JobRow :
       /\ row.attempts \in Nat
       /\ MarkEnqueued(row) \in JobRow
       /\ FailJob(row, "stage") \in JobRow
       /\ FailJob(row, "exhausted") \in JobRow
       /\ MarkJobReady(row) \in JobRow
       /\ PrepareForRequeue(row) \in JobRow
       /\ StartedBeforeCutoff(row) \in JobRow
       /\ EnqueuedBeforeCutoff(row) \in JobRow
<1>1. NoRow \in JobRow /\ CreateJob \in JobRow
  BY DEF JobRow, Ages, NoRow, CreateJob
<1>2. ASSUME NEW row \in JobRow
      PROVE  /\ MarkEnqueued(row) \in JobRow
             /\ StartedBeforeCutoff(row) \in JobRow
             /\ EnqueuedBeforeCutoff(row) \in JobRow
  BY DEF JobRow, Ages, MarkEnqueued, StartedBeforeCutoff, EnqueuedBeforeCutoff
<1>3. ASSUME NEW row \in JobRow
      PROVE  /\ FailJob(row, "stage") \in JobRow
             /\ FailJob(row, "exhausted") \in JobRow
  BY DEF JobRow, Ages, FailJob
<1>4. ASSUME NEW row \in JobRow
      PROVE  /\ MarkJobReady(row) \in JobRow
             /\ PrepareForRequeue(row) \in JobRow
             /\ row.attempts \in Nat
  BY DEF JobRow, Ages, MarkJobReady, PrepareForRequeue
<1> QED BY <1>1, <1>2, <1>3, <1>4

LEMMA VersionRowTypes ==
  /\ NoVersion \in VersionRow
  /\ CreateVersion \in VersionRow
  /\ \A row \in VersionRow :
       /\ MarkProcessing(row) \in VersionRow
       /\ MarkVersionFailed(row) \in VersionRow
       /\ MarkVersionReady(row) \in VersionRow
       /\ \A s \in Stages : Checkpoint(row, s) \in VersionRow
       /\ Remaining(row) \subseteq Stages
BY DEF VersionRow, NoVersion, CreateVersion, MarkProcessing, MarkVersionFailed,
       MarkVersionReady, Checkpoint, Remaining

LEMMA AttemptTypes ==
  /\ \A j \in Jobs, row \in VersionRow, pc \in {"stages", "refused"} :
       NewAttempt(j, row, pc) \in AttemptState
  /\ \A ws \in AttemptState :
       /\ ws.job \in Jobs
       /\ ws.pc # "idle"
       /\ \A s \in Stages : PassStage(ws, s) \in AttemptState
       /\ Raise(ws) \in AttemptState
       /\ \A row \in JobRow : LeaveUnsaved(ws, row) \in AttemptState
<1>1. ASSUME NEW j \in Jobs, NEW row \in VersionRow,
             NEW pc \in {"stages", "refused"}
      PROVE  NewAttempt(j, row, pc) \in AttemptState
  BY VersionRowTypes DEF NewAttempt, AttemptState
<1>2. ASSUME NEW ws \in AttemptState
      PROVE  /\ ws.job \in Jobs
             /\ ws.pc # "idle"
             /\ \A s \in Stages : PassStage(ws, s) \in AttemptState
             /\ Raise(ws) \in AttemptState
             /\ \A row \in JobRow : LeaveUnsaved(ws, row) \in AttemptState
  <2>1. \A row \in JobRow : WrittenColumns(row) \in JobRow
    BY DEF WrittenColumns, JobRow, Ages
  <2> QED BY <1>2, <2>1 DEF PassStage, Raise, LeaveUnsaved, AttemptState
<1> QED BY <1>1, <1>2

\* A process that is not idle is an attempt at one of the jobs.
LEMMA BusyWorker ==
  ASSUME TypeOK, NEW w \in Workers, worker[w].pc # "idle"
  PROVE  worker[w] \in AttemptState /\ worker[w].job \in Jobs
BY AttemptTypes DEF TypeOK, IdleWorker

LEMMA PublishedType ==
  ASSUME NEW j, queue \in [Jobs -> 0..MaxCopies]
  PROVE  Published(j) \in [Jobs -> 0..MaxCopies]
<1>1. ASSUME NEW n \in 0..MaxCopies
      PROVE  (IF n < MaxCopies THEN n + 1 ELSE n) \in 0..MaxCopies
  BY ConstantsAssumption
<1> QED BY <1>1 DEF Published

-----------------------------------------------------------------------------
\* Every reachable state has the shape the schema and the processes give it.
THEOREM TypeCorrect == Spec => []TypeOK
<1> USE ConstantsAssumption, AttemptsAssumption
<1>1. Init => TypeOK
  BY JobRowTypes, VersionRowTypes DEF Init, TypeOK, IdleReconciler
<1>2. TypeOK /\ [Next]_vars => TypeOK'
  <2> SUFFICES ASSUME TypeOK, [Next]_vars PROVE TypeOK'
    OBVIOUS
  <2> USE DEF TypeOK
  <2>1. ASSUME NEW j \in Jobs, Upload(j) PROVE TypeOK'
    <3>1. CASE StoreOriginal(j) \/ CompensateUpload(j) \/ InterruptUpload(j)
      BY <3>1 DEF StoreOriginal, CompensateUpload, InterruptUpload
    <3>2. CASE CommitUpload(j)
      BY <3>2, JobRowTypes, VersionRowTypes DEF CommitUpload
    <3>3. CASE PublishUpload(j)
      BY <3>3, PublishedType DEF PublishUpload
    <3>4. CASE MarkUploadEnqueued(j)
      BY <3>4, JobRowTypes DEF MarkUploadEnqueued
    <3> QED BY <2>1, <3>1, <3>2, <3>3, <3>4 DEF Upload
  <2>2. ASSUME NEW w \in Workers, NEW j \in Jobs, Claim(w, j) PROVE TypeOK'
    <3>1. queue' \in [Jobs -> 0..MaxCopies]
      BY <2>2 DEF Claim
    <3>2. CASE Claimable(job[j])
      BY <2>2, <3>1, <3>2, ClaimJobType, VersionRowTypes, AttemptTypes DEF Claim
    <3>3. CASE ~Claimable(job[j])
      BY <2>2, <3>1, <3>3 DEF Claim
    <3> QED BY <3>2, <3>3
  <2>3. ASSUME NEW w \in Workers, Work(w) PROVE TypeOK'
    <3>0. worker[w].pc # "idle"
      BY <2>3 DEF Work, ParseDocument, RecognizeEntities, ChunkDocument,
                  EmbedChunks, CheckpointStage, AtStage, Fail, RaiseInStage,
                  Complete, AssertGenerationBound, RecordTransientFailure,
                  RecordPermanentFailure, CloseSession
    <3> USE <3>0, BusyWorker, AttemptTypes
    <3>1. ASSUME NEW s \in Stages, CheckpointStage(w, s) PROVE TypeOK'
      BY <3>1, VersionRowTypes DEF CheckpointStage
    <3>2. CASE ParseDocument(w) \/ RecognizeEntities(w) \/ ChunkDocument(w)
               \/ EmbedChunks(w)
      BY <3>1, <3>2 DEF ParseDocument, RecognizeEntities, ChunkDocument,
                        EmbedChunks, Stages
    <3>3. CASE Fail(w)
      BY <3>3, JobRowTypes, VersionRowTypes DEF Fail
    <3>4. CASE Complete(w)
      BY <3>4, JobRowTypes, VersionRowTypes DEF Complete
    <3>5. CASE RaiseInStage(w) \/ AssertGenerationBound(w)
      BY <3>5 DEF RaiseInStage, AssertGenerationBound
    <3>6. CASE RecordTransientFailure(w)
      <4>1. job[worker[w].job] \in JobRow
        OBVIOUS
      <4>2. LeaveUnsaved(worker[w], FailJob(job[worker[w].job], "exhausted"))
              \in AttemptState
        BY <4>1, JobRowTypes
      <4>3. LeaveUnsaved(worker[w], RetryJob(job[worker[w].job],
              job[worker[w].job].attempts + 1)) \in AttemptState
        <5>1. job[worker[w].job].attempts + 1 \in Nat
          BY <4>1, JobRowTypes
        <5> QED BY <4>1, <5>1, RetryJobType
      <4> QED BY <3>6, <4>2, <4>3 DEF RecordTransientFailure
    <3>7. CASE RecordPermanentFailure(w)
      BY <3>7, JobRowTypes DEF RecordPermanentFailure
    <3>8. CASE CloseSession(w)
      BY <3>8 DEF CloseSession, RowAfterClose
    <3> QED BY <2>3, <3>2, <3>3, <3>4, <3>5, <3>6, <3>7, <3>8 DEF Work
  <2>4. ASSUME NEW w \in Workers, CrashWorker(w) PROVE TypeOK'
    BY <2>4 DEF CrashWorker
  <2>5. CASE Reconcile
    <3>1. CASE ReconcileScan
      BY <3>1, JobRowTypes, VersionRowTypes DEF ReconcileScan
    <3>2. ASSUME NEW j \in Jobs, ReconcilePrepare(j) PROVE TypeOK'
      <4>1. CASE Recoverable(job[j])
        <5>1. job' \in [Jobs -> JobRow]
          BY <3>2, <4>1, JobRowTypes DEF ReconcilePrepare
        <5> QED BY <3>2, <4>1, <5>1 DEF ReconcilePrepare
      <4>2. CASE ~Recoverable(job[j])
        BY <3>2, <4>2 DEF ReconcilePrepare
      <4> QED BY <4>1, <4>2
    <3>3. CASE ReconcilePublish
      BY <3>3, PublishedType DEF ReconcilePublish
    <3>4. CASE ReconcileMark
      BY <3>4, JobRowTypes DEF ReconcileMark
    <3>5. CASE ReconcileEnd
      BY <3>5 DEF ReconcileEnd, IdleReconciler
    <3> QED BY <2>5, <3>1, <3>2, <3>3, <3>4, <3>5 DEF Reconcile
  <2>6. CASE ReconcileDefer \/ ReconcileInterrupted
    <3>1. faults' \in 0..MaxFaults
      BY <2>6 DEF ReconcileDefer, ReconcileInterrupted
    <3>2. CASE ReconcileDefer
      BY <3>1, <3>2 DEF ReconcileDefer
    <3>3. CASE ReconcileInterrupted
      BY <3>1, <3>3 DEF ReconcileInterrupted, IdleReconciler
    <3> QED BY <2>6, <3>2, <3>3
  <2>7. ASSUME NEW j \in Jobs, DeliverScheduled(j) \/ LoseMessage(j) PROVE TypeOK'
    BY <2>7, PublishedType DEF DeliverScheduled, LoseMessage
  <2>8. ASSUME NEW j \in Jobs, AgeStarted(j) \/ AgeEnqueued(j) PROVE TypeOK'
    <3>1. job' \in [Jobs -> JobRow]
      BY <2>8, JobRowTypes DEF AgeStarted, AgeEnqueued
    <3> QED BY <2>8, <3>1 DEF AgeStarted, AgeEnqueued
  <2>9. CASE UNCHANGED vars
    BY <2>9 DEF vars
  <2> QED
    BY <2>1, <2>2, <2>3, <2>4, <2>5, <2>6, <2>7, <2>8, <2>9 DEF Next
<1> QED BY <1>1, <1>2, PTL DEF Spec

-----------------------------------------------------------------------------
(* What a step can do to the rows of one upload, and to one worker. *)

RowsKept(j) == job'[j] = job[j] /\ version'[j] = version[j]

RowsCreated(j) ==
  /\ uploader[j] = "stored"
  /\ uploader'[j] = "committed"
  /\ originals' = originals
  /\ job'[j] = CreateJob
  /\ version'[j] = CreateVersion

RowTimed(j) ==
  /\ \/ job'[j] = MarkEnqueued(job[j])
     \/ job'[j] = EnqueuedBeforeCutoff(job[j])
     \/ /\ j \in outlasted' \/ ~WorkedOn(j)
        /\ job'[j] = StartedBeforeCutoff(job[j])
  /\ version'[j] = version[j]

RowClaimed(j) ==
  /\ job[j].status = "queued"
  /\ job'[j] = ClaimJob(job[j])
  /\ version'[j] = MarkProcessing(version[j])

RowCheckpointed(j) ==
  /\ job'[j] = job[j]
  /\ \E w \in Workers, s \in Stages :
       /\ worker[w].job = j
       /\ AtStage(w, s)
       /\ version'[j] = Checkpoint(version[j], s)

RowFailed(j) ==
  /\ \E w \in Workers :
       worker[w].job = j /\ worker'[w] = IdleWorker
  /\ job'[j] = FailJob(job[j], "stage")
  /\ version'[j] = MarkVersionFailed(version[j])

RowCompleted(j) ==
  /\ \E w \in Workers :
       /\ worker[w].job = j
       /\ worker[w].pc = "stages"
       /\ worker[w].todo = {}
       /\ worker'[w] = IdleWorker
  /\ job'[j] = MarkJobReady(job[j])
  /\ version'[j] = MarkVersionReady(version[j])

RowExhausted(j) ==
  /\ StaleExhausted(job[j])
  /\ job'[j] = FailJob(job[j], "exhausted")
  /\ version'[j] = MarkVersionFailed(version[j])

RowRequeued(j) ==
  /\ Recoverable(job[j])
  /\ job'[j] = PrepareForRequeue(job[j])
  /\ version'[j] = version[j]

RowStep(j) ==
  \/ RowsKept(j)
  \/ RowsCreated(j)
  \/ RowTimed(j)
  \/ RowClaimed(j)
  \/ RowCheckpointed(j)
  \/ RowFailed(j)
  \/ RowCompleted(j)
  \/ RowExhausted(j)
  \/ RowRequeued(j)

LEMMA RowSteps ==
  ASSUME TypeOK, [Next]_vars, NEW k \in Jobs
  PROVE  RowStep(k)
<1> USE DEF TypeOK
<1>1. ASSUME NEW j \in Jobs, Upload(j) PROVE RowStep(k)
  <2>1. CASE CommitUpload(j)
    BY <2>1 DEF CommitUpload, RowStep, RowsKept, RowsCreated
  <2>2. CASE MarkUploadEnqueued(j)
    BY <2>2 DEF MarkUploadEnqueued, RowStep, RowsKept, RowTimed
  <2>3. CASE StoreOriginal(j) \/ CompensateUpload(j) \/ PublishUpload(j)
             \/ InterruptUpload(j)
    BY <2>3 DEF StoreOriginal, CompensateUpload, PublishUpload, InterruptUpload,
                RowStep, RowsKept
  <2> QED BY <1>1, <2>1, <2>2, <2>3 DEF Upload
<1>2. ASSUME NEW w \in Workers, NEW j \in Jobs, Claim(w, j) PROVE RowStep(k)
  BY <1>2 DEF Claim, Claimable, RowStep, RowsKept, RowClaimed
<1>3. ASSUME NEW w \in Workers, Work(w) PROVE RowStep(k)
  <2>1. ASSUME NEW s \in Stages, CheckpointStage(w, s) PROVE RowStep(k)
    <3>1. worker[w].job \in Jobs
      BY <2>1, BusyWorker DEF CheckpointStage, AtStage
    <3> QED BY <2>1, <3>1 DEF CheckpointStage, RowStep, RowsKept, RowCheckpointed
  <2>2. CASE ParseDocument(w) \/ RecognizeEntities(w) \/ ChunkDocument(w)
             \/ EmbedChunks(w)
    BY <2>1, <2>2 DEF ParseDocument, RecognizeEntities, ChunkDocument,
                      EmbedChunks, Stages
  <2>3. CASE Fail(w)
    BY <2>3 DEF Fail, RowStep, RowsKept, RowFailed
  <2>4. CASE Complete(w)
    BY <2>4 DEF Complete, RowStep, RowsKept, RowCompleted
  <2>5. CASE RaiseInStage(w) \/ AssertGenerationBound(w)
             \/ RecordTransientFailure(w) \/ RecordPermanentFailure(w)
    BY <2>5 DEF RaiseInStage, AssertGenerationBound, RecordTransientFailure,
                RecordPermanentFailure, RowStep, RowsKept
  <2>6. CASE CloseSession(w)
    BY <2>6 DEF CloseSession, RowAfterClose, RowStep, RowsKept
  <2> QED BY <1>3, <2>2, <2>3, <2>4, <2>5, <2>6 DEF Work
<1>4. ASSUME NEW w \in Workers, CrashWorker(w) PROVE RowStep(k)
  BY <1>4 DEF CrashWorker, RowStep, RowsKept
<1>5. CASE Reconcile
  <2>1. CASE ReconcileScan
    BY <2>1 DEF ReconcileScan, RowStep, RowsKept, RowExhausted
  <2>2. ASSUME NEW j \in Jobs, ReconcilePrepare(j) PROVE RowStep(k)
    BY <2>2 DEF ReconcilePrepare, RowStep, RowsKept, RowRequeued
  <2>3. CASE ReconcileMark
    BY <2>3 DEF ReconcileMark, RowStep, RowsKept, RowTimed
  <2>4. CASE ReconcilePublish \/ ReconcileEnd
    BY <2>4 DEF ReconcilePublish, ReconcileEnd, RowStep, RowsKept
  <2> QED BY <1>5, <2>1, <2>2, <2>3, <2>4 DEF Reconcile
<1>6. CASE ReconcileDefer \/ ReconcileInterrupted
  BY <1>6 DEF ReconcileDefer, ReconcileInterrupted, RowStep, RowsKept
<1>7. ASSUME NEW j \in Jobs, DeliverScheduled(j) \/ LoseMessage(j)
      PROVE  RowStep(k)
  BY <1>7 DEF DeliverScheduled, LoseMessage, RowStep, RowsKept
<1>8. ASSUME NEW j \in Jobs, AgeStarted(j) \/ AgeEnqueued(j) PROVE RowStep(k)
  BY <1>8 DEF AgeStarted, AgeEnqueued, RowStep, RowsKept, RowTimed
<1>9. CASE UNCHANGED vars
  BY <1>9 DEF vars, RowStep, RowsKept
<1> QED
  BY <1>1, <1>2, <1>3, <1>4, <1>5, <1>6, <1>7, <1>8, <1>9 DEF Next

-----------------------------------------------------------------------------
(* What the operations on a row leave in its fields. *)

SameOutcome(row, new) ==
  /\ new.status = row.status
  /\ new.attempts = row.attempts
  /\ new.category = row.category
  /\ new.error = row.error

LEMMA TimingFields ==
  ASSUME NEW row \in JobRow
  PROVE  /\ SameOutcome(row, MarkEnqueued(row))
         /\ SameOutcome(row, EnqueuedBeforeCutoff(row))
         /\ SameOutcome(row, StartedBeforeCutoff(row))
         /\ MarkEnqueued(row).startedAt = row.startedAt
         /\ EnqueuedBeforeCutoff(row).startedAt = row.startedAt
BY DEF JobRow, SameOutcome, MarkEnqueued, EnqueuedBeforeCutoff,
       StartedBeforeCutoff

LEMMA ClaimFields ==
  ASSUME NEW row \in JobRow
  PROVE  LET new == ClaimJob(row) IN
         /\ new.status = "processing"
         /\ new.attempts = row.attempts + 1
         /\ new.category = row.category
         /\ new.error = row.error
         /\ new.startedAt = "recent"
<1>1. \A n \in Nat :
        LET new == [row EXCEPT !.status = "processing", !.startedAt = "recent",
                               !.retryAt = "null", !.attempts = n]
        IN  /\ new.status = "processing"
            /\ new.attempts = n
            /\ new.category = row.category
            /\ new.error = row.error
            /\ new.startedAt = "recent"
  BY DEF JobRow
<1>2. row.attempts + 1 \in Nat
  BY DEF JobRow
<1> QED BY <1>1, <1>2 DEF ClaimJob

LEMMA FailFields ==
  ASSUME NEW row \in JobRow, NEW code \in {"stage", "exhausted"}
  PROVE  LET new == FailJob(row, code) IN
         /\ new.status = "failed"
         /\ new.attempts = row.attempts
         /\ new.category = "permanent"
         /\ new.error = code
BY DEF JobRow, FailJob

LEMMA ReadyFields ==
  ASSUME NEW row \in JobRow
  PROVE  LET new == MarkJobReady(row) IN
         /\ new.status = "ready"
         /\ new.attempts = row.attempts
         /\ new.category = row.category
         /\ new.error = "null"
BY DEF JobRow, MarkJobReady

LEMMA RequeueFields ==
  ASSUME NEW row \in JobRow
  PROVE  LET new == PrepareForRequeue(row) IN
         /\ new.status = "queued"
         /\ new.attempts = row.attempts
         /\ new.category = row.category
         /\ new.error = row.error
BY DEF JobRow, PrepareForRequeue

LEMMA CreatedFields ==
  /\ NoRow.status = "absent"
  /\ NoRow.attempts = 0
  /\ NoRow.category = "null"
  /\ NoRow.error = "null"
  /\ CreateJob.status = "queued"
  /\ CreateJob.attempts = 0
  /\ CreateJob.category = "null"
  /\ CreateJob.error = "null"
BY DEF CreateJob, NoRow

LEMMA VersionFields ==
  ASSUME NEW row \in VersionRow
  PROVE  /\ MarkProcessing(row).status = "processing"
         /\ MarkProcessing(row).index = row.index
         /\ MarkProcessing(row).done = row.done
         /\ MarkVersionFailed(row).status = "failed"
         /\ MarkVersionFailed(row).index = row.index
         /\ MarkVersionFailed(row).done = row.done
         /\ MarkVersionReady(row).status = "ready"
         /\ MarkVersionReady(row).index = "ready"
         /\ MarkVersionReady(row).done = row.done
         /\ \A s \in Stages :
              /\ Checkpoint(row, s).status = row.status
              /\ Checkpoint(row, s).index = row.index
              /\ Checkpoint(row, s).done = row.done \union {s}
BY DEF VersionRow, MarkProcessing, MarkVersionFailed, MarkVersionReady,
       Checkpoint

-----------------------------------------------------------------------------
(* What a step can do to one worker and to one upload request. *)

Claimed(w, j) ==
  /\ Claimable(job[j])
  /\ job'[j] = ClaimJob(job[j])
  /\ \E pc \in {"stages", "refused"} : worker'[w] = NewAttempt(j, version[j], pc)
  /\ \A v \in Workers \ {w} : worker'[v] = worker[v]
  /\ version'[j] = MarkProcessing(version[j])

StagePassed(w, s) ==
  /\ AtStage(w, s)
  /\ worker'[w] = PassStage(worker[w], s)
  /\ version'[worker[w].job] = Checkpoint(version[worker[w].job], s)

StagesLeft(w) ==
  /\ worker[w].job \in Jobs
  /\ worker'[w].job = worker[w].job
  /\ worker'[w].pc \in {"raised", "closing"}

WorkerStep(w) ==
  \/ worker'[w] = worker[w]
  \/ worker'[w] = IdleWorker
  \/ \E j \in Jobs : Claimed(w, j)
  \/ \E s \in Stages : StagePassed(w, s)
  \/ StagesLeft(w)

LEMMA WorkerSteps ==
  ASSUME TypeOK, [Next]_vars, NEW v \in Workers
  PROVE  WorkerStep(v)
<1> USE DEF TypeOK
<1>1. ASSUME NEW w \in Workers, NEW j \in Jobs, Claim(w, j) PROVE WorkerStep(v)
  BY <1>1 DEF Claim, WorkerStep, Claimed
<1>2. ASSUME NEW w \in Workers, Work(w) PROVE WorkerStep(v)
  <2>1. worker[w].pc # "idle"
    BY <1>2 DEF Work, ParseDocument, RecognizeEntities, ChunkDocument,
                EmbedChunks, CheckpointStage, AtStage, Fail, RaiseInStage,
                Complete, AssertGenerationBound, RecordTransientFailure,
                RecordPermanentFailure, CloseSession
  <2>2. worker[w] \in AttemptState /\ worker[w].job \in Jobs
    BY <2>1, BusyWorker
  <2>3. ASSUME NEW s \in Stages, CheckpointStage(w, s) PROVE WorkerStep(v)
    BY <2>3, <2>2 DEF CheckpointStage, WorkerStep, StagePassed
  <2>4. CASE ParseDocument(w) \/ RecognizeEntities(w) \/ ChunkDocument(w)
             \/ EmbedChunks(w)
    BY <2>3, <2>4 DEF ParseDocument, RecognizeEntities, ChunkDocument,
                      EmbedChunks, Stages
  <2>5. CASE Fail(w) \/ Complete(w) \/ CloseSession(w)
    BY <2>5 DEF Fail, Complete, CloseSession, WorkerStep
  <2>6. /\ Raise(worker[w]).pc = "raised"
        /\ Raise(worker[w]).job = worker[w].job
        /\ \A row : /\ LeaveUnsaved(worker[w], row).pc = "closing"
                    /\ LeaveUnsaved(worker[w], row).job = worker[w].job
    BY <2>2 DEF Raise, LeaveUnsaved, AttemptState
  <2>7. CASE RaiseInStage(w) \/ AssertGenerationBound(w)
    BY <2>6, <2>7, <2>2 DEF RaiseInStage, AssertGenerationBound, WorkerStep,
                            StagesLeft
  <2>8. CASE RecordTransientFailure(w) \/ RecordPermanentFailure(w)
    <3>1. CASE v = w
      <4>1. \E row : worker'[w] = LeaveUnsaved(worker[w], row)
        BY <2>8 DEF RecordTransientFailure, RecordPermanentFailure
      <4> QED BY <3>1, <4>1, <2>6, <2>2 DEF WorkerStep, StagesLeft
    <3>2. CASE v # w
      BY <2>8, <3>2 DEF RecordTransientFailure, RecordPermanentFailure,
                        WorkerStep
    <3> QED BY <3>1, <3>2
  <2> QED BY <1>2, <2>4, <2>5, <2>7, <2>8 DEF Work
<1>3. ASSUME NEW w \in Workers, CrashWorker(w) PROVE WorkerStep(v)
  BY <1>3 DEF CrashWorker, WorkerStep
<1>4. ASSUME NEW j \in Jobs, Upload(j) PROVE WorkerStep(v)
  BY <1>4 DEF Upload, StoreOriginal, CommitUpload, CompensateUpload,
              PublishUpload, MarkUploadEnqueued, InterruptUpload, WorkerStep
<1>5. CASE Reconcile \/ ReconcileDefer \/ ReconcileInterrupted
  BY <1>5 DEF Reconcile, ReconcileScan, ReconcilePrepare, ReconcilePublish,
              ReconcileMark, ReconcileEnd, ReconcileDefer,
              ReconcileInterrupted, WorkerStep
<1>6. ASSUME NEW j \in Jobs, DeliverScheduled(j) \/ LoseMessage(j)
                             \/ AgeStarted(j) \/ AgeEnqueued(j)
      PROVE  WorkerStep(v)
  BY <1>6 DEF DeliverScheduled, LoseMessage, AgeStarted, AgeEnqueued,
              WorkerStep
<1>7. CASE UNCHANGED vars
  BY <1>7 DEF vars, WorkerStep
<1> QED BY <1>1, <1>2, <1>3, <1>4, <1>5, <1>6, <1>7 DEF Next

OriginalKept(j) == (j \in originals') <=> (j \in originals)

UploadStep(j) ==
  \/ uploader'[j] = uploader[j] /\ OriginalKept(j)
  \/ uploader[j] = "idle" /\ uploader'[j] = "stored" /\ j \in originals'
  \/ /\ uploader[j] = "stored"
     /\ uploader'[j] = "committed"
     /\ OriginalKept(j)
     /\ job'[j] = CreateJob
  \/ /\ uploader[j] = "stored"
     /\ uploader'[j] = "over"
     /\ RowsKept(j)
  \/ /\ uploader[j] \in {"committed", "published"}
     /\ uploader'[j] \in {"published", "over"}
     /\ OriginalKept(j)

LEMMA UploadSteps ==
  ASSUME TypeOK, [Next]_vars, NEW k \in Jobs
  PROVE  UploadStep(k)
<1> USE DEF TypeOK
<1>1. ASSUME NEW j \in Jobs, Upload(j) PROVE UploadStep(k)
  <2>1. CASE StoreOriginal(j)
    BY <2>1 DEF StoreOriginal, UploadStep, OriginalKept
  <2>2. CASE CommitUpload(j)
    BY <2>2 DEF CommitUpload, UploadStep, OriginalKept
  <2>3. CASE CompensateUpload(j)
    BY <2>3 DEF CompensateUpload, UploadStep, OriginalKept, RowsKept
  <2>4. CASE InterruptUpload(j)
    BY <2>4 DEF InterruptUpload, UploadStep, OriginalKept, RowsKept
  <2>5. CASE PublishUpload(j) \/ MarkUploadEnqueued(j)
    BY <2>5 DEF PublishUpload, MarkUploadEnqueued, UploadStep, OriginalKept
  <2> QED BY <1>1, <2>1, <2>2, <2>3, <2>4, <2>5 DEF Upload
<1>2. ASSUME UNCHANGED <<uploader, originals>> PROVE UploadStep(k)
  BY <1>2 DEF UploadStep, OriginalKept
<1>3. ASSUME NEW w \in Workers, NEW j \in Jobs, Claim(w, j) PROVE UploadStep(k)
  BY <1>2, <1>3 DEF Claim
<1>4. ASSUME NEW w \in Workers, Work(w) \/ CrashWorker(w) PROVE UploadStep(k)
  BY <1>2, <1>4 DEF Work, ParseDocument, RecognizeEntities, ChunkDocument,
     EmbedChunks, CheckpointStage, Fail, RaiseInStage, Complete,
     AssertGenerationBound, RecordTransientFailure, RecordPermanentFailure,
     CloseSession, CrashWorker
<1>5. CASE Reconcile \/ ReconcileDefer \/ ReconcileInterrupted
  BY <1>2, <1>5 DEF Reconcile, ReconcileScan, ReconcilePrepare,
     ReconcilePublish, ReconcileMark, ReconcileEnd, ReconcileDefer,
     ReconcileInterrupted
<1>6. ASSUME NEW j \in Jobs, DeliverScheduled(j) \/ LoseMessage(j)
                             \/ AgeStarted(j) \/ AgeEnqueued(j)
      PROVE  UploadStep(k)
  BY <1>2, <1>6 DEF DeliverScheduled, LoseMessage, AgeStarted, AgeEnqueued
<1>7. CASE UNCHANGED vars
  BY <1>2, <1>7 DEF vars
<1> QED BY <1>1, <1>3, <1>4, <1>5, <1>6, <1>7 DEF Next

-----------------------------------------------------------------------------
(* The invariants that hold whatever a worker does.  They are inductive     *)
(* only together: a stage is committed in order because its attempt read    *)
(* durable checkpoints, and a failed row keeps its attempts within budget   *)
(* because no committed failure can be recovered.                           *)

DurableInv ==
  /\ TypeOK
  /\ UploadOrder
  /\ UploadHasOriginal
  /\ AttemptProgress
  /\ FailuresArePermanent
  /\ CheckpointsInOrder
  /\ ReadyIsComplete
  /\ AttemptsWithinBudget

\* A row that exists never disappears, and only the upload creates one.
LEMMA RowExists ==
  ASSUME TypeOK, AttemptProgress, NEW k \in Jobs, RowStep(k)
  PROVE  /\ job[k].status # "absent" => job'[k].status # "absent"
         /\ job[k].status = "absent" => RowsKept(k) \/ RowsCreated(k)
                                        \/ RowTimed(k)
         /\ RowTimed(k) => /\ job'[k].status = job[k].status
                           /\ job'[k].attempts = job[k].attempts
         /\ RowsCreated(k) => job'[k].status = "queued"
<1>1. job[k] \in JobRow
  BY DEF TypeOK
<1>2. RowTimed(k) => /\ job'[k].status = job[k].status
                     /\ job'[k].attempts = job[k].attempts
  BY <1>1, TimingFields DEF RowTimed, SameOutcome
<1>3. RowsCreated(k) => job'[k].status = "queued"
  BY CreatedFields DEF RowsCreated
<1>4. CASE RowsKept(k) \/ RowsCreated(k) \/ RowTimed(k)
  BY <1>2, <1>3, <1>4 DEF RowsKept
<1>5. CASE RowClaimed(k)
  BY <1>1, <1>2, <1>3, <1>5, ClaimFields DEF RowClaimed
<1>6. ASSUME NEW w \in Workers, worker[w].job = k PROVE job[k].status # "absent"
  BY <1>6, ConstantsAssumption DEF AttemptProgress
<1>7. CASE RowCheckpointed(k)
  BY <1>2, <1>3, <1>6, <1>7 DEF RowCheckpointed
<1>8. CASE RowFailed(k)
  BY <1>1, <1>2, <1>3, <1>6, <1>8, FailFields DEF RowFailed
<1>9. CASE RowCompleted(k)
  BY <1>1, <1>2, <1>3, <1>6, <1>9, ReadyFields DEF RowCompleted
<1>10. CASE RowExhausted(k)
  BY <1>1, <1>2, <1>3, <1>10, FailFields DEF RowExhausted, StaleExhausted
<1>11. CASE RowRequeued(k)
  BY <1>1, <1>2, <1>3, <1>11, RequeueFields DEF RowRequeued, Recoverable
<1> QED BY <1>4, <1>5, <1>7, <1>8, <1>9, <1>10, <1>11 DEF RowStep

LEMMA UploadOrderStep ==
  ASSUME DurableInv, [Next]_vars
  PROVE  UploadOrder' /\ UploadHasOriginal'
<1> SUFFICES ASSUME NEW k \in Jobs
             PROVE  /\ uploader'[k] \in {"idle", "stored"}
                        => job'[k].status = "absent"
                    /\ uploader'[k] = "stored" => k \in originals'
                    /\ uploader'[k] \in {"committed", "published"}
                        => job'[k].status # "absent"
                    /\ job'[k].status = "absent" =>
                         version'[k] = NoVersion /\ job'[k].attempts = 0
                    /\ job'[k].status # "absent" => k \in originals'
  BY DEF UploadOrder, UploadHasOriginal
<1> USE DEF DurableInv
<1>1. RowStep(k) /\ UploadStep(k)
  BY RowSteps, UploadSteps
<1>2. /\ uploader[k] \in {"idle", "stored"} => job[k].status = "absent"
      /\ uploader[k] = "stored" => k \in originals
      /\ uploader[k] \in {"committed", "published"} => job[k].status # "absent"
      /\ job[k].status = "absent" =>
           version[k] = NoVersion /\ job[k].attempts = 0
      /\ job[k].status # "absent" => k \in originals
  BY DEF UploadOrder, UploadHasOriginal
<1>3. CASE RowsCreated(k)
  BY <1>1, <1>2, <1>3, RowExists DEF RowsCreated
<1>4. CASE ~RowsCreated(k)
  <2>1. job[k].status = "absent" =>
          /\ job'[k].status = "absent"
          /\ version'[k] = version[k]
          /\ job'[k].attempts = job[k].attempts
    BY <1>1, <1>4, RowExists DEF RowsKept, RowTimed
  <2>2. job[k].status # "absent" => job'[k].status # "absent"
    BY <1>1, RowExists
  <2>3. CreateJob.status # "absent"
    BY CreatedFields
  <2> QED BY <1>1, <1>2, <2>1, <2>2, <2>3 DEF UploadStep, OriginalKept, RowsKept
<1> QED BY <1>3, <1>4

\* Every checkpoint survives the step; the only new one is the stage at which
\* an attempt of this very job was.
LEMMA VersionEffect ==
  ASSUME TypeOK, UploadOrder, NEW k \in Jobs, RowStep(k)
  PROVE  /\ version[k].done \subseteq version'[k].done
         /\ version'[k].done = version[k].done \/ RowCheckpointed(k)
         /\ version'[k].index = "ready" =>
              version[k].index = "ready" \/ RowCompleted(k)
<1>1. version[k] \in VersionRow
  BY DEF TypeOK
<1>2. CASE RowsCreated(k)
  <2>1. version[k] = NoVersion
    BY <1>2 DEF RowsCreated, UploadOrder
  <2> QED BY <1>2, <2>1 DEF RowsCreated, NoVersion, CreateVersion
<1>3. CASE RowCheckpointed(k)
  <2>1. PICK s \in Stages : version'[k] = Checkpoint(version[k], s)
    BY <1>3 DEF RowCheckpointed
  <2> QED BY <1>1, <1>3, <2>1, VersionFields
<1>4. CASE RowsKept(k) \/ RowTimed(k) \/ RowRequeued(k)
  BY <1>4 DEF RowsKept, RowTimed, RowRequeued
<1>5. CASE RowClaimed(k) \/ RowFailed(k) \/ RowCompleted(k) \/ RowExhausted(k)
  BY <1>1, <1>5, VersionFields DEF RowClaimed, RowFailed, RowCompleted,
                                   RowExhausted
<1> QED BY <1>2, <1>3, <1>4, <1>5 DEF RowStep

LEMMA AttemptProgressStep ==
  ASSUME DurableInv, [Next]_vars
  PROVE  AttemptProgress'
<1> SUFFICES ASSUME NEW w \in Workers
             PROVE  /\ worker'[w].job # NoJob =>
                         job'[worker'[w].job].status # "absent"
                    /\ worker'[w].pc = "stages" =>
                         Stages \ worker'[w].todo
                           \subseteq version'[worker'[w].job].done
  BY DEF AttemptProgress
<1> USE DEF DurableInv
<1>1. WorkerStep(w)
  BY WorkerSteps
<1>2. \A k \in Jobs : RowStep(k)
  BY RowSteps
<1>3. /\ worker[w].job # NoJob => job[worker[w].job].status # "absent"
      /\ worker[w].pc = "stages" =>
           Stages \ worker[w].todo \subseteq version[worker[w].job].done
  BY DEF AttemptProgress
<1>4. worker[w].pc # "idle" =>
        worker[w] \in AttemptState /\ worker[w].job \in Jobs
  BY BusyWorker
<1>5. worker[w].pc = "idle" => worker[w] = IdleWorker
  BY AttemptTypes DEF TypeOK
<1>6. worker[w].pc # "idle" => job'[worker[w].job].status # "absent"
  BY <1>2, <1>3, <1>4, RowExists, ConstantsAssumption
<1>7. IdleWorker.pc = "idle" /\ IdleWorker.job = NoJob
  BY DEF IdleWorker
<1>8. CASE worker'[w] = worker[w]
  BY <1>2, <1>3, <1>4, <1>5, <1>6, <1>7, <1>8, VersionEffect
<1>9. CASE worker'[w] = IdleWorker
  BY <1>7, <1>9
<1>10. ASSUME NEW j \in Jobs, Claimed(w, j)
       PROVE  /\ worker'[w].job = j
              /\ job'[j].status # "absent"
              /\ Stages \ worker'[w].todo \subseteq version'[j].done
  <2>1. job[j] \in JobRow /\ version[j] \in VersionRow
    BY DEF TypeOK
  <2>2. version'[j].done = version[j].done /\ job'[j].status = "processing"
    BY <1>10, <2>1, ClaimFields, VersionFields DEF Claimed
  <2> QED BY <1>10, <2>1, <2>2 DEF Claimed, NewAttempt, Remaining
<1>11. ASSUME NEW s \in Stages, StagePassed(w, s)
       PROVE  /\ worker'[w].job = worker[w].job
              /\ job'[worker[w].job].status # "absent"
              /\ Stages \ worker'[w].todo
                   \subseteq version'[worker[w].job].done
  <2>1. worker[w].pc = "stages" /\ worker[w] \in AttemptState
        /\ version[worker[w].job] \in VersionRow
    BY <1>11, <1>4 DEF StagePassed, AtStage, TypeOK
  <2>2. version'[worker[w].job].done = version[worker[w].job].done \union {s}
    BY <1>11, <2>1, VersionFields DEF StagePassed
  <2>3. /\ worker'[w].job = worker[w].job
        /\ worker'[w].todo = worker[w].todo \ {s}
    BY <1>11, <2>1 DEF StagePassed, PassStage, AttemptState
  <2> QED BY <1>3, <1>6, <2>1, <2>2, <2>3
<1>12. CASE StagesLeft(w)
  <2>1. worker[w].job # NoJob
    BY <1>12, ConstantsAssumption DEF StagesLeft
  <2> QED BY <1>2, <1>3, <1>12, <2>1, RowExists DEF StagesLeft
<1> QED BY <1>1, <1>8, <1>9, <1>10, <1>11, <1>12 DEF WorkerStep

LEMMA CheckpointsStep ==
  ASSUME DurableInv, [Next]_vars
  PROVE  CheckpointsInOrder' /\ ReadyIsComplete'
<1> SUFFICES ASSUME NEW k \in Jobs
             PROVE  /\ \A s \in version'[k].done :
                         Earlier(s) \subseteq version'[k].done
                    /\ version'[k].index = "ready" => version'[k].done = Stages
  BY DEF CheckpointsInOrder, ReadyIsComplete
<1> USE DEF DurableInv
<1>1. RowStep(k)
  BY RowSteps
<1>2. /\ \A s \in version[k].done : Earlier(s) \subseteq version[k].done
      /\ version[k].index = "ready" => version[k].done = Stages
  BY DEF CheckpointsInOrder, ReadyIsComplete
<1>3. version[k] \in VersionRow /\ version[k].done \subseteq Stages
  BY DEF TypeOK, VersionRow
<1>4. ASSUME NEW w \in Workers, worker[w].job = k, worker[w].pc = "stages"
      PROVE  Stages \ worker[w].todo \subseteq version[k].done
  BY <1>4 DEF AttemptProgress
<1>5. CASE RowCheckpointed(k)
  <2>1. PICK w \in Workers, s \in Stages :
          /\ worker[w].job = k
          /\ AtStage(w, s)
          /\ version'[k] = Checkpoint(version[k], s)
    BY <1>5 DEF RowCheckpointed
  <2>2. Earlier(s) \subseteq version[k].done
    <3>1. Earlier(s) \subseteq Stages
      BY DEF Earlier, Stages
    <3> QED BY <1>4, <2>1, <3>1 DEF AtStage
  <2>3. version'[k].done = version[k].done \union {s}
        /\ version'[k].index = version[k].index
    BY <1>3, <2>1, VersionFields
  <2> QED BY <1>2, <1>3, <2>2, <2>3
<1>6. CASE RowCompleted(k)
  <2>1. PICK w \in Workers :
          worker[w].job = k /\ worker[w].pc = "stages" /\ worker[w].todo = {}
    BY <1>6 DEF RowCompleted
  <2>2. version[k].done = Stages
    BY <1>3, <1>4, <2>1
  <2>3. version'[k].done = version[k].done
    BY <1>3, <1>6, VersionFields DEF RowCompleted
  <2> QED BY <1>2, <2>2, <2>3
<1>7. CASE ~RowCheckpointed(k) /\ ~RowCompleted(k)
  BY <1>1, <1>2, <1>7, VersionEffect
<1> QED BY <1>5, <1>6, <1>7

LEMMA BudgetStep ==
  ASSUME DurableInv, [Next]_vars
  PROVE  FailuresArePermanent' /\ AttemptsWithinBudget'
<1> SUFFICES ASSUME NEW k \in Jobs
             PROVE  /\ job'[k].category # "transient"
                    /\ job'[k].error = "exhausted" => job'[k].status = "failed"
                    /\ job'[k].attempts <= MaxAttempts
                    /\ job'[k].status = "queued" => job'[k].attempts < MaxAttempts
                    /\ job'[k].error = "exhausted" =>
                         job'[k].attempts = MaxAttempts
  BY DEF FailuresArePermanent, AttemptsWithinBudget
<1> USE DEF DurableInv
<1>1. RowStep(k)
  BY RowSteps
<1>2. /\ job[k].category # "transient"
      /\ job[k].error = "exhausted" => job[k].status = "failed"
      /\ job[k].attempts <= MaxAttempts
      /\ job[k].status = "queued" => job[k].attempts < MaxAttempts
      /\ job[k].error = "exhausted" => job[k].attempts = MaxAttempts
  BY DEF FailuresArePermanent, AttemptsWithinBudget
<1>3. /\ job[k] \in JobRow
      /\ job[k].attempts \in Nat
      /\ MaxAttempts \in Nat \ {0}
  BY JobRowTypes, AttemptsAssumption DEF TypeOK
<1>4. CASE RowsKept(k) \/ RowCheckpointed(k)
  BY <1>2, <1>4 DEF RowsKept, RowCheckpointed
<1>5. CASE RowsCreated(k)
  BY <1>3, <1>5, CreatedFields DEF RowsCreated
<1>6. CASE RowTimed(k)
  BY <1>2, <1>3, <1>6, TimingFields DEF RowTimed, SameOutcome
<1>7. CASE RowClaimed(k)
  BY <1>2, <1>3, <1>7, ClaimFields DEF RowClaimed
<1>8. CASE RowFailed(k)
  BY <1>2, <1>3, <1>8, FailFields DEF RowFailed
<1>9. CASE RowCompleted(k)
  BY <1>2, <1>3, <1>9, ReadyFields DEF RowCompleted
<1>10. CASE RowExhausted(k)
  BY <1>2, <1>3, <1>10, FailFields DEF RowExhausted, StaleExhausted
<1>11. CASE RowRequeued(k)
  <2>1. job[k].status \in {"queued", "processing"} /\ job[k].attempts < MaxAttempts
    BY <1>2, <1>3, <1>11 DEF RowRequeued, Recoverable
  <2> QED BY <1>2, <1>3, <1>11, <2>1, RequeueFields DEF RowRequeued
<1> QED BY <1>1, <1>4, <1>5, <1>6, <1>7, <1>8, <1>9, <1>10, <1>11 DEF RowStep

LEMMA DurableInvariant == Spec => []DurableInv
<1> DEFINE Rest == /\ UploadOrder
                   /\ UploadHasOriginal
                   /\ AttemptProgress
                   /\ FailuresArePermanent
                   /\ CheckpointsInOrder
                   /\ ReadyIsComplete
                   /\ AttemptsWithinBudget
<1>1. Init => Rest
  <2> SUFFICES ASSUME Init PROVE Rest
    OBVIOUS
  <2>1. \A w \in Workers : worker[w].job = NoJob /\ worker[w].pc = "idle"
    BY DEF Init, IdleWorker
  <2>2. \A j \in Jobs :
          /\ uploader[j] = "idle"
          /\ job[j] = NoRow
          /\ version[j] = NoVersion
    BY DEF Init
  <2>3. NoVersion.done = {} /\ NoVersion.index = "absent"
    BY DEF NoVersion
  <2>4. UploadOrder /\ UploadHasOriginal
    BY <2>2, CreatedFields DEF UploadOrder, UploadHasOriginal
  <2>5. AttemptProgress
    BY <2>1 DEF AttemptProgress
  <2>6. FailuresArePermanent /\ AttemptsWithinBudget
    BY <2>2, CreatedFields, AttemptsAssumption
    DEF FailuresArePermanent, AttemptsWithinBudget
  <2>7. CheckpointsInOrder /\ ReadyIsComplete
    BY <2>2, <2>3 DEF CheckpointsInOrder, ReadyIsComplete
  <2> QED BY <2>4, <2>5, <2>6, <2>7
<1>2. TypeOK /\ Rest /\ [Next]_vars => Rest'
  BY UploadOrderStep, AttemptProgressStep, CheckpointsStep, BudgetStep
  DEF DurableInv
<1>3. TypeOK /\ Rest => DurableInv
  BY DEF DurableInv
<1> QED BY <1>1, <1>2, <1>3, TypeCorrect, PTL DEF Spec

\* An attempt that resumes from checkpoints never marks a generation ready
\* that lacks the output of a stage, however many attempts, crashes and
\* duplicate deliveries came before.
THEOREM CompleteGenerations == Spec => []ReadyIsComplete
BY DurableInvariant, PTL DEF DurableInv

\* Across attempts and interleaved workers, stages are checkpointed in
\* pipeline order.
THEOREM OrderedCheckpoints == Spec => []CheckpointsInOrder
BY DurableInvariant, PTL DEF DurableInv

\* No job is attempted more often than max_attempts, although the claim does
\* not look at the limit.
THEOREM BoundedAttempts == Spec => []AttemptsWithinBudget
BY DurableInvariant, PTL DEF DurableInv

\* Committed uploads never lose their original to the compensation.
THEOREM OriginalsKept == Spec => []UploadHasOriginal
BY DurableInvariant, PTL DEF DurableInv

\* Only a claim counts an attempt.
THEOREM CountedClaims == Spec => ClaimsAreCounted
<1>1. ASSUME DurableInv, [Next]_vars, NEW k \in Jobs,
             job'[k].attempts # job[k].attempts
      PROVE  /\ job'[k].attempts = job[k].attempts + 1
             /\ job[k].status = "queued"
             /\ job'[k].status = "processing"
  <2> USE DEF DurableInv
  <2>1. RowStep(k) /\ job[k] \in JobRow
    BY <1>1, RowSteps DEF TypeOK
  <2>2. CASE RowClaimed(k)
    BY <2>1, <2>2, ClaimFields DEF RowClaimed
  <2>3. CASE RowsCreated(k)
    <3>1. job[k].status = "absent" /\ UploadStep(k)
      BY <1>1, <2>3, UploadSteps DEF RowsCreated, UploadOrder
    <3>2. job[k].attempts = 0
      BY <1>1, <3>1 DEF DurableInv, UploadOrder
    <3> QED BY <1>1, <2>3, <3>2, CreatedFields DEF RowsCreated
  <2>4. CASE RowsKept(k) \/ RowCheckpointed(k) \/ RowTimed(k)
    BY <1>1, <2>1, <2>4, TimingFields
    DEF RowsKept, RowCheckpointed, RowTimed, SameOutcome
  <2>5. CASE RowFailed(k) \/ RowCompleted(k) \/ RowExhausted(k) \/ RowRequeued(k)
    BY <1>1, <2>1, <2>5, FailFields, ReadyFields, RequeueFields
    DEF RowFailed, RowCompleted, RowExhausted, RowRequeued
  <2> QED BY <2>1, <2>2, <2>3, <2>4, <2>5 DEF RowStep
<1>2. DurableInv /\ [Next]_vars =>
        [\A j \in Jobs : job'[j].attempts # job[j].attempts =>
           /\ job'[j].attempts = job[j].attempts + 1
           /\ job[j].status = "queued"
           /\ job'[j].status = "processing"]_vars
  BY <1>1
<1> QED BY <1>2, DurableInvariant, PTL DEF Spec, ClaimsAreCounted

\* No checkpoint is ever thrown away.
THEOREM KeptCheckpoints == Spec => CheckpointsKept
<1>1. DurableInv /\ [Next]_vars =>
        [\A j \in Jobs : version[j].done \subseteq version'[j].done]_vars
  BY RowSteps, VersionEffect DEF DurableInv
<1> QED BY <1>1, DurableInvariant, PTL DEF Spec, CheckpointsKept

-----------------------------------------------------------------------------
(* Jobs of which no attempt outlasted the stale threshold.  Recovery takes  *)
(* only stale attempts, the threshold passed only while no one was at work  *)
(* on the job, and a claim takes only queued jobs: so an attempt owns its   *)
(* job.                                                                     *)

\* Whether an attempt outlasted the threshold is never forgotten, and only the
\* passing of the threshold for a job at work changes it.
LEMMA OutlastedStep ==
  ASSUME TypeOK, [Next]_vars
  PROVE  \/ outlasted' = outlasted
         \/ \E j \in Jobs : /\ outlasted' = outlasted \union {j}
                            /\ WorkedOn(j)
                            /\ AgeStarted(j)
<1>1. ASSUME NEW j \in Jobs, Upload(j) PROVE outlasted' = outlasted
  BY <1>1 DEF Upload, StoreOriginal, CommitUpload, CompensateUpload,
              PublishUpload, MarkUploadEnqueued, InterruptUpload
<1>2. ASSUME NEW w \in Workers, NEW j \in Jobs, Claim(w, j)
      PROVE  outlasted' = outlasted
  BY <1>2 DEF Claim
<1>3. ASSUME NEW w \in Workers, Work(w) \/ CrashWorker(w)
      PROVE  outlasted' = outlasted
  BY <1>3 DEF Work, ParseDocument, RecognizeEntities, ChunkDocument,
     EmbedChunks, CheckpointStage, Fail, RaiseInStage, Complete,
     AssertGenerationBound, RecordTransientFailure, RecordPermanentFailure,
     CloseSession, CrashWorker
<1>4. CASE Reconcile \/ ReconcileDefer \/ ReconcileInterrupted
  BY <1>4 DEF Reconcile, ReconcileScan, ReconcilePrepare, ReconcilePublish,
     ReconcileMark, ReconcileEnd, ReconcileDefer, ReconcileInterrupted
<1>5. ASSUME NEW j \in Jobs, DeliverScheduled(j) \/ LoseMessage(j)
                             \/ AgeEnqueued(j)
      PROVE  outlasted' = outlasted
  BY <1>5 DEF DeliverScheduled, LoseMessage, AgeEnqueued
<1>6. ASSUME NEW j \in Jobs, AgeStarted(j)
      PROVE  \/ outlasted' = outlasted
             \/ outlasted' = outlasted \union {j} /\ WorkedOn(j)
  BY <1>6 DEF AgeStarted
<1>7. CASE UNCHANGED vars
  BY <1>7 DEF vars
<1> QED BY <1>1, <1>2, <1>3, <1>4, <1>5, <1>6, <1>7 DEF Next

OwnershipInv ==
  /\ DurableInv
  /\ OneOwner
  /\ OwnedIsRecent

\* What a step does to a job that some attempt owns and does not outlast.
LEMMA OwnedRowStep ==
  ASSUME OwnershipInv, [Next]_vars,
         NEW w \in Workers, worker[w].job \in Jobs \ outlasted',
         worker[w].job \notin outlasted
  PROVE  LET k == worker[w].job IN
         \/ /\ job'[k].status = "processing"
            /\ job'[k].startedAt # "stale"
            /\ version'[k].status = version[k].status
            /\ version'[k].index = version[k].index
         \/ worker'[w] = IdleWorker /\ (RowFailed(k) \/ RowCompleted(k))
<1> DEFINE k == worker[w].job
<1> USE DEF OwnershipInv, DurableInv
<1>1. /\ RowStep(k)
      /\ job[k] \in JobRow
      /\ version[k] \in VersionRow
  BY RowSteps DEF TypeOK
<1>2. /\ job[k].status = "processing"
      /\ job[k].startedAt # "stale"
      /\ \A v \in Workers : worker[v].job = k => v = w
  BY ConstantsAssumption DEF OneOwner, OwnedIsRecent
<1>3. CASE RowsKept(k)
  BY <1>2, <1>3 DEF RowsKept
<1>4. ~RowsCreated(k)
  BY <1>2 DEF RowsCreated, UploadOrder
<1>5. CASE RowTimed(k)
  BY <1>1, <1>2, <1>5, TimingFields DEF RowTimed, WorkedOn, SameOutcome
<1>6. ~RowClaimed(k)
  BY <1>2 DEF RowClaimed
<1>7. CASE RowCheckpointed(k)
  BY <1>1, <1>2, <1>7, VersionFields DEF RowCheckpointed
<1>8. CASE RowFailed(k) \/ RowCompleted(k)
  BY <1>2, <1>8 DEF RowFailed, RowCompleted
<1>9. ~RowExhausted(k)
  BY <1>2 DEF RowExhausted, StaleExhausted
<1>10. ~RowRequeued(k)
  BY <1>2 DEF RowRequeued, Recoverable
<1> QED BY <1>1, <1>3, <1>4, <1>5, <1>6, <1>7, <1>8, <1>9, <1>10 DEF RowStep

LEMMA OwnershipStep ==
  ASSUME OwnershipInv, [Next]_vars
  PROVE  OneOwner' /\ OwnedIsRecent'
<1> USE DEF OwnershipInv, DurableInv
<1>0. outlasted \subseteq outlasted'
  BY OutlastedStep
<1>1. IdleWorker.job = NoJob /\ NoJob \notin Jobs
  BY ConstantsAssumption DEF IdleWorker
\* An attempt that goes on keeps its job; a new one took a job nobody owned.
<1>2. ASSUME NEW w \in Workers, worker'[w].job \in Jobs
      PROVE  \/ worker[w].job \in Jobs /\ worker'[w].job = worker[w].job
             \/ \E j \in Jobs : Claimed(w, j) /\ worker'[w].job = j
  <2>1. WorkerStep(w)
    BY WorkerSteps
  <2>2. worker[w].job # NoJob => worker[w].job \in Jobs
    BY BusyWorker, AttemptTypes, <1>1 DEF TypeOK
  <2>3. CASE worker'[w] = worker[w] \/ StagesLeft(w)
    BY <1>2, <2>2, <2>3 DEF StagesLeft
  <2>4. ASSUME NEW s \in Stages, StagePassed(w, s)
        PROVE  worker[w].job \in Jobs /\ worker'[w].job = worker[w].job
    <3>1. worker[w] \in AttemptState
      BY <2>4, BusyWorker DEF StagePassed, AtStage
    <3> QED BY <2>4, <3>1 DEF StagePassed, PassStage, AttemptState
  <2>5. ASSUME NEW j \in Jobs, Claimed(w, j) PROVE worker'[w].job = j
    BY <2>5 DEF Claimed, NewAttempt
  <2> QED BY <1>1, <1>2, <2>1, <2>3, <2>4, <2>5 DEF WorkerStep
<1>3. ASSUME NEW w \in Workers, NEW j \in Jobs \ outlasted, Claimed(w, j)
      PROVE  /\ job[j].status = "queued"
             /\ job'[j].status = "processing"
             /\ job'[j].startedAt = "recent"
             /\ \A v \in Workers : worker[v].job # j
             /\ \A v \in Workers \ {w} : worker'[v] = worker[v]
  <2>1. job[j] \in JobRow /\ job[j].status = "queued"
    BY <1>3 DEF Claimed, Claimable, TypeOK
  <2> QED BY <1>3, <2>1, ClaimFields, ConstantsAssumption DEF Claimed, OneOwner
<1>4. ASSUME NEW w \in Workers, worker'[w].job \in Jobs \ outlasted'
      PROVE  /\ job'[worker'[w].job].status = "processing"
             /\ job'[worker'[w].job].startedAt # "stale"
  <2>1. CASE worker[w].job \in Jobs /\ worker'[w].job = worker[w].job
    BY <1>0, <1>1, <1>4, <2>1, OwnedRowStep
  <2> QED BY <1>0, <1>2, <1>3, <1>4, <2>1
<1>5. ASSUME NEW w \in Workers, NEW v \in Workers,
             worker'[w].job \in Jobs \ outlasted',
             worker'[v].job = worker'[w].job
      PROVE  v = w
  <2>1. CASE worker'[w].job = worker[w].job /\ worker'[v].job = worker[v].job
    BY <1>0, <1>5, <2>1 DEF OneOwner
  <2>2. ASSUME NEW a \in Workers, NEW b \in Workers, a # b,
               NEW j \in Jobs \ outlasted, Claimed(a, j), worker'[a].job = j
        PROVE  worker'[b].job # j
    BY <1>3, <2>2
  <2> QED BY <1>0, <1>2, <1>5, <2>1, <2>2
<1> QED BY <1>4, <1>5 DEF OneOwner, OwnedIsRecent

LEMMA OwnershipInvariant == Spec => []OwnershipInv
<1>1. Init => OneOwner /\ OwnedIsRecent
  BY ConstantsAssumption DEF Init, IdleWorker, OneOwner, OwnedIsRecent
<1>2. DurableInv /\ OneOwner /\ OwnedIsRecent /\ [Next]_vars
      => OneOwner' /\ OwnedIsRecent'
  BY OwnershipStep DEF OwnershipInv
<1>3. DurableInv /\ OneOwner /\ OwnedIsRecent => OwnershipInv
  BY DEF OwnershipInv
<1> QED BY <1>1, <1>2, <1>3, DurableInvariant, PTL DEF Spec

\* As long as no attempt at a job outlasts the threshold, no crash, duplicate
\* message or recovery pass puts two attempts at it.
THEOREM SingleOwner == Spec => []OneOwner
BY OwnershipInvariant, PTL DEF OwnershipInv

LEMMA TerminalRows ==
  ASSUME OwnershipInv, [Next]_vars, NEW k \in Jobs \ outlasted,
         job[k].status \in {"ready", "failed"}
  PROVE  job'[k].status = job[k].status /\ version'[k] = version[k]
<1> USE DEF OwnershipInv, DurableInv
<1>1. RowStep(k) /\ job[k] \in JobRow
  BY RowSteps DEF TypeOK
<1>2. \A w \in Workers : worker[w].job # k
  BY ConstantsAssumption DEF OneOwner
<1>3. CASE RowsKept(k) \/ RowTimed(k)
  BY <1>1, <1>3, TimingFields DEF RowsKept, RowTimed, SameOutcome
<1>4. ~RowsCreated(k) /\ ~RowClaimed(k) /\ ~RowExhausted(k)
  BY DEF RowsCreated, UploadOrder, RowClaimed, RowExhausted, StaleExhausted
<1>5. ~RowCheckpointed(k) /\ ~RowFailed(k) /\ ~RowCompleted(k)
  BY <1>2 DEF RowCheckpointed, RowFailed, RowCompleted
<1>6. ~RowRequeued(k)
  BY DEF RowRequeued, Recoverable, FailuresArePermanent
<1> QED BY <1>1, <1>3, <1>4, <1>5, <1>6 DEF RowStep

\* An upload that is known to be ready or failed stays as it is, unless one of
\* its attempts outlasted the threshold.
THEOREM FinalOutcome == Spec => TerminalIsFinal
<1>1. OwnershipInv /\ [Next]_vars =>
        [\A j \in Jobs \ outlasted : job[j].status \in {"ready", "failed"} =>
           /\ job'[j].status = job[j].status
           /\ version'[j] = version[j]]_vars
  BY TerminalRows
<1> QED BY <1>1, OwnershipInvariant, PTL DEF Spec, TerminalIsFinal

LEMMA StatusesAgreeStep ==
  ASSUME OwnershipInv, StatusesAgree, [Next]_vars
  PROVE  StatusesAgree'
<1> SUFFICES ASSUME NEW k \in Jobs
             PROVE  /\ job'[k].status = "ready" <=> version'[k].status = "ready"
                    /\ job'[k].status = "failed" <=> version'[k].status = "failed"
                    /\ job'[k].status = "ready" => version'[k].index = "ready"
                    /\ version'[k].index = "ready" =>
                         job'[k].status = "ready" \/ k \in outlasted'
  BY DEF StatusesAgree
<1> USE DEF OwnershipInv, DurableInv
<1>1. /\ RowStep(k)
      /\ job[k] \in JobRow
      /\ version[k] \in VersionRow
  BY RowSteps DEF TypeOK
<1>2. /\ job[k].status = "ready" <=> version[k].status = "ready"
      /\ job[k].status = "failed" <=> version[k].status = "failed"
      /\ job[k].status = "ready" => version[k].index = "ready"
      /\ version[k].index = "ready" => job[k].status = "ready" \/ k \in outlasted'
  BY OutlastedStep DEF StatusesAgree
<1>3. \A w \in Workers : worker[w].job = k =>
        job[k].status = "processing" \/ k \in outlasted'
  BY OutlastedStep DEF OneOwner
<1>4. CASE RowsKept(k)
  BY <1>2, <1>4 DEF RowsKept
<1>5. CASE RowsCreated(k)
  BY <1>5, CreatedFields DEF RowsCreated, CreateVersion
<1>6. CASE RowTimed(k)
  BY <1>1, <1>2, <1>6, TimingFields DEF RowTimed, SameOutcome
<1>7. CASE RowClaimed(k)
  BY <1>1, <1>2, <1>7, ClaimFields, VersionFields DEF RowClaimed
<1>8. CASE RowCheckpointed(k)
  BY <1>1, <1>2, <1>8, VersionFields DEF RowCheckpointed
<1>9. CASE RowFailed(k)
  BY <1>1, <1>2, <1>3, <1>9, FailFields, VersionFields DEF RowFailed
<1>10. CASE RowCompleted(k)
  BY <1>1, <1>2, <1>3, <1>10, ReadyFields, VersionFields DEF RowCompleted
<1>11. CASE RowExhausted(k)
  BY <1>1, <1>2, <1>11, FailFields, VersionFields DEF RowExhausted, StaleExhausted
<1>12. CASE RowRequeued(k)
  <2>1. job[k].status \in {"queued", "processing"}
    BY <1>12 DEF RowRequeued, Recoverable, FailuresArePermanent
  <2> QED BY <1>1, <1>2, <1>12, <2>1, RequeueFields DEF RowRequeued
<1> QED
  BY <1>1, <1>4, <1>5, <1>6, <1>7, <1>8, <1>9, <1>10, <1>11, <1>12 DEF RowStep

\* Job and version are ready together, with their index generation, and fail
\* together, in every committed state.
THEOREM AgreeingStatuses == Spec => []StatusesAgree
<1>1. Init => StatusesAgree
  BY CreatedFields DEF Init, StatusesAgree, NoVersion
<1>2. OwnershipInv /\ StatusesAgree /\ [Next]_vars => StatusesAgree'
  BY StatusesAgreeStep
<1> QED BY <1>1, <1>2, OwnershipInvariant, PTL DEF Spec

-----------------------------------------------------------------------------
(* The pipeline implements the life cycle of a job. *)

RefinementInv == OwnershipInv /\ StatusesAgree

\* Only a reconciler's scan touches several rows at once.
LEMMA OneRowAtATime ==
  ASSUME TypeOK, [Next]_vars
  PROVE  \/ job' = job
         \/ \E k \in Jobs : \A j \in Jobs \ {k} : job'[j] = job[j]
         \/ ReconcileScan
<1> USE DEF TypeOK
<1>1. ASSUME NEW j \in Jobs, Upload(j) \/ AgeStarted(j) \/ AgeEnqueued(j)
                             \/ ReconcilePrepare(j)
      PROVE  \A i \in Jobs \ {j} : job'[i] = job[i]
  BY <1>1 DEF Upload, StoreOriginal, CommitUpload, CompensateUpload,
     PublishUpload, MarkUploadEnqueued, InterruptUpload, AgeStarted,
     AgeEnqueued, ReconcilePrepare
<1>2. ASSUME NEW w \in Workers, NEW j \in Jobs, Claim(w, j)
      PROVE  \A i \in Jobs \ {j} : job'[i] = job[i]
  BY <1>2 DEF Claim
<1>3. ASSUME NEW w \in Workers, Work(w)
      PROVE  worker[w].job \in Jobs
             /\ \A i \in Jobs \ {worker[w].job} : job'[i] = job[i]
  <2>1. worker[w].pc # "idle"
    BY <1>3 DEF Work, ParseDocument, RecognizeEntities, ChunkDocument,
                EmbedChunks, CheckpointStage, AtStage, Fail, RaiseInStage,
                Complete, AssertGenerationBound, RecordTransientFailure,
                RecordPermanentFailure, CloseSession
  <2>2. worker[w].job \in Jobs
    BY <2>1, BusyWorker
  <2> QED
    BY <1>3, <2>2 DEF Work, ParseDocument, RecognizeEntities, ChunkDocument,
       EmbedChunks, CheckpointStage, AtStage, Fail, RaiseInStage, Complete,
       AssertGenerationBound, RecordTransientFailure, RecordPermanentFailure,
       CloseSession
<1>4. CASE ReconcileMark
  <2>1. CASE reconciler.job \in Jobs
    BY <1>4, <2>1 DEF ReconcileMark
  <2>2. CASE reconciler.job \notin Jobs
    BY <1>4, <2>2 DEF ReconcileMark
  <2> QED BY <2>1, <2>2
<1>5. CASE ReconcilePublish \/ ReconcileEnd \/ ReconcileDefer
           \/ ReconcileInterrupted \/ UNCHANGED vars
  BY <1>5 DEF ReconcilePublish, ReconcileEnd, ReconcileDefer,
              ReconcileInterrupted, vars
<1>6. ASSUME NEW w \in Workers, CrashWorker(w) PROVE job' = job
  BY <1>6 DEF CrashWorker
<1>7. ASSUME NEW j \in Jobs, DeliverScheduled(j) \/ LoseMessage(j)
      PROVE  job' = job
  BY <1>7 DEF DeliverScheduled, LoseMessage
<1> QED
  BY <1>1, <1>2, <1>3, <1>4, <1>5, <1>6, <1>7 DEF Next, Reconcile

\* In terms of the abstract variables, activatable means ready.
LEMMA ActivatableIsReady ==
  ASSUME StatusesAgree
  PROVE  Activatable = {j \in Jobs : job[j].status = "ready"}
BY DEF StatusesAgree, Activatable

\* A step that changes one row is a step of the life cycle of its job.
LEMMA OneRowRefines ==
  ASSUME RefinementInv, StatusesAgree', [Next]_vars, outlasted' = outlasted,
         NEW k \in Jobs, \A j \in Jobs \ {k} : job'[j] = job[j]
  PROVE  [Lifecycle!Next]_(Lifecycle!vars)
<1> DEFINE status == [j \in Jobs |-> job[j].status]
           attempts == [j \in Jobs |-> job[j].attempts]
<1> USE DEF RefinementInv, OwnershipInv, DurableInv
<1>1. /\ Activatable = {j \in Jobs : job[j].status = "ready"}
      /\ Activatable' = {j \in Jobs : job'[j].status = "ready"}
  BY ActivatableIsReady DEF StatusesAgree, Activatable
<1>2. RowStep(k) /\ job[k] \in JobRow
  BY RowSteps DEF TypeOK
<1>3. \A w \in Workers : worker[w].job = k =>
        job[k].status = "processing" \/ (k \in outlasted /\ job[k].status # "absent")
  BY ConstantsAssumption DEF OneOwner, AttemptProgress
<1>4. ASSUME job'[k].status = job[k].status, job'[k].attempts = job[k].attempts
      PROVE  UNCHANGED Lifecycle!vars
  BY <1>1, <1>4 DEF Lifecycle!vars
<1>5. ASSUME \/ job[k].status = "processing"
             \/ k \in outlasted /\ job[k].status # "absent",
             job'[k].status = "failed", job'[k].attempts = job[k].attempts
      PROVE  Lifecycle!GiveUp({k})
  BY <1>1, <1>5 DEF Lifecycle!GiveUp, Lifecycle!Attempted
<1>6. CASE RowsKept(k) \/ RowCheckpointed(k)
  BY <1>4, <1>6 DEF RowsKept, RowCheckpointed
<1>7. CASE RowTimed(k)
  BY <1>2, <1>4, <1>7, TimingFields DEF RowTimed, SameOutcome
<1>8. CASE RowsCreated(k)
  <2>1. job[k].status = "absent" /\ job[k].attempts = 0
    BY <1>8 DEF RowsCreated, UploadOrder
  <2>2. job'[k].status = "queued" /\ job'[k].attempts = 0
    BY <1>8, CreatedFields DEF RowsCreated
  <2>3. Lifecycle!Submit(k)
    BY <1>1, <2>1, <2>2 DEF Lifecycle!Submit
  <2> QED BY <2>3 DEF Lifecycle!Next
<1>9. CASE RowClaimed(k)
  <2>1. /\ job[k].status = "queued"
        /\ job'[k].status = "processing"
        /\ job'[k].attempts = job[k].attempts + 1
        /\ job[k].attempts < MaxAttempts
    BY <1>2, <1>9, ClaimFields DEF RowClaimed, AttemptsWithinBudget
  <2>2. Lifecycle!Attempt(k)
    BY <1>1, <2>1 DEF Lifecycle!Attempt
  <2> QED BY <2>2 DEF Lifecycle!Next
<1>10. CASE RowFailed(k) \/ RowExhausted(k)
  <2>1. job[k].status = "processing" \/ (k \in outlasted /\ job[k].status # "absent")
    BY <1>3, <1>10 DEF RowFailed, RowExhausted, StaleExhausted
  <2>2. job'[k].status = "failed" /\ job'[k].attempts = job[k].attempts
    BY <1>2, <1>10, FailFields DEF RowFailed, RowExhausted
  <2> QED BY <1>5, <2>1, <2>2 DEF Lifecycle!Next
<1>11. CASE RowCompleted(k)
  <2>1. job[k].status = "processing" \/ (k \in outlasted /\ job[k].status # "absent")
    BY <1>3, <1>11 DEF RowCompleted
  <2>2. job'[k].status = "ready" /\ job'[k].attempts = job[k].attempts
    BY <1>2, <1>11, ReadyFields DEF RowCompleted
  <2>3. Lifecycle!Succeed(k)
    BY <1>1, <2>1, <2>2 DEF Lifecycle!Succeed, Lifecycle!Attempted
  <2> QED BY <2>3 DEF Lifecycle!Next
<1>12. CASE RowRequeued(k)
  <2>1. job'[k].status = "queued" /\ job'[k].attempts = job[k].attempts
    BY <1>2, <1>12, RequeueFields DEF RowRequeued
  <2>2. CASE job[k].status = "queued"
    BY <1>4, <2>1, <2>2
  <2>3. CASE job[k].status # "queued"
    <3>1. job[k].status = "processing" /\ job[k].attempts < MaxAttempts
      BY <1>12, <2>3 DEF RowRequeued, Recoverable, FailuresArePermanent
    <3>2. Lifecycle!Requeue(k)
      BY <1>1, <2>1, <3>1 DEF Lifecycle!Requeue
    <3> QED BY <3>2 DEF Lifecycle!Next
  <2> QED BY <2>2, <2>3
<1> QED
  BY <1>2, <1>6, <1>7, <1>8, <1>9, <1>10, <1>11, <1>12 DEF RowStep

\* A scan gives up on every exhausted stale job.
LEMMA ScanRefines ==
  ASSUME RefinementInv, StatusesAgree', ReconcileScan
  PROVE  [Lifecycle!Next]_(Lifecycle!vars)
<1> DEFINE exhausted == {j \in Jobs : StaleExhausted(job[j])}
<1> USE DEF RefinementInv, OwnershipInv, DurableInv
<1>1. /\ Activatable = {j \in Jobs : job[j].status = "ready"}
      /\ Activatable' = {j \in Jobs : job'[j].status = "ready"}
  BY ActivatableIsReady DEF StatusesAgree, Activatable
<1>2. ASSUME NEW j \in Jobs
      PROVE  /\ j \in exhausted => job[j].status = "processing"
             /\ job'[j].status = IF j \in exhausted THEN "failed" ELSE job[j].status
             /\ job'[j].attempts = job[j].attempts
  BY FailFields DEF ReconcileScan, TypeOK, StaleExhausted
<1>3. Activatable' = Activatable \ exhausted /\ outlasted' = outlasted
  BY <1>1, <1>2 DEF ReconcileScan
<1>4. PICK failed \in SUBSET Jobs : failed = exhausted
  OBVIOUS
<1>5. Lifecycle!GiveUp(failed)
  BY <1>2, <1>3, <1>4 DEF Lifecycle!GiveUp, Lifecycle!Attempted
<1> QED BY <1>5 DEF Lifecycle!Next

\* An attempt outlasts the threshold while its job is in processing.
LEMMA OutlastRefines ==
  ASSUME RefinementInv, StatusesAgree', [Next]_vars, outlasted' # outlasted
  PROVE  [Lifecycle!Next]_(Lifecycle!vars)
<1> USE DEF RefinementInv, OwnershipInv, DurableInv
<1>1. PICK j \in Jobs :
        outlasted' = outlasted \union {j} /\ WorkedOn(j) /\ AgeStarted(j)
  BY OutlastedStep
<1>2. job[j].status = "processing"
  BY <1>1 DEF WorkedOn, OneOwner
<1>3. ASSUME NEW i \in Jobs
      PROVE  job'[i].status = job[i].status /\ job'[i].attempts = job[i].attempts
  BY <1>1, TimingFields DEF AgeStarted, SameOutcome, TypeOK
<1>4. Activatable' = Activatable
  BY <1>3, ActivatableIsReady DEF StatusesAgree, Activatable
<1>5. Lifecycle!Outlast(j)
  BY <1>1, <1>2, <1>3, <1>4 DEF Lifecycle!Outlast
<1> QED BY <1>5 DEF Lifecycle!Next

\* Seen through GET /jobs/{job_id} and retrieval, the whole pipeline with its
\* crashes, duplicates and recovery passes behaves as JobLifecycle.
THEOREM Implementation == Spec => LifecycleSpec
<1>1. Init => Lifecycle!Init
  BY CreatedFields DEF Init, Lifecycle!Init, Activatable, NoVersion
<1>2. RefinementInv /\ StatusesAgree' /\ [Next]_vars
      => [Lifecycle!Next]_(Lifecycle!vars)
  <2> SUFFICES ASSUME RefinementInv, StatusesAgree', [Next]_vars
               PROVE  [Lifecycle!Next]_(Lifecycle!vars)
    OBVIOUS
  <2>1. CASE job' = job /\ outlasted' = outlasted
    BY <2>1, ActivatableIsReady
    DEF RefinementInv, StatusesAgree, Activatable, Lifecycle!vars
  <2> QED
    BY <2>1, OneRowAtATime, OneRowRefines, ScanRefines, OutlastRefines
    DEF RefinementInv, OwnershipInv, DurableInv
<1>3. Spec => []RefinementInv
  BY OwnershipInvariant, AgreeingStatuses, PTL DEF RefinementInv
<1>4. RefinementInv => StatusesAgree
  BY DEF RefinementInv
<1> QED
  BY <1>1, <1>2, <1>3, <1>4, PTL DEF Spec, LifecycleSpec, Lifecycle!Spec

-----------------------------------------------------------------------------
(* What EventuallySettled rests on, short of fairness: no job drops out of  *)
(* everyone's sight, and no attempt goes on for ever.                       *)

\* A job that is neither ready nor failed is one the next pass recovers or
\* fails, or one whose threshold has still to pass.
Accounted(row) ==
  \/ Recoverable(row)
  \/ StaleExhausted(row)
  \/ row.status = "queued" /\ row.enqueuedAt = "recent"
  \/ row.status = "processing" /\ row.startedAt = "recent"

\* The steps an attempt has left at most.
WorkLeft(ws) ==
  CASE ws.pc = "idle"                 -> 0
    [] ws.pc = "closing"              -> 1
    [] ws.pc \in {"raised", "refused"} -> 2
    [] ws.pc = "stages"               -> 3 + Cardinality(ws.todo)

StartedInv ==
  \A j \in Jobs : job[j].status = "processing" => job[j].startedAt # "null"

LEMMA StartedStep ==
  ASSUME DurableInv, StartedInv, [Next]_vars
  PROVE  StartedInv'
<1> SUFFICES ASSUME NEW k \in Jobs, job'[k].status = "processing"
             PROVE  job'[k].startedAt # "null"
  BY DEF StartedInv
<1>1. RowStep(k) /\ job[k] \in JobRow
  BY RowSteps DEF DurableInv, TypeOK
<1>2. job[k].status = "processing" => job[k].startedAt # "null"
  BY DEF StartedInv
<1>3. CASE RowsKept(k) \/ RowCheckpointed(k)
  BY <1>2, <1>3 DEF RowsKept, RowCheckpointed
<1>4. CASE RowTimed(k)
  <2>1. StartedBeforeCutoff(job[k]).startedAt = "stale"
    BY <1>1 DEF JobRow, StartedBeforeCutoff
  <2> QED BY <1>1, <1>2, <1>4, <2>1, TimingFields DEF RowTimed, SameOutcome
<1>5. CASE RowClaimed(k)
  BY <1>1, <1>5, ClaimFields DEF RowClaimed
<1>6. CASE RowsCreated(k) \/ RowFailed(k) \/ RowCompleted(k) \/ RowExhausted(k)
           \/ RowRequeued(k)
  <2>1. job'[k].status # "processing"
    BY <1>1, <1>6, CreatedFields, FailFields, ReadyFields, RequeueFields
    DEF RowsCreated, RowFailed, RowCompleted, RowExhausted, RowRequeued
  <2> QED BY <2>1
<1> QED BY <1>1, <1>3, <1>4, <1>5, <1>6 DEF RowStep

\* A worker that is not idle has at most seven steps to take.
LEMMA WorkLeftType ==
  ASSUME NEW ws \in AttemptState \union {IdleWorker}
  PROVE  /\ WorkLeft(ws) \in 0..7
         /\ ws.pc = "idle" <=> WorkLeft(ws) = 0
         /\ ws.pc = "stages" =>
              /\ IsFiniteSet(ws.todo)
              /\ Cardinality(ws.todo) \in 0..4
<1>2. IsFiniteSet(Stages) /\ Cardinality(Stages) <= 4
  <2>1. PICK s : s = {"parse", "ner", "chunk"}
    OBVIOUS
  <2>2. IsFiniteSet({}) /\ Cardinality({}) = 0
    BY FS_EmptySet
  <2>3. IsFiniteSet({"parse"}) /\ Cardinality({"parse"}) = 1
    BY FS_Singleton
  <2>4. IsFiniteSet({"parse", "ner"}) /\ Cardinality({"parse", "ner"}) \in 0..2
    <3>1. {"parse", "ner"} = {"parse"} \union {"ner"}
      OBVIOUS
    <3> QED BY <2>3, <3>1, FS_AddElement
  <2>5. IsFiniteSet(s) /\ Cardinality(s) \in 0..3
    <3>1. s = {"parse", "ner"} \union {"chunk"}
      BY <2>1
    <3> QED BY <2>4, <3>1, FS_AddElement
  <2>6. Stages = s \union {"embed"}
    BY <2>1 DEF Stages
  <2> QED BY <2>5, <2>6, FS_AddElement
<1>3. CASE ws = IdleWorker
  BY <1>3 DEF IdleWorker, WorkLeft
<1>4. CASE ws \in AttemptState
  <2>1. /\ ws.todo \subseteq Stages
        /\ ws.pc \in {"stages", "refused", "raised", "closing"}
    BY <1>4 DEF AttemptState
  <2>2. /\ IsFiniteSet(ws.todo)
        /\ Cardinality(ws.todo) <= Cardinality(Stages)
    BY <1>2, <2>1, FS_Subset
  <2>3. Cardinality(ws.todo) \in 0..4
    BY <1>2, <2>2, FS_CardinalityType
  <2> QED BY <2>1, <2>2, <2>3 DEF WorkLeft
<1> QED BY <1>3, <1>4

LEMMA WorkShrinks ==
  ASSUME TypeOK, NEW w \in Workers, Work(w)
  PROVE  /\ WorkLeft(worker'[w]) < WorkLeft(worker[w])
         /\ \A v \in Workers \ {w} : worker'[v] = worker[v]
<1>1. worker[w] \in AttemptState \union {IdleWorker} /\ WorkLeft(worker[w]) \in 0..7
  BY WorkLeftType DEF TypeOK
<1>2. ASSUME NEW s \in Stages, CheckpointStage(w, s)
      PROVE  WorkLeft(worker'[w]) < WorkLeft(worker[w])
  <2>1. /\ worker[w].pc = "stages" /\ s \in worker[w].todo
        /\ worker'[w] = PassStage(worker[w], s)
        /\ worker[w] \in AttemptState
    BY <1>2, BusyWorker DEF CheckpointStage, AtStage, TypeOK
  <2>2. worker'[w].pc = "stages" /\ worker'[w].todo = worker[w].todo \ {s}
    BY <2>1 DEF AttemptState, PassStage
  <2>3. PICK n \in Nat : n = Cardinality(worker[w].todo)
    BY <1>1, <2>1, WorkLeftType
  <2>4. Cardinality(worker[w].todo \ {s}) = n - 1
    BY <1>1, <2>1, <2>3, WorkLeftType, FS_RemoveElement
  <2> QED BY <2>1, <2>2, <2>3, <2>4 DEF WorkLeft
<1>3. CASE ParseDocument(w) \/ RecognizeEntities(w) \/ ChunkDocument(w)
           \/ EmbedChunks(w)
  <2>1. \A v \in Workers \ {w} : worker'[v] = worker[v]
    BY <1>3 DEF ParseDocument, RecognizeEntities, ChunkDocument, EmbedChunks,
                CheckpointStage, TypeOK
  <2> QED BY <1>2, <1>3, <2>1 DEF ParseDocument, RecognizeEntities, ChunkDocument,
               EmbedChunks, Stages
<1>4. CASE Fail(w) \/ Complete(w) \/ CloseSession(w)
  <2>1. worker[w].pc # "idle" /\ worker'[w] = IdleWorker
        /\ \A v \in Workers \ {w} : worker'[v] = worker[v]
    BY <1>4 DEF Fail, Complete, CloseSession, AtStage, TypeOK
  <2>2. WorkLeft(IdleWorker) = 0
    BY DEF WorkLeft, IdleWorker
  <2> QED BY <1>1, <2>1, <2>2, WorkLeftType
<1>5. CASE RaiseInStage(w) \/ AssertGenerationBound(w)
  <2>1. /\ worker[w].pc = "stages" /\ worker'[w] = Raise(worker[w])
        /\ \A v \in Workers \ {w} : worker'[v] = worker[v]
    BY <1>5 DEF RaiseInStage, AssertGenerationBound, TypeOK
  <2>2. worker'[w].pc = "raised"
    BY <2>1, BusyWorker DEF AttemptState, Raise
  <2>3. WorkLeft(worker'[w]) = 2 /\ WorkLeft(worker[w]) > 2
    BY <1>1, <2>1, <2>2, WorkLeftType DEF WorkLeft
  <2> QED BY <2>1, <2>3
<1>6. CASE RecordTransientFailure(w) \/ RecordPermanentFailure(w)
  <2>1. /\ worker[w].pc \in {"raised", "refused"}
        /\ \E row : worker'[w] = LeaveUnsaved(worker[w], row)
        /\ \A v \in Workers \ {w} : worker'[v] = worker[v]
    BY <1>6 DEF RecordTransientFailure, RecordPermanentFailure, TypeOK
  <2>2. worker'[w].pc = "closing"
    BY <2>1, BusyWorker DEF AttemptState, LeaveUnsaved
  <2> QED BY <2>1, <2>2 DEF WorkLeft
<1> QED BY <1>3, <1>4, <1>5, <1>6 DEF Work

\* An unsettled job is never out of the reconciler's sight for good, whatever
\* was lost or died; and every step of a worker brings its attempt nearer to
\* its end, seven steps away at most, which no step but another claim puts off.
\* BoundedAttempts bounds the claims: what is left of EventuallySettled is that
\* the processes which may step do.
THEOREM UnsettledJobsAreAccounted ==
  Spec => /\ [](/\ \A j \in Jobs : job[j].status \in {"queued", "processing"} =>
                     Accounted(job[j])
                /\ \A w \in Workers : WorkLeft(worker[w]) \in 0..7)
          /\ [][\A w \in Workers :
                  /\ Work(w) => WorkLeft(worker'[w]) < WorkLeft(worker[w])
                  /\ WorkLeft(worker'[w]) <= WorkLeft(worker[w])
                       \/ \E j \in Jobs : Claim(w, j)]_vars
<1>1. Init => StartedInv
  BY CreatedFields DEF Init, StartedInv
<1>2. DurableInv /\ StartedInv /\ [Next]_vars => StartedInv'
  BY StartedStep
<1>3. DurableInv /\ StartedInv =>
        /\ \A j \in Jobs : job[j].status \in {"queued", "processing"} =>
             Accounted(job[j])
        /\ \A w \in Workers : WorkLeft(worker[w]) \in 0..7
  <2> SUFFICES ASSUME DurableInv, StartedInv
               PROVE  /\ \A j \in Jobs : job[j].status \in {"queued", "processing"} =>
                           Accounted(job[j])
                      /\ \A w \in Workers : WorkLeft(worker[w]) \in 0..7
    OBVIOUS
  <2>1. ASSUME NEW j \in Jobs, job[j].status \in {"queued", "processing"}
        PROVE  Accounted(job[j])
    <3>1. /\ job[j].enqueuedAt \in Ages /\ job[j].startedAt \in Ages
          /\ job[j].attempts \in Nat /\ MaxAttempts \in Nat
      BY AttemptsAssumption DEF DurableInv, TypeOK, JobRow
    <3>2. job[j].attempts < MaxAttempts \/ job[j].attempts >= MaxAttempts
      BY <3>1
    <3>3. job[j].status = "processing" => job[j].startedAt # "null"
      BY DEF StartedInv
    <3> QED BY <2>1, <3>1, <3>2, <3>3 DEF Accounted, Recoverable, StaleExhausted, Ages
  <2> QED BY <2>1, WorkLeftType DEF DurableInv, TypeOK
<1>4. ASSUME TypeOK, TypeOK', Next, NEW w \in Workers
      PROVE  /\ Work(w) => WorkLeft(worker'[w]) < WorkLeft(worker[w])
             /\ WorkLeft(worker'[w]) <= WorkLeft(worker[w])
                  \/ \E j \in Jobs : Claim(w, j)
  <2>1. WorkLeft(worker[w]) \in 0..7 /\ WorkLeft(worker'[w]) \in 0..7
    BY <1>4, WorkLeftType DEF TypeOK
  <2>2. WorkLeft(IdleWorker) = 0
    BY DEF WorkLeft, IdleWorker
  <2>3. Work(w) => WorkLeft(worker'[w]) < WorkLeft(worker[w])
    BY <1>4, WorkShrinks
  <2>4. CASE worker'[w] \in {worker[w], IdleWorker}
    BY <2>1, <2>2, <2>3, <2>4
  <2>5. ASSUME NEW v \in Workers, NEW j \in Jobs, Claim(v, j)
        PROVE  v = w \/ worker'[w] = worker[w]
    BY <1>4, <2>5 DEF Claim, TypeOK
  <2>6. ASSUME NEW v \in Workers, Work(v) PROVE v = w \/ worker'[w] = worker[w]
    BY <1>4, <2>6, WorkShrinks
  <2>7. ASSUME NEW v \in Workers, CrashWorker(v)
        PROVE  worker'[w] \in {worker[w], IdleWorker}
    BY <1>4, <2>7 DEF CrashWorker, TypeOK
  <2>8. ASSUME \/ \E j \in Jobs : Upload(j) \/ DeliverScheduled(j) \/ LoseMessage(j)
                                  \/ AgeStarted(j) \/ AgeEnqueued(j)
               \/ Reconcile \/ ReconcileDefer \/ ReconcileInterrupted
        PROVE  worker' = worker
    BY <2>8 DEF Upload, StoreOriginal, CommitUpload, CompensateUpload, PublishUpload,
         MarkUploadEnqueued, InterruptUpload, DeliverScheduled, LoseMessage, AgeStarted,
         AgeEnqueued, Reconcile, ReconcileScan, ReconcilePrepare, ReconcilePublish,
         ReconcileMark, ReconcileEnd, ReconcileDefer, ReconcileInterrupted
  <2>9. CASE Work(w)
    BY <2>1, <2>3, <2>9
  <2> QED BY <1>4, <2>3, <2>4, <2>5, <2>6, <2>7, <2>8, <2>9 DEF Next
<1>5. DurableInv /\ DurableInv' /\ [Next]_vars =>
        [\A w \in Workers :
           /\ Work(w) => WorkLeft(worker'[w]) < WorkLeft(worker[w])
           /\ WorkLeft(worker'[w]) <= WorkLeft(worker[w])
                \/ \E j \in Jobs : Claim(w, j)]_vars
  BY <1>4 DEF DurableInv
<1> QED BY <1>1, <1>2, <1>3, <1>5, DurableInvariant, PTL DEF Spec

=============================================================================
