------------------------- MODULE IngestionPipeline -------------------------
(***************************************************************************)
(* The durable ingestion pipeline: an upload request commits a document    *)
(* version, a building index generation and a queued job in one PostgreSQL *)
(* transaction and publishes the job's id in Redis; an RQ worker claims    *)
(* the job and takes it through four checkpointed stages; a periodic       *)
(* reconciler recovers what a crash, a lost message or a failed attempt    *)
(* left behind.  Each upload creates one version, one generation and one   *)
(* job (application/ingestion/service.py), so all three are indexed by     *)
(* the job.                                                                *)
(*                                                                         *)
(* The reconciler's stale cutoff is fixed when a pass begins; here it is   *)
(* judged at each step of the pass, and candidates are taken in any order, *)
(* both of which only add behaviours.                                      *)
(***************************************************************************)
EXTENDS IngestionRows

CONSTANTS
  Jobs,              \* uploads; each makes one job, version and generation
  Workers,           \* RQ worker processes
  NoJob,             \* the job of an idle worker and of an idle reconciler
  MaxCopies,         \* bound: copies of one id in the Redis list
  MaxFaults          \* bound: lost messages, queue outages, reconciler deaths

ASSUME ConstantsAssumption ==
  /\ NoJob \notin Jobs
  /\ MaxCopies \in Nat \ {0}
  /\ MaxFaults \in Nat

VARIABLES
  uploader,    \* progress of the request that uploads each job's document
  originals,   \* jobs whose original file is in object storage
  job,         \* committed processing_jobs rows
  version,     \* committed document_versions rows with their checkpoints
  queue,       \* copies of each job id in the RQ ingestion queue
  scheduled,   \* job ids in RQ's scheduled registry
  worker,      \* the worker processes
  reconciler,  \* the reconciler process
  faults,      \* environment faults so far
  outlasted    \* history: jobs with an attempt that outlived the threshold

vars == <<uploader, originals, job, version, queue, scheduled, worker,
          reconciler, faults, outlasted>>

-----------------------------------------------------------------------------
(* Process states. *)

IdleWorker == [pc |-> "idle", job |-> NoJob, todo |-> {}, bound |-> FALSE,
               unsaved |-> {}]

AttemptState ==
  [pc      : {"stages", "refused", "raised", "closing"},
   job     : Jobs,
   todo    : SUBSET Stages,   \* stages the attempt has still to run
   bound   : BOOLEAN,         \* is the local variable ig_id assigned?
   unsaved : SUBSET JobRow]   \* row written in the session's open transaction

\* The local state of an attempt after it claimed j, read its checkpoints and
\* resolved the ingestion profile, or found that its release cannot.
NewAttempt(j, row, pc) ==
  [pc      |-> pc,
   job     |-> j,
   todo    |-> Remaining(row),
   bound   |-> FALSE,
   unsaved |-> {}]

\* The stages after NER assign ig_id on their way.
PassStage(ws, s) ==
  [ws EXCEPT !.todo = @ \ {s}, !.bound = @ \/ s \in {"chunk", "embed"}]

\* The exception leaves the frame in which the stages and ig_id are known.
Raise(ws) == [ws EXCEPT !.pc = "raised", !.todo = {}, !.bound = FALSE]

\* The attempt wrote a row outside any transaction block and returns.
LeaveUnsaved(ws, row) ==
  [ws EXCEPT !.pc = "closing", !.todo = {}, !.unsaved = {WrittenColumns(row)}]

IdleReconciler == [pc |-> "idle", job |-> NoJob, candidates |-> {}]

TypeOK ==
  /\ uploader \in [Jobs -> {"idle", "stored", "committed", "published", "over"}]
  /\ originals \subseteq Jobs
  /\ job \in [Jobs -> JobRow]
  /\ version \in [Jobs -> VersionRow]
  /\ queue \in [Jobs -> 0..MaxCopies]
  /\ scheduled \subseteq Jobs
  /\ worker \in [Workers -> AttemptState \union {IdleWorker}]
  /\ reconciler \in [pc : {"idle", "pass", "publish", "mark"},
                     job : Jobs \union {NoJob},
                     candidates : SUBSET Jobs]
  /\ faults \in 0..MaxFaults
  /\ outlasted \subseteq Jobs

Init ==
  /\ uploader = [j \in Jobs |-> "idle"]
  /\ originals = {}
  /\ job = [j \in Jobs |-> NoRow]
  /\ version = [j \in Jobs |-> NoVersion]
  /\ queue = [j \in Jobs |-> 0]
  /\ scheduled = {}
  /\ worker = [w \in Workers |-> IdleWorker]
  /\ reconciler = IdleReconciler
  /\ faults = 0
  /\ outlasted = {}

-----------------------------------------------------------------------------
(* One more copy of the id in the Redis list, up to the bound. *)
Published(j) == [queue EXCEPT ![j] = IF @ < MaxCopies THEN @ + 1 ELSE @]

-----------------------------------------------------------------------------
(* The upload request. *)

\* The original goes to object storage before anything is in the database.
StoreOriginal(j) ==
  /\ uploader[j] = "idle"
  /\ originals' = originals \union {j}
  /\ uploader' = [uploader EXCEPT ![j] = "stored"]
  /\ UNCHANGED <<job, version, queue, scheduled, worker, reconciler, faults,
                 outlasted>>

\* One transaction creates the version, its building generation and the job.
CommitUpload(j) ==
  /\ uploader[j] = "stored"
  /\ job' = [job EXCEPT ![j] = CreateJob]
  /\ version' = [version EXCEPT ![j] = CreateVersion]
  /\ uploader' = [uploader EXCEPT ![j] = "committed"]
  /\ UNCHANGED <<originals, queue, scheduled, worker, reconciler, faults,
                 outlasted>>

\* The transaction raised and was rolled back: the original is deleted.
CompensateUpload(j) ==
  /\ uploader[j] = "stored"
  /\ originals' = originals \ {j}
  /\ uploader' = [uploader EXCEPT ![j] = "over"]
  /\ UNCHANGED <<job, version, queue, scheduled, worker, reconciler, faults,
                 outlasted>>

PublishUpload(j) ==
  /\ uploader[j] = "committed"
  /\ queue' = Published(j)
  /\ uploader' = [uploader EXCEPT ![j] = "published"]
  /\ UNCHANGED <<originals, job, version, scheduled, worker, reconciler,
                 faults, outlasted>>

MarkUploadEnqueued(j) ==
  /\ uploader[j] = "published"
  /\ job' = [job EXCEPT ![j] = MarkEnqueued(@)]
  /\ uploader' = [uploader EXCEPT ![j] = "over"]
  /\ UNCHANGED <<originals, version, queue, scheduled, worker, reconciler,
                 faults, outlasted>>

\* Publishing inside the block whose failure deletes the original.
InterruptUploadMistake(j) ==
  /\ uploader[j] \in {"stored", "committed", "published"}
  /\ uploader' = [uploader EXCEPT ![j] = "over"]
  /\ originals' = originals \ {j}
  /\ UNCHANGED <<job, version, queue, scheduled, worker, reconciler, faults,
                 outlasted>>

\* The API process dies, or Redis refuses the id, between two of its steps.
InterruptUpload(j) ==
  /\ uploader[j] \in {"stored", "committed", "published"}
  /\ uploader' = [uploader EXCEPT ![j] = "over"]
  /\ UNCHANGED <<originals, job, version, queue, scheduled, worker, reconciler,
                 faults, outlasted>>

-----------------------------------------------------------------------------
(* The worker. *)

\* A delivery.  Only a queued job is claimed: the message of any other job
\* is consumed without effect.  The attempt runs the stages that the claim
\* transaction did not see checkpointed.
Claim(w, j) ==
  /\ worker[w].pc = "idle"
  /\ queue[j] > 0
  /\ queue' = [queue EXCEPT ![j] = @ - 1]
  /\ IF Claimable(job[j])
     THEN /\ job' = [job EXCEPT ![j] = ClaimJob(@)]
          /\ version' = [version EXCEPT ![j] = MarkProcessing(@)]
          /\ \E pc \in {"stages", "refused"} :
               worker' = [worker EXCEPT ![w] = NewAttempt(j, version[j], pc)]
     ELSE UNCHANGED <<job, version, worker>>
  /\ UNCHANGED <<uploader, originals, scheduled, reconciler, faults,
                 outlasted>>

AtStage(w, s) ==
  /\ worker[w].pc = "stages"
  /\ s \in worker[w].todo
  /\ Earlier(s) \intersect worker[w].todo = {}

\* A stage ran and its outputs and checkpoint are committed together.
CheckpointStage(w, s) ==
  /\ AtStage(w, s)
  /\ version' = [version EXCEPT ![worker[w].job] = Checkpoint(@, s)]
  /\ worker' = [worker EXCEPT ![w] = PassStage(@, s)]
  /\ UNCHANGED <<uploader, originals, job, queue, scheduled, reconciler,
                 faults, outlasted>>

ParseDocument(w) ==
  /\ worker[w].job \in originals
  /\ CheckpointStage(w, "parse")

RecognizeEntities(w) == CheckpointStage(w, "ner")

ChunkDocument(w) == CheckpointStage(w, "chunk")

EmbedChunks(w) == CheckpointStage(w, "embed")

\* A parser or recognizer error is terminal: job and version fail together.
Fail(w) ==
  /\ AtStage(w, "parse") \/ AtStage(w, "ner")
  /\ job' = [job EXCEPT ![worker[w].job] = FailJob(@, "stage")]
  /\ version' = [version EXCEPT ![worker[w].job] = MarkVersionFailed(@)]
  /\ worker' = [worker EXCEPT ![w] = IdleWorker]
  /\ UNCHANGED <<uploader, originals, queue, scheduled, reconciler, faults,
                 outlasted>>

\* Any other exception: storage, database, chunker or provider in a stage, or
\* the transaction that completes the job, which is rolled back.
RaiseInStage(w) ==
  /\ worker[w].pc = "stages"
  /\ worker' = [worker EXCEPT ![w] = Raise(@)]
  /\ UNCHANGED <<uploader, originals, job, version, queue, scheduled,
                 reconciler, faults, outlasted>>

\* The version, its generation and its job become ready together.
Complete(w) ==
  /\ worker[w].pc = "stages"
  /\ worker[w].todo = {}
  /\ worker[w].bound
  /\ job' = [job EXCEPT ![worker[w].job] = MarkJobReady(@)]
  /\ version' = [version EXCEPT ![worker[w].job] = MarkVersionReady(@)]
  /\ worker' = [worker EXCEPT ![w] = IdleWorker]
  /\ UNCHANGED <<uploader, originals, queue, scheduled, reconciler, faults,
                 outlasted>>

\* assert ig_id is not None
AssertGenerationBound(w) ==
  /\ worker[w].pc = "stages"
  /\ worker[w].todo = {}
  /\ ~worker[w].bound
  /\ worker' = [worker EXCEPT ![w] = Raise(@)]
  /\ UNCHANGED <<uploader, originals, job, version, queue, scheduled,
                 reconciler, faults, outlasted>>

\* Outside any transaction block: the row written here is not committed.
RecordTransientFailure(w) ==
  LET j == worker[w].job IN
  /\ worker[w].pc = "raised"
  /\ IF IsRetryable(job[j].attempts)
     THEN /\ worker' = [worker EXCEPT ![w] =
               LeaveUnsaved(@, RetryJob(job[j], job[j].attempts + 1))]
          /\ scheduled' \in {scheduled, scheduled \union {j}}
     ELSE /\ worker' = [worker EXCEPT ![w] =
               LeaveUnsaved(@, FailJob(job[j], "exhausted"))]
          /\ UNCHANGED scheduled
  /\ UNCHANGED <<uploader, originals, job, version, queue, reconciler, faults,
                 outlasted>>

\* Neither is this one.
RecordPermanentFailure(w) ==
  /\ worker[w].pc = "refused"
  /\ worker' = [worker EXCEPT ![w] =
       LeaveUnsaved(@, FailJob(job[worker[w].job], "stage"))]
  /\ UNCHANGED <<uploader, originals, job, version, queue, scheduled,
                 reconciler, faults, outlasted>>

CloseSession(w) ==
  /\ worker[w].pc = "closing"
  /\ job' = [job EXCEPT ![worker[w].job] =
               RowAfterClose(@, worker[w].unsaved)]
  /\ worker' = [worker EXCEPT ![w] = IdleWorker]
  /\ UNCHANGED <<uploader, originals, version, queue, scheduled, reconciler,
                 faults, outlasted>>

\* The work horse is killed, by RQ's job timeout or otherwise.
CrashWorker(w) ==
  /\ worker[w].pc # "idle"
  /\ worker' = [worker EXCEPT ![w] = IdleWorker]
  /\ UNCHANGED <<uploader, originals, job, version, queue, scheduled,
                 reconciler, faults, outlasted>>

-----------------------------------------------------------------------------
(* The reconciler. *)

\* The first transaction of a pass: exhausted stale jobs fail with their
\* versions, and what can be requeued is listed.
ReconcileScan ==
  /\ reconciler.pc = "idle"
  /\ job' = [j \in Jobs |-> IF StaleExhausted(job[j])
                            THEN FailJob(job[j], "exhausted") ELSE job[j]]
  /\ version' = [j \in Jobs |-> IF StaleExhausted(job[j])
                                THEN MarkVersionFailed(version[j])
                                ELSE version[j]]
  /\ reconciler' = [pc |-> "pass", job |-> NoJob,
                    candidates |-> {j \in Jobs : Recoverable(job'[j])}]
  /\ UNCHANGED <<uploader, originals, queue, scheduled, worker, faults,
                 outlasted>>

\* Responsibility for one candidate is taken only if it still qualifies.
ReconcilePrepare(j) ==
  /\ reconciler.pc = "pass"
  /\ j \in reconciler.candidates
  /\ IF Recoverable(job[j])
     THEN /\ job' = [job EXCEPT ![j] = PrepareForRequeue(@)]
          /\ reconciler' = [pc |-> "publish", job |-> j,
                            candidates |-> reconciler.candidates \ {j}]
     ELSE /\ reconciler' = [reconciler EXCEPT !.candidates = @ \ {j}]
          /\ UNCHANGED job
  /\ UNCHANGED <<uploader, originals, version, queue, scheduled, worker,
                 faults, outlasted>>

ReconcilePublish ==
  /\ reconciler.pc = "publish"
  /\ queue' = Published(reconciler.job)
  /\ reconciler' = [reconciler EXCEPT !.pc = "mark"]
  /\ UNCHANGED <<uploader, originals, job, version, scheduled, worker, faults,
                 outlasted>>

\* Redis refuses: the candidate is left queued, without an enqueue time.
ReconcileDefer ==
  /\ reconciler.pc = "publish"
  /\ faults < MaxFaults
  /\ faults' = faults + 1
  /\ reconciler' = [reconciler EXCEPT !.pc = "pass", !.job = NoJob]
  /\ UNCHANGED <<uploader, originals, job, version, queue, scheduled, worker,
                 outlasted>>

ReconcileMark ==
  /\ reconciler.pc = "mark"
  /\ job' = [job EXCEPT ![reconciler.job] = MarkEnqueued(@)]
  /\ reconciler' = [reconciler EXCEPT !.pc = "pass", !.job = NoJob]
  /\ UNCHANGED <<uploader, originals, version, queue, scheduled, worker,
                 faults, outlasted>>

ReconcileEnd ==
  /\ reconciler.pc = "pass"
  /\ reconciler.candidates = {}
  /\ reconciler' = IdleReconciler
  /\ UNCHANGED <<uploader, originals, job, version, queue, scheduled, worker,
                 faults, outlasted>>

\* The process dies, or an exception other than an unavailable queue ends
\* the pass.
ReconcileInterrupted ==
  /\ reconciler.pc # "idle"
  /\ faults < MaxFaults
  /\ faults' = faults + 1
  /\ reconciler' = IdleReconciler
  /\ UNCHANGED <<uploader, originals, job, version, queue, scheduled, worker,
                 outlasted>>

-----------------------------------------------------------------------------
(* Redis and the passage of time. *)

\* The RQ scheduler moves a due retry to the queue.
DeliverScheduled(j) ==
  /\ j \in scheduled
  /\ scheduled' = scheduled \ {j}
  /\ queue' = Published(j)
  /\ UNCHANGED <<uploader, originals, job, version, worker, reconciler, faults,
                 outlasted>>

\* An id disappears: Redis loses data, or a finished execution deletes the
\* RQ job hash that a second message or a scheduled retry still refers to.
LoseMessage(j) ==
  /\ faults < MaxFaults
  /\ faults' = faults + 1
  /\ \/ /\ queue[j] > 0
        /\ queue' = [queue EXCEPT ![j] = @ - 1]
        /\ UNCHANGED scheduled
     \/ /\ j \in scheduled
        /\ scheduled' = scheduled \ {j}
        /\ UNCHANGED queue
  /\ UNCHANGED <<uploader, originals, job, version, worker, reconciler,
                 outlasted>>

WorkedOn(j) == \E w \in Workers : worker[w].job = j

\* The threshold passes.  RQ kills an attempt after three minutes, long before;
\* an attempt that survives its timeout is overtaken by recovery, and its job
\* is remembered as outlasted.
AgeStarted(j) ==
  /\ job[j].startedAt = "recent"
  /\ job' = [job EXCEPT ![j] = StartedBeforeCutoff(@)]
  /\ outlasted' = IF WorkedOn(j) THEN outlasted \union {j} ELSE outlasted
  /\ UNCHANGED <<uploader, originals, version, queue, scheduled, worker,
                 reconciler, faults>>

AgeEnqueued(j) ==
  /\ job[j].enqueuedAt = "recent"
  /\ job' = [job EXCEPT ![j] = EnqueuedBeforeCutoff(@)]
  /\ UNCHANGED <<uploader, originals, version, queue, scheduled, worker,
                 reconciler, faults, outlasted>>

-----------------------------------------------------------------------------
Upload(j) ==
  \/ StoreOriginal(j)
  \/ CommitUpload(j)
  \/ CompensateUpload(j)
  \/ PublishUpload(j)
  \/ MarkUploadEnqueued(j)
  \/ InterruptUpload(j)

\* What a worker does once it has claimed a job, short of dying.
Work(w) ==
  \/ ParseDocument(w)
  \/ RecognizeEntities(w)
  \/ ChunkDocument(w)
  \/ EmbedChunks(w)
  \/ Fail(w)
  \/ RaiseInStage(w)
  \/ Complete(w)
  \/ AssertGenerationBound(w)
  \/ RecordTransientFailure(w)
  \/ RecordPermanentFailure(w)
  \/ CloseSession(w)

Reconcile ==
  \/ ReconcileScan
  \/ \E j \in Jobs : ReconcilePrepare(j)
  \/ ReconcilePublish
  \/ ReconcileMark
  \/ ReconcileEnd

Next ==
  \/ \E j \in Jobs : Upload(j)
  \/ \E w \in Workers, j \in Jobs : Claim(w, j)
  \/ \E w \in Workers : Work(w)
  \/ \E w \in Workers : CrashWorker(w)
  \/ Reconcile
  \/ ReconcileDefer
  \/ ReconcileInterrupted
  \/ \E j \in Jobs : DeliverScheduled(j)
  \/ \E j \in Jobs : LoseMessage(j)
  \/ \E j \in Jobs : AgeStarted(j)
  \/ \E j \in Jobs : AgeEnqueued(j)

Spec == Init /\ [][Next]_vars

(* A worker keeps running while it lives, the reconciler runs one pass after *)
(* another and threshold ages are reached.  RQ's list is first in first out,  *)
(* so an id that keeps being in it is delivered.  Uploads, faults, crashes    *)
(* and scheduled retries are owed nothing.                                    *)
Fairness ==
  /\ \A j \in Jobs : SF_vars(\E w \in Workers : Claim(w, j))
  /\ \A w \in Workers : WF_vars(Work(w))
  /\ WF_vars(Reconcile)
  /\ \A j \in Jobs : WF_vars(AgeStarted(j)) /\ WF_vars(AgeEnqueued(j))

FairSpec == Spec /\ Fairness

-----------------------------------------------------------------------------
(* Properties that hold whatever a worker does. *)

\* A generation that retrieval may read has every stage's output: resuming
\* from checkpoints never lets an attempt finish over a missing stage.
ReadyIsComplete ==
  \A j \in Jobs : version[j].index = "ready" => version[j].done = Stages

\* Checkpoints are taken in pipeline order across attempts: no later stage
\* was committed on top of the output of an earlier one that is missing.
CheckpointsInOrder ==
  \A j \in Jobs : \A s \in version[j].done : Earlier(s) \subseteq version[j].done

\* The claim counts attempts without looking at the limit, so recovery has
\* to keep the budget: nothing waits for an attempt it may not have, and
\* only a job that used every attempt fails as exhausted.
AttemptsWithinBudget ==
  \A j \in Jobs :
    /\ job[j].attempts <= MaxAttempts
    /\ job[j].status = "queued" => job[j].attempts < MaxAttempts
    /\ job[j].error = "exhausted" => job[j].attempts = MaxAttempts

\* Every committed upload has its original in object storage, although the
\* original is written before the transaction and deleted when it fails.
UploadHasOriginal ==
  \A j \in Jobs : job[j].status # "absent" => j \in originals

\* The attempt counter moves only when a worker takes a queued job, by one:
\* neither recovery nor a retry that was recorded counts an attempt twice.
ClaimsAreCounted ==
  [][\A j \in Jobs : job'[j].attempts # job[j].attempts =>
       /\ job'[j].attempts = job[j].attempts + 1
       /\ job[j].status = "queued"
       /\ job'[j].status = "processing"]_vars

\* A crash, a retry or a recovery never throws a checkpoint away.
CheckpointsKept ==
  [][\A j \in Jobs : version[j].done \subseteq version'[j].done]_vars

-----------------------------------------------------------------------------
(* Properties that workers past the stale threshold touch.  fail and          *)
(* mark_ready are unconditional updates, so a job with an outlasted attempt is *)
(* promised less: the late attempt may still write the job's outcome.          *)

\* The three rows of an upload tell one story: job and version are ready
\* together and fail together, and a ready index belongs to a ready job unless
\* a late attempt failed the job that another one had completed.
StatusesAgree ==
  \A j \in Jobs :
    /\ job[j].status = "ready" <=> version[j].status = "ready"
    /\ job[j].status = "failed" <=> version[j].status = "failed"
    /\ job[j].status = "ready" => version[j].index = "ready"
    /\ version[j].index = "ready" => job[j].status = "ready" \/ j \in outlasted

\* Duplicate messages and recovery never put two attempts of one job at
\* work, and the job of a live attempt stays its own until it lets go.
OneOwner ==
  \A w \in Workers : worker[w].job \in Jobs \ outlasted =>
    /\ job[worker[w].job].status = "processing"
    /\ \A v \in Workers : worker[v].job = worker[w].job => v = w

\* Ready and failed are final: no worker, message or recovery pass touches
\* the outcome of an upload once it is known.
TerminalIsFinal ==
  [][\A j \in Jobs \ outlasted : job[j].status \in {"ready", "failed"} =>
       /\ job'[j].status = job[j].status
       /\ version'[j] = version[j]]_vars

\* Whatever is lost or dies, every committed upload ends ready or failed.
EventuallySettled ==
  \A j \in Jobs : job[j].status # "absent" ~> job[j].status \in {"ready", "failed"}

-----------------------------------------------------------------------------
(* The strengthening that makes the invariants above inductive. *)

\* A request commits its rows before it publishes, and only rows that exist
\* are worked on.
UploadOrder ==
  \A j \in Jobs :
    /\ uploader[j] \in {"idle", "stored"} => job[j].status = "absent"
    /\ uploader[j] = "stored" => j \in originals
    /\ uploader[j] \in {"committed", "published"} => job[j].status # "absent"
    /\ job[j].status = "absent" => version[j] = NoVersion /\ job[j].attempts = 0

\* What an attempt has still to do was read when it claimed the job; the
\* stages it will not run are durable, now and for the rest of the attempt.
AttemptProgress ==
  \A w \in Workers :
    /\ worker[w].job # NoJob => job[worker[w].job].status # "absent"
    /\ worker[w].pc = "stages" =>
         Stages \ worker[w].todo \subseteq version[worker[w].job].done

\* No committed failure is retryable, so an exhausted job stays failed.
FailuresArePermanent ==
  \A j \in Jobs :
    /\ job[j].category # "transient"
    /\ job[j].error = "exhausted" => job[j].status = "failed"

\* The threshold has not passed for a job that is being worked on.
OwnedIsRecent ==
  \A w \in Workers : worker[w].job \in Jobs \ outlasted =>
    job[worker[w].job].startedAt # "stale"

-----------------------------------------------------------------------------
(* Statements of the documentation and of the code itself that the pipeline *)
(* does not keep. *)

\* "Retry state is durable", "Permanent failures [...] are marked failed
\* immediately": once an attempt that recorded a failure has let go of its
\* session, the job is what it recorded: queued, for the retry scheduled in
\* Redis to claim, or failed.
FailureRecordIsDurable ==
  [][\A w \in Workers : \A row \in worker[w].unsaved :
       CloseSession(w) => job'[worker[w].job].status = row.status]_vars

\* "index generation must exist after chunking stage": an attempt with no
\* stage left has the generation it is about to mark ready, also when it
\* resumed a version whose stages were all checkpointed before.
GenerationBoundAtCompletion ==
  \A w \in Workers :
    worker[w].pc = "stages" /\ worker[w].todo = {} => worker[w].bound

-----------------------------------------------------------------------------
(* What the pipeline promises to the rest of the system. *)

Activatable ==
  {j \in Jobs : version[j].status = "ready" /\ version[j].index = "ready"}

Lifecycle ==
  INSTANCE JobLifecycle WITH
    status     <- [j \in Jobs |-> job[j].status],
    attempts   <- [j \in Jobs |-> job[j].attempts],
    activatable <- Activatable

\* Uploads, workers, recovery and faults together show nothing but the life
\* of a job: submitted, attempted within its budget, and settled once unless
\* one of its attempts was outlasted.
LifecycleSpec == Lifecycle!Spec

=============================================================================
