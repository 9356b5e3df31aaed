# A TLA+ verification project for Document Insight

Document Insight is a multi-tenant service that ingests PDFs and images, indexes
them in PostgreSQL (full text and pgvector), and answers questions over the
passages a user may read.  This directory holds TLA+ models of its stateful core,
the TLC configurations that check them on small instances, and proofs that TLAPS
checks for every value of the constants.  Paths below are relative to the
repository; the Python package `document_insight` lives under
`src/src/document_insight`, its decision records under `src/docs/adr`.

## 1. Inventory of the system

| Component | State it keeps | Operations | Hard behaviour | What makes it correct |
| --- | --- | --- | --- | --- |
| Upload service (`application/ingestion`) | original object, document, version, generation, job rows | validate, store original, commit rows, publish, mark enqueued, compensate | three stores and no common transaction; the process dies between any two | a committed upload has its original and is eventually settled |
| Ingestion worker (`application/processing/service`, `worker/ingestion`) | attempt-local variables, stage checkpoints | claim, parse, NER, chunk, embed, complete, fail | duplicate deliveries, death between stages, resumption from checkpoints | one attempt owns a job; ready means every stage has run; ready and failed are final |
| Retry coordination (`application/processing/retry`) | attempt count, retry time, error category | classify, schedule a retry, give up | row and Redis message written in different stores, outside the transaction | an attempt budget nobody exceeds |
| Job reconciler (`application/processing/reconciliation`, `worker/reconciler`) | candidates of the pass | fail exhausted, list, recheck, requeue, publish, mark | listed candidates change under it; Redis refuses; it dies half way | whatever is lost is recovered, nothing else is touched |
| RQ adapters (`infrastructure/queue`) | Redis list, scheduled registry | enqueue, enqueue at a time | loss, duplicates, refusal | messages carry ids only; PostgreSQL decides |
| Profile approval and activation (`application/configuration/approval`, operator CLI) | capability profiles, bundles, active pointers, audit | stage, validate, activate, select for the evaluation tenant | two operators, two pointers, uploads and workers at the same time | the active query policy reads what the active ingestion policy writes; audited, gated switches |
| Evaluation (`application/evaluation`, `worker/evaluation`, `worker/evaluation_reconciler`) | suites, runs, case results, aggregates, quality scores, gate decisions | launch, claim, execute, aggregate, complete, fail stale, score, decide | worker death, stale heartbeats, concurrent reviewers, corpus changes during a run | one claim per run, complete results behind a decision, one decision |
| Document library (`application/documents`) | documents, version numbers, current version | list, activate a version | concurrent uploads and activations of one document; row policies that differ between statements | version numbers unique and gap-free; only a ready version is current; a listing does not contradict itself |
| Query service (`application/query`, `infrastructure/retrieval`) | none of its own; reads many tables in several transactions | prepare, retrieve, fuse, rerank, generate, cite | activations, revocations and profile switches between two retrieval statements | only authorized passages of versions current at some moment of the query are cited, under one profile |
| Profile staging, catalog and resolvers (`application/configuration`) | snapshots, capability profiles, bundles with read cohorts | submit a draft, validate, bundle, resolve | equal drafts at the same time; retired capabilities that stay in bundles | one snapshot per content; what the panel offers resolves to configurations the deployment supports |
| Suites and comparisons (`application/evaluation/suites`, `infrastructure/evaluation_suite`, Admin Panel pages) | numbered revisions with corpus and cases; run manifests | save, edit, launch, validate the corpus, measure | revision numbers read without a lock; policies that move while a form is filled in and while a run measures | consecutive revisions; both sides of a comparison differ in one policy only |
| Rate limiter (`infrastructure/security/query_rate_limiter`) | one Redis counter per user | count and expire | window edges, lost expiry, Redis failure | at most the quota per window, and never a user locked out |
| Chunker (`infrastructure/document_chunker`) | its position in a text | cut pages into windows | boundaries of pages, words, overlaps | offsets quote the text, nothing is skipped, the walk ends |
| Mistral adapters (`infrastructure/mistral`) | attempts of a call | embed in batches, complete | 429, partial or reordered answers | a vector belongs to its text; bounded waits, none for a question |
| Evaluation scoring and executor (`application/evaluation/scoring`, `executor`) | none (pure functions) | run a case, compare spans with labels, average | labels that windows divide, overlapping passages, empty cases, two ways to count offsets | what can be found scores one, nothing scores more, however a policy cuts the text |
| Parsers, NER | none (models) | parse, recognise | failures | failures are classified |
| Identity (`application/auth`, `infrastructure/security`, `application/evaluation/identity`) | users, memberships, tokens | register, provision, log in, refresh membership | stale claims in tokens; two provisioning commands | memberships are read from the database at every request; nobody changes tenant |
| Database session, roles, RLS, migrations | transaction-local actor or job id | bind, commit, roll back | a session used outside a transaction block | no row outside the actor's tenant and departments is visible |
| API gateway, schemas, middleware, error mapping; Admin Panel views | none | translate HTTP | none beyond the services they call | not a subject of this project |
| Observability, benchmark, profiles, build | metrics, logs | measure | none | not a subject of this project |

Interactions.  The API process commits rows in PostgreSQL and then publishes ids in
Redis; workers and reconcilers are separate processes that meet only in
PostgreSQL rows (guarded updates, row locks) and in Redis lists.  Operators act
through the CLI and the Admin Panel on the same tables.  No process calls another
directly, so every interleaving is one of committed transactions and of messages.

## 2. Hazards

`PROJECT.json` lists, under `hazards`, what is hard to test in this code, each at
its line with the properties that would catch it going wrong.  One is listed
without a property: a commit whose acknowledgement is lost
(`application/ingestion/service.py:178`) raises although the rows exist, and the
compensation deletes their original.  The models take an error of a transaction to
mean a rollback; with in-doubt commits `UploadHasOriginal` would fail at once,
which says nothing that this sentence does not.

## 3. The models and the code

Every module is a translation of the code named in `PROJECT.json` under `map`;
operators keep the names of the functions they stand for where that is possible.
A definition named `...Mistake` is not part of a model: it is a plausible bug,
substituted for the definition that follows it to see that a property notices.
Times are never numbers.  A timestamp is `"null"`, `"recent"` or `"stale"`
(older than the threshold that some code compares it with), and ageing is an
action.  Each action is one committed transaction, one message, or one step
between two of them at which a process may die.

### 3.1 Ingestion: `IngestionRows`, `IngestionPipeline`, `JobLifecycle`

`IngestionRows` holds the rows (`processing_jobs`, and `document_versions` with its
index generation and stage checkpoints) and the guarded updates of the job and
version repositories as operators on a row.  `IngestionPipeline` adds the
processes; every upload makes one version, one generation and one job, so all
of them are indexed by the job.

| State | Code |
| --- | --- |
| `uploader[j]` | how far `IngestionService.ingest` has come: original stored, rows committed, id published, marked |
| `originals` | objects in S3 |
| `job[j]`, `version[j]` | committed rows |
| `queue[j]`, `scheduled` | the RQ list and RQ's scheduled registry |
| `worker[w]` | `ProcessingService.process`: the stages it did not see checkpointed, whether its local variable `ig_id` is assigned, and a row written outside a transaction block |
| `reconciler` | the candidate list of a pass and the candidate being published |

`Upload` is the request, `Claim` and `Work` are the worker (`ParseDocument`,
`RecognizeEntities`, `ChunkDocument`, `EmbedChunks`, `Fail`, `Complete`, the retry
coordinator's `RecordTransientFailure` and `RecordPermanentFailure`, and
`CloseSession`), `Reconcile` is a pass of the reconciler.  A claim by
`UPDATE ... WHERE status = 'queued'` is one action; a message whose job is not
queued is consumed without effect.  Checkpoints are added idempotently, which the
uniqueness constraints on the stage outputs back.

What is written outside any transaction block (`jobs.retry` at `retry.py:175`,
`jobs.fail` at `retry.py:147` and `:225`) is in `unsaved` and is lost when the
worker closes its session (`RowAfterClose`).  An exception of a stage, of a
checkpoint or of the completing transaction reaches the coordinator in the same way
(`RaiseInStage`): what the attempt had bound is gone with its frame, and what its
transaction wrote is rolled back.  Any claim may find that the job's profile does not resolve.
Left out are returns that cannot be reached: `version is None`, the classifier's branch
for parsing errors, and `ner_metadata_missing` (`service.py:251`), as the completion
time that lets an attempt skip recognition and the metadata it then reads are
written by one statement (`mark_ner_complete`).  Commit errors are taken to roll back.
The reconciler's batch limit of
one hundred is not modelled: candidates are taken in any order and any pass may
be interrupted.  The passages and vectors behind two of the stages are section 3.6's.

`JobLifecycle` is what a client sees through `GET /jobs/{job_id}`: submitted,
attempted at most `MaxAttempts` times, settled once.  `outlasted` is a history variable of
both: the jobs of which an attempt was still alive when its start had become stale.
The code has no fencing of such an attempt (`fail` and `mark_ready` are unconditional
updates), so the life cycle lets these jobs, and only these, be settled again.

### 3.2 Policies: `ProfileBundles`, `PlatformPolicy`, `ProfileActivation`

`ProfileActivation` models `ProfileApprovalService` as the CLI and the Admin Panel call
it.  `pointer` holds the active platform ingestion and query bundles and the
evaluation tenant's override, `lock` who has locked which pointer row (`SELECT ... FOR
UPDATE`), `operator[o]` an operator's transaction from the reviewed revision to
the commit, `audit` the `profile_activations` records, `launched` and `approved`
the evaluations that gate a switch, `generation[u]` what an upload has read from
the pointers and indexes with.  `Reads[q]` are the ingestion bundles whose cohorts a
query bundle retrieves from.

Transactions are READ COMMITTED: each action reads what is committed at that
moment.  Both platform rows are locked in one order by everybody
(`LockFirst`, `LockSecond`); the selection for the evaluation tenant locks its own
row first, or the platform ingestion row when it has to insert one.  Uploads read the
pointers without a lock, and commit later.  The gate is always on, as both
callers pass the run and review repositories; `Approve` stands for a completed run
with an approving review (section 3.3).  Bundles that are not validated are
refused everywhere and left out, and so are the audit records of the migrations.

`PlatformPolicy` is the published promise: a policy is replaced in one step, by a
candidate approved against the policies of that moment, and the active query policy
reads what the active ingestion policy writes.

### 3.3 Evaluation: `EvaluationReports`, `EvaluationRuns`, `EvaluationLifecycle`

`EvaluationReports` is the data: the executions of a run (every case with both
policies), the metrics an execution is scored by, and the aggregates.  A
measurement is known by the cases whose scores it adds up; spans, K values, stages
and numbers are left out.  `EvaluationRuns` is the life of runs: `CreateRun`,
`PublishRun` and `MarkPublished` in the panel, `Claim`, `ExecuteCase`, `Beat`,
`AddAggregate`, `Complete`, `Raise` and `FailRun` in the worker (each result and each
aggregate is committed in a transaction of its own), `ListPending`, `Republish`,
`MarkRepublished` and `FailStaleRunning` in the reconciler, `BeginScore`/`CommitScore` and
`BeginDecision`/`CommitDecision` for operators, whose transactions check and then
write without locking anything.

Cases are executed in any order, baseline before candidate.  A heartbeat may grow
stale under a live worker: the guards of the updates, not time, have to protect
the run.  `aggregates` is a set although the table has no uniqueness constraint;
that a run is claimed once is what keeps duplicates away.  The checks of a review
read several tables one after the other; as what they read only grows, they are read
at one point.  `LoseDelivery` covers a loss in Redis and a worker that raises before
its claim (a missing tenant, a missing key); `CrashWorker` covers the update that
fails the run failing itself.

`EvaluationLifecycle` is what an operator sees: a run starts once and settles once,
its measurements appear at once and whole, and it gets one decision.

### 3.4 Document library: `RowPolicies`, `SearchableLibrary`, `DocumentVersions`

`RowPolicies` holds memberships, documents and their departments as rows, and the
row-level policies of migration 0012 as predicates over the bound user
(`CanReadDocument`, `CanLockDocument`, `CanAssign`).  They look at the membership of
the moment of each statement, while the code's own checks use the departments that
authentication has read.

| State of `DocumentVersions` | Code |
| --- | --- |
| `version[v]` | the `document_versions` row that upload `v` inserts |
| `current[d]` | `documents.current_ready_version_id` |
| `holder[d]` | whose transaction holds the document's row lock |
| `upload[v]` | `IngestionService.ingest`, authorized in one transaction and committed in another |
| `activation[a]` | `DocumentLibraryService.activate_version` between lock, check and commit |
| `listing` | `DocumentLibraryService.list_documents` after each of its statements |

A replacement locks the document, reads the highest number and inserts the next
(`LockDocument`, `ReadNextNumber`, `CommitVersion`); a new document is one transaction
(`CreateDocument`).  Authentication is one step with the transaction that follows
it, and the departments of listed documents are read with the documents.  The
department filter and the limit of a listing are left out; so is everything of
processing but the three statuses a worker reports.  `RevokeMembership` is the
operator of the database: the application has no such request, and its policies
are written to survive it.

`SearchableLibrary` is what those who search rely on: documents that belong to
departments of one tenant, gain versions and show a ready one.

### 3.5 Queries: `EvidenceRanking`, `QueryPipeline`

`EvidenceRanking` is the arithmetic: reciprocal-rank fusion with the entity boost
(a passage collects parts of one: `Reciprocal` of its rank from each list, in parts of
`Scale`, and `Parts` is the set of them), ordering by value and then by identifier, and
the choice of evidence by the two thresholds (a `Selections` of the list keeps its order;
for a list without repetitions there is one).  `Scale` is assumed to be fine enough to
tell any two ranks of a list apart, as the floating-point reciprocals of the code
do.  `QueryPipeline` extends
`SearchableLibrary`, so that the library moves between any two steps of a query, and
adds the active query profile and the queries.

| Action | Code |
| --- | --- |
| `Authenticate` | `get_current_user`: departments are read once |
| `Prepare` | `QueryPreparationService._prepare`: the profile is read once; an administrator's scope is the tenant |
| `MatchEntities`, `SearchLexical`, `SearchVector` | one statement each of `SqlAlchemyAuthorizedRetrievalRepository`, per cohort of the profile |
| `Fuse`, `Rerank` | `_fuse`, `_rerank` with its candidate limit |
| `EndWithoutEvidence`, `Generate`, `RejectGrounding` | the three ways a query ends well |
| `FailQuery` | no usable profile, or a provider or the database fails |

A version has one passage.  What a statement matches and in which order, what the
reranker scores and what the generator cites are chosen freely, within what the
code lets through: the generator's citations are checked to be positions of the
evidence.  `SwitchProfile` moves to any profile; that a platform switch keeps
reading what is written is section 3.2's subject.  Page offsets and the evaluation's
entry with a fixed corpus are not modelled.  `shown` is a history variable: what
the user of a running query could have read so far.

### 3.6 Chunks, vectors and scores: `PageWindows`, `ChunkEmbedding`, `CaseScoring`, `ScoredPassages`

`PageWindows` is the chunker, one turn of its loops at a time: `TakePage` splits off
and strips a page, `CutWindow` makes a window a passage and finds where the next one
begins.  A text is a sequence of kinds of characters (a letter, a space, a form feed),
and a page the sequence of the positions its characters have in the text, so that
what a passage quotes can be compared with the offsets that are computed for it.

| State of `ChunkEmbedding` | Code |
| --- | --- |
| `generation` | the index generation with its checkpoints, chunk rows and vectors |
| `call[w]`, a worker | `ProcessingService._process_version` in its two last stages: the generation read once, the recheck inside each transaction, the texts and the vectors so far |
| `call[Question]` | the embedding of an interactive question, which never retries |
| `call[Completion]` | a structured completion of reranker or generator |

`AnswerUsable` takes any sequence of indexed items and accepts what the adapter
accepts; every other answer is `AnswerUnusable`.  `RateLimited` is a 429 and
`Wake` the end of the sleep.  A vector is known by the text it was computed from.
The chunker is deterministic, so it is run once for all attempts.  `InsertChunks`
meets the uniqueness of ordinals, `StoreVectors` the insertion that skips existing
rows.  `Crash` takes whatever a worker has not committed.

`CaseScoring` is how an evaluation scores: `Covers`, `RetrievalMetrics`, `CitationMetrics`
and `AggregateMetrics` are the functions of `scoring.py`, `CaseResult` and `ScoreCase` what
the executor captures of a query and what the runner makes of it.  A metric keeps
numerator and denominator, a stage is a name and the number of a cohort.  `ScoredPassages`
composes it with the chunker: `Anchor` is the source span of a passage, and the labels are
stretches of the same text, in the offsets of the whole text, as chunks have them, or
in those of their page (`PageLocal`), as the documentation has them.
`EvaluationReports` (3.3) abstracts from all of this.

### 3.7 Admission of queries: `Admission`

An account is registered (`Register`, one transaction) or provisioned for the
evaluation tenant (`CheckProvision` and `CreateAdmin`, one transaction that reads and
then writes without a lock).  `Login` issues a token with the departments of that
moment.  A request verifies the token (`VerifyClaims`), reads the user and the
departments again (`ReadCurrentUser`) and takes a slot (`Acquire`); between any two of
these another request may run, a membership may change, or time may pass (`Tick`).
`AcquireScript` is the Redis script, which Redis runs as one step.  Its reply may be lost
or unreadable after it has counted (`LoseReply`), or Redis may not be reached at all
(`QuotaUnavailable`): both refuse the query.  `Expire` is what
Redis does to a key; `LoseExpiry` is the key without a TTL that the script's second
branch is written for.

Addresses are unique, so a user, the tenant registered for the user and that tenant's
department are all named by the address.  Time is counted in ticks.
Membership changes are a database administrator's, as the application has none.
`admitted`, `granted` and the `held` of a request are history variables: `admitted[e]`
has the queries admitted to a user in the last window, each with its age, what its key
had counted with it and the number of keys created since.

### 3.8 Staging, suites and comparisons: `PanelRequests`, `ProfileStaging`, `SuiteRevisions`, `EvaluationPreparation`

`PanelRequests` is what every form of the Admin Panel has in common: an operator's
request goes through a few transactions, and `session[o]` is what it has read so far.

`ProfileStaging` holds the tables of configurations as sequences of immutable rows:
`Draft` looks for an equal snapshot and `InsertDraft` inserts; `Validate` approves;
`BundleIngestion`, `BundleQuery` and `InsertQuery` combine; `RollBack` is a refusal by
the database.  The tables start with what the migrations seed, the retired pair of
reranker and generator without prompts included.  A configuration is one of four
contents; the values of settings, names and ids are left out.

`SuiteRevisions` is a suite's history: `SubmitSuite` and `SubmitEdit` are the checks of
the form, `ReadNumber` and `InsertRevision` the later transaction.  A suite has one
case, and case templates, which prefill a form, are left out.

`EvaluationPreparation` composes the two with documents, active policies and
runs: `LaunchQuery` and `LaunchIngestion` submit, `ReadActiveIngestion` and `InsertRun` read
the two active policies one after the other, check the manifest and commit;
`ValidateCorpus`, `MeasureBaseline` and `MeasureCandidate` are the worker's.  Beside them
`Upload`, `Replace`, `Restore`, `SwitchIngestion` and `SwitchQuery` change what they rest
on.  A document has two versions at most, one of which is followed; an upload of the evaluation tenant may be indexed under
any bundle the tenant can select.  Left out, because other modules
have them: the gate and locks of a switch (3.2), claims, heartbeats and reviews (3.3),
ingestion (3.1).  The validation of a corpus reads version by version; it
is one step here: the text and the bundle of a version never change, and which
versions are current may change right after the step as well as in its course.

## 4. The runs

| Run | Instance | Question | Distinct states |
| --- | --- | --- | --- |
| `ingestion` | 1 job, 2 workers that may outlive the stale threshold, 2 attempts, 2 copies of a message, 2 faults | what holds when attempts of one job interleave, resume each other and outlive the threshold; do its three rows agree, does it show only its life cycle, does every upload settle? | 568 k |
| `lost_failure_record` | 1 job, 1 worker | is a recorded failure durable?  (violated, section 8) | |
| `resume_after_checkpoints` | 1 job, 1 worker | can a version be completed whose stages are all checkpointed?  (violated) | |
| `activation` | 2 operators, 2 ingestion and 3 query bundles, 1 upload, 2 comparisons, revisions up to 2 | do concurrent switches keep the pointers together, audited, approved and free of deadlock? | 987 k |
| `evaluation_runs` | 1 run of 2 cases, one labelled; 2 workers, 2 operators, 1 fault | is what is measured whole, once and final, has an approval seen it, does every committed run settle? | 103 k |
| `document_versions` | 2 documents, 3 uploads, 1 activation, an administrator and an editor, a listing | are numbers consecutive, current versions ready, listings consistent, all of it a `SearchableLibrary`? | 1.67 M |
| `editors_replacement` | the same | may an editor replace a document of their department?  (violated) | |
| `query_pipeline` | 1 query, 2 documents, 3 versions in 2 embedding cohorts, 2 profiles | does a query cite what was shown to its user, under one profile, ranked and selected as documented, and end? | 594 k |
| `chunk_embedding` | every text of up to 5 characters and a few longer ones, windows and overlaps of each size; 2 workers, a question, a completion, 4 attempts | do passages quote and cover the text, can short labels be found in them, does each chunk get the vector of its text, do waits stay bounded? | 27 k |
| `page_local_labels` | the same | are labels found whose offsets are those of their page?  (violated) | |
| `admission` | 2 addresses, 2 commands, 2 concurrent requests, a quota of 2 in a window of 2 ticks, 1 change of membership, 1 lost expiry or reply | do quota and scope hold, do identities settle, does every refusal end? | 1.79 M |
| `preparation` | 2 operators, 2 versions, 2 texts, 1 suite, 3 requests beyond the prepared state | are staged bundles sound, revisions numbered, comparisons paired and alike? | 1.09 M |

The bounds, and why they are enough for the question:

- two workers are the fewest that can contend; a third could only repeat what
  the second does, and `OneOwner` and `OneExecutor` are proved for any number;
- one job is enough for what attempts do to each other.  Jobs share nothing but
  workers and the reconciler's passes; that they do not disturb each other there rests on the
  theorems of section 7, which hold for any number of jobs;
- `MaxCopies` caps the copies of one id in a Redis list (a full list stays full);
  two copies are a duplicate delivery to two workers at once, and a third still
  arrives after one was taken;
- `MaxFaults` caps failures of the environment (a lost message, a refused
  publication, a dead reconciler); worker deaths and panel or API deaths are not
  capped in this way, only by attempts and by the one life of a request;
- two attempts are the fewest that overlap, and have a first and a last one; the second
  resumes from the checkpoints of the first.  The budget
  and the ownership of a job are proved for any number of attempts;
- revisions up to 2 let each pointer move once beside the other, and the override
  be inserted by two operators and be selected anew;
- two cases, one of them labelled, have a metric that only one of them has, and
  a point where one case is finished and the other is not.  All
  cases are answered there: a refusal only takes a metric away, and the theorems of
  section 7 hold for every set of outcomes;
- three versions of two documents are a document with two versions beside another
  one, or one document with three; a department with an administrator and an editor
  shows both sides of every policy.  In `query_pipeline` the scores 0 to 2 lie below,
  between and on the two thresholds;
- texts of five characters with windows of up to four hold every boundary case of
  a window: a space on, before and behind its end, words longer than it, blank
  windows and pages, overlaps that move back and that cannot.  Batches of one and two
  leave a last one that is full and one that is not;
- a window of two ticks has a beginning and an end that a request may lie between, and a quota
  of two lets the two windows be filled partly and wholly; three queries within one
  stretch, the most there can be, occur;
- one is divided into 12 parts in `query_pipeline`: with an `RrfK` of 1 a first rank is
  worth 6 of them and a second 4, and an entity match 3, more than the difference of
  the two ranks and less than either;
- `preparation` begins with a state that takes the program about a dozen requests to
  reach (a second embedding staged and bundled, a query bundle that reads both, a
  document, a suite); a launch with its copies takes two or three more.

Symmetry is used over processes, documents, versions or bundles that are
interchangeable, never in a run with a liveness property.  Deadlock checking is
on, except in `document_versions`, `editors_replacement`, `query_pipeline`,
`chunk_embedding`, `page_local_labels`, `admission` and `preparation`, where the requests of the instance
run out and the system comes to rest.

## 5. What the properties say

Each run checks the properties below that name it; those marked (proved) are checked
by no run of their own, as section 7 proves them for every instance.  Section 7 says
which of the others are proved as well.

- `OneOwner`, `StatusesAgree`, `TerminalIsFinal` (proved): under duplicate messages,
  recovery and crashes, a job has one live attempt, its outcome is final, and job,
  version and generation tell the same story.  Attempts may outlive the stale threshold
  in every run.  RQ's default timeout of 180 s kills an attempt long before the
  10 minutes at which the reconciler recovers its job, but nothing relates the two settings,
  so ownership and finality are stated for the jobs of which no attempt has done so
  (`outlasted`), whatever happens to the others; job and version end alike for all.
- `ReadyIsComplete`, `AttemptsWithinBudget`, `CheckpointsInOrder`, `CheckpointsKept`,
  `ClaimsAreCounted` (the last three proved): these hold even then.
- `UploadHasOriginal`: compensation never removes the original of a committed upload.
- `LifecycleSpec` of ingestion, `EventuallySettled`: all of it together is a job's
  life cycle, and every committed upload ends ready or failed.
- `ActiveIngestionIsRead`, `PolicySpec`, `AuditIsChain`: two operators who switch
  two pointers, each checked against the other, never separate them; every switch
  rests on an approval against the policies in place at its commit; audit records
  are exactly the history of the pointers.
- `OverrideIsIsolated` (proved): uploads of other tenants never get the override.
- `NoCircularWait`: among any operators, somebody waits for none of the others: the
  lock orders of activation, inspection and selection admit no deadlock.
- `OneExecutor`, `AggregatesOverAllCases`, `CompletedIsMeasured` and `MeasurementsFrozen`
  (the last two proved): one worker executes a run, aggregates stand on every case
  with both policies and on nothing else, and do not move once a run is completed,
  although workers outlive the failure of their runs.
- `ApprovedIsReviewed`, `LifecycleSpec` of evaluation: an approval, checked without
  locks, has all candidate answers scored; there is one decision.
- `NumbersConsecutive`, `CurrentIsReady` (proved), `LibrarySpec`: versions of a document
  are numbered under its lock without gap or repetition, whatever else aborts; what is
  current is ready and its document's own.
- `ListingAgrees`: three statements without a snapshot, and still the current and
  the latest version shown are among the versions shown, as long as the reader
  keeps access.
- `CitedWasShown`, `RevocationIsHonoured`, `OneProfilePerQuery` (proved): scope and
  profile are
  read once and go stale; the row policies and the predicates of each statement
  make up for the first, the immutability of profiles for the second.
- `FusionKeepsAgreement`, `EvidenceIffSufficient`: a passage that is better in every
  branch is better after fusion; the cuts to the rerank limit and to `top_k` do not
  hide sufficient evidence.
- `QueriesEnd`: also with nothing retrieved and nothing good enough.
- `PassagesQuoteText`, `NothingIsSkipped`: the offsets stored for citations quote the
  text, through two strippings; between two windows no character is lost, and no
  phrase as short as the overlap.
- `AbsoluteLabelsCanBeFound`: under every window and overlap, a ranking of all passages finds
  each label, in the offsets of the whole text that chunks are stored with, that is no
  longer than a phrase windows never divide, or a word of twice that length (a label counts as found when half of it is in one passage; one
  character more, and TLC shows a word that no window covers).  So recall compares
  policies by what they retrieve.  Labels in several overlapping passages, passages cited
  twice and refused cases make no metric exceed one.  With the offsets the documentation asks for
  it fails: `PageLocalLabelsCanBeFound`, section 8.
- `VectorsMatchPassages`, `IndexIsWrittenOnce`: answers in any order, batches, duplicate
  attempts and deaths leave each chunk with the vector of its text, or none with any;
  what has been committed is not rewritten.
- `BackpressureNotSleep`, `EveryCallEnds`: four attempts sleep 35 seconds at most, a
  question none; whoever asks is answered or fails.
- `QuotaHolds`, `RefusalsEnd`: concurrent requests are counted in one atomic step, a
  window admits the quota and a stretch as long as a window, wherever it begins, fewer
  than twice as many;
  a key without expiry gets one again.  A lost reply spends a slot and admits nothing.
- `ScopeIsCurrent`, `IdentitiesSettle`: what a token says is not what a query may read;
  nobody changes tenant, and once the evaluation tenant has an administrator, only
  commands that had already looked add one.
- `StagedBundlesAreSound`, `LaunchedRunsResolve`: nobody who reads a bundle looks at an
  approval or a schema again; approvals, retirement and the immutability of rows have
  to make sure that none would be refused, and that fingerprints stay true.
- `RevisionsNumbered`: numbers read without a lock, and a unique constraint.
- `ComparisonsArePaired`, `ComparedLikeWithLike`: a manifest put together from a form and
  two reads of the active policies pairs every version with one copy; a completed run
  measured two sides that differ in the ingestion policy alone.  A version may
  be missed, when another one was activated in its place after the corpus was validated
  (section 8).

## 6. Fairness

Only what the deployment schedules is fair.  A message that stays in an RQ list is
delivered (the list is first in first out, and other messages end): strong fairness
of `Claim` per id, as another claim may take the last copy in between.  A live worker
goes on, reconcilers loop, thresholds are reached: weak fairness.  A query goes on
whatever its provider does, as every provider call has a time limit and a bounded
number of attempts: weak fairness of its steps.  The chunker is one call that runs on, and a caller of a
provider is resumed, since the HTTP client ends every request that is not answered:
weak fairness of `Chunker` and of `Progress`.  Time passes: weak fairness of `Tick`;
`RefusalsEnd` is about users who do keep asking.  Uploads, launches, operators' decisions, RQ's scheduler,
crashes and faults are owed nothing; in particular a scheduled retry may never
arrive, and the reconciler has to do without.  `docker-compose` sets no restart
policy, so the liveness properties are about a deployment that starts stopped
workers and reconcilers again.

## 7. The proofs

| Module | What is proved, for every value of the constants |
| --- | --- |
| `IngestionPipelineProofs` | `TypeOK`, `ReadyIsComplete`, `CheckpointsInOrder`, `AttemptsWithinBudget`, `UploadHasOriginal`, `ClaimsAreCounted`, `CheckpointsKept`, `OneOwner`, `TerminalIsFinal`, `StatusesAgree`, `LifecycleSpec`; of `EventuallySettled`: `UnsettledJobsAreAccounted` |
| `ProfileActivationProofs` | `TypeOK`, `ActiveIngestionIsRead`, `AuditIsChain`, `OverrideIsIsolated`, `NoCircularWait`, `PolicySpec` |
| `EvaluationRunsProofs` | `TypeOK`, `OneExecutor`, `AggregatesOverAllCases`, `CompletedIsMeasured`, `ApprovedIsReviewed`, `MeasurementsFrozen`, `LifecycleSpec` |
| `DocumentVersionsProofs` | `TypeOK`, `NumbersConsecutive`, `CurrentIsReady`, `ListingAgrees`, `LibrarySpec` |
| `QueryPipelineProofs` | `TypeOK`, `CitedWasShown`, `FusionKeepsAgreement`, `EvidenceIffSufficient`, `OneProfilePerQuery`, `RevocationIsHonoured` |
| `ChunkEmbeddingProofs` | `PassagesQuoteText`, `NothingIsSkipped`, `TypeOK`, `VectorsMatchPassages`, `BackpressureNotSleep`, `IndexIsWrittenOnce`, `AbsoluteLabelsCanBeFound`; of `EveryCallEnds`: `ChunkerIsDeterministic`, `ChunkingEnds` |
| `EvaluationPreparationProofs` | `TypeOK`, `RevisionsNumbered`, `LaunchedRunsResolve`, `ComparisonsArePaired`, `ComparedLikeWithLike`; from `MistralAvailable`: `StagedBundlesAreSound` |
| `AdmissionProofs` | `TypeOK`, `QuotaHolds`, `ScopeIsCurrent`, `IdentitiesSettle` |

So every safety property of a passing run is proved.  Each module rests on one or two inductive invariants; the assumptions are the named `ASSUME`s
of the models, which TLC evaluates in every run.

- Ingestion, whatever workers do (`DurableInv`).  `ReadyIsComplete` says nothing of
  an attempt in progress, so it is not inductive.  The strengthening says what the
  attempt knows: the stages it will not run were read as checkpoints, and
  checkpoints are never removed (`AttemptProgress`).  The budget needs that no
  committed failure is retryable (`FailuresArePermanent`), since `Recoverable` would
  take such a job from its final status.
- Ingestion, job by job until one of its attempts outlasts the threshold (`OwnershipInv`).
  Recovery takes only stale attempts, the start of a job somebody works on is not stale
  (`OwnedIsRecent`), and a claim takes only queued jobs: so a live attempt's job
  stays in processing and is its own.  `outlasted` only grows, and `LifecycleSpec` maps a late
  attempt's write to a step that `JobLifecycle` allows for outlasted jobs alone.
- Ingestion, towards an end (`UnsettledJobsAreAccounted`).  A queued job was never
  published, was published too long ago, or recently; a job in processing has a start, which is
  stale or recent (`StartedInv`).  So the next pass deals with it or a threshold has still to
  pass, and no crash, loss or race leads elsewhere.  An attempt has at most seven
  steps left (`WorkLeft`), each of its worker's steps lowers that, and only a claim raises it;
  claims are bounded by the budget.
- Activation (`GateInv`).  What a transaction has checked stays true until it
  commits, because it holds the rows it checked and nobody writes a row without
  its lock (`SessionInv`, `Frame`).  Approvals are never withdrawn.  The audit chain
  adds that no record is beyond its pointer (`AuditInv`).  Freedom from deadlock
  follows from how far the holder of each row has come (`HolderInv`): who holds the
  query row or the override's waits for nobody, who holds the ingestion row waits
  for the query row at most.
- Evaluation (`RunInv`).  A run is claimed once, so its results are those of one
  execution, remembered by its worker for as long as there is one (`ExecutionInv`); no
  case is due once all have run, so results stop growing before the first aggregate
  (`MeasurementInv`); what an operator has checked only grows (`RequestInv`,
  `ReviewInv`).  The outcome that `EvaluationLifecycle` chooses at completion is
  reconstructed from the results, of which there is exactly one for each case and
  policy.
- Library (`LibraryInv`).  Versions are only added (`Grows`).  Whoever holds a document's
  lock and has read the next number keeps it, since numbers are given out under that lock
  (`UploadInv`); what an activation has checked stays true, since ready versions stay ready
  (`ActivationInv`).  A listing agrees because access only shrinks (`AccessShrinks`): a
  version seen by a later statement belongs to a document an earlier one could see.
  `LibrarySpec` maps each action to one of `SearchableLibrary` or to a stutter.
- Queries (`PipelineInv`, `CitationInv`).  The lists of a query are those of its own
  profile's branches, in order.  `RevocationIsHonoured` looks at one retrieval statement,
  whose candidates are filtered by the policy of that moment; the first invariant says
  which statement that is.  The second follows passages from a statement's result to a
  citation (`FlowInv`): what is in the lists was current and readable when the
  statement ran, so it is in `shown`, which only grows; fusion, the cut, the selection and
  the generator take what they return from what they are given.  It also keeps how each stage was
  made of the one before.  Then `FusionKeepsAgreement` is about one fused list: the parts
  that a dominated passage has from a list are among those of the other one, and in a list
  that has it properly so, hence it has fewer in all; a boost only one of them may
  lack, and not the better one.  `EvidenceIffSufficient` is about one reranked list: its
  first passage has the best score, and is cut off by no limit, so it meets both
  thresholds if any does.  The assumptions are that there are finitely many versions, that
  every profile's list of lexical cohorts has a length, and that `Scale` tells the ranks
  of a list apart.
- Chunker (`ChunkerInv`).  A page is a stretch of positions, what is left of it lies
  before the cursor and the form feeds before it give its number (`WalkInv`, `PageInv`).
  A phrase that was found, or lies ahead on the page, or on a later page stays in
  one of these three places (`PhraseInv`): the next window begins at a word no later than
  the overlap before the end of the last one, or at the next character, and each window
  ends in its second half.  Passages stay in order because no end that the current
  window may have lies before the end of an earlier one (`OrderInv`).  A short label has
  a half that is a phrase, and so a passage that covers it (`LabelIsCovered`).
  The code's loops are stated by what holds where they stop; exactly one position meets each of
  these conditions, since the sets of candidates have a first and a last
  (`FirstAndLast`), so the model is as deterministic as the code
  (`ChunkerIsDeterministic`).  The walk ends because each window starts after the last
  one and each page after its windows: twice what lies ahead of `Walked`, and one between
  pages, falls with every step (`ChunkingEnds`).
- Scoring (`LabelsAreFound`).  Rankings and citations lose no passage when repetitions
  are dropped, as each element has a first place (`DistinctIs`, `InOrderIs`).  So every
  ranking of `Everything` finds every label, and none of `Nothing` does; every metric is a
  count of some positions over the count of all (`CaseMetricIs`), and a case has one of
  each key (`MetricsAreRatios`).  The micro-average of two cases adds one or two
  of them (`AggregateOfTwo`): the recursion behind the sum is unfolded for sets of one and
  two elements (`SumOfOne`, `SumOfTwo`).
- Calls and rows (`EmbeddingInv`).  A worker's texts are those of the committed chunks
  or of the passages it cut, and the n-th of its vectors is of the n-th text, because an
  accepted answer has every index of its batch once (`FitsCaller`).  It asks for the texts
  of all committed chunks in their order and stores when each is answered
  (`FitsGeneration`), so that there are no vectors or one for every chunk
  (`GenerationInv`).  The seconds
  slept are 5 times a power of two less one (`SleptAfter`).  The provers have no rule for
  powers; `PowerNext` counts sets of subsets.
- Preparation (`PreparationInv`).  The tables of configurations,
  revisions and versions only grow (`Grows`), so what an operator's
  session, a manifest or a worker has read stays true until it is used.  Each row that
  is added accounts for itself: a bundle by what its form could offer, a manifest by what
  `InsertRun` checks again.  For `RevisionsNumbered`, the numbers of a suite are exactly those
  from one to the count of its revisions, so that the unique constraint refuses every
  number but the next.  `ComparedLikeWithLike` adds that a copy keeps its text
  and bundle between the validation of the corpus and the measurement.
- Admission (`AdmissionInv`).  A request's departments are among those its user has held since
  it came in (`RequestInv`), and the counter of a key is at least the number of requests
  that its life has admitted, as lost replies only add to it (`KeysInv`).  For a stretch across two keys (`WindowInv`): a key
  outlives by a window the query it was created for and everything admitted before, also
  when its expiry is lost and set anew, so that when the next one is created those are a window
  ago.  Each query is known by what its key had counted with it.  What is left are the places of two
  keys without the first of the older one, one fewer than twice the quota.

Left to TLC:

- the liveness properties (`EventuallySettled` twice, `QueriesEnd`, `EveryCallEnds`,
  `RefusalsEnd`), which need fairness and `ENABLED`, and the violated statements.  Proved of
  them is what no scheduling can change: the variants and the cases of the two theorems above;
- micro-averages of more than two cases and rankings of more than one cohort: what a sum
  or a flattening computes for every number of them is an induction over data.

## 8. Where code and documentation part

- `FailureRecordIsDurable` (`lost_failure_record`): failures recorded outside a
  transaction block are rolled back with the session; the job stays in
  processing until it is stale, and the retry scheduled in Redis finds nothing
  to claim.  Recovery still settles the job (`EventuallySettled`).
- `GenerationBoundAtCompletion` (`resume_after_checkpoints`): a worker that dies
  after the last checkpoint leaves a version that no later attempt completes; it
  ends failed when the budget is spent.
- `EditorsMayReplace` (`editors_replacement`): the upload of a next version locks the
  document under the uploading user, and the row policies let only administrators
  lock; an editor's replacement ends as not found after its original was stored.
- `PageLocalLabelsCanBeFound` (`page_local_labels`): labels are documented as page-local
  (`docs/application/README.md:131-132`, "offsets are page-local"; `scoring.py:9`, "A
  page-local span"), while a passage's offsets count from the beginning of the text
  (`page_window.py:55`, `PassagesQuoteText`) and `_covers` (`scoring.py:48`) compares the
  two as they are.  A label written as documented on any page but the first is compared
  with another stretch, or with none: TLC finds a text of a page break and one letter whose
  label no passage covers, which a run scores as missed by both policies.

Remarks that are no runs:

- ADR 002 (lines 59-60) has retrieval use the current
  ready version of a document; each retrieval statement reads the current versions
  anew, so when one is activated between the lexical and the vector statement of a
  query, one answer may cite two versions of one document.
- ADR 006 (lines 70-71)
  has the evaluation reconciler republish runs that were never confirmed as enqueued;
  the code (`EvaluationRunRepository.list_pending_ids`) lists every pending run, and has
  to: with the documented choice a message that Redis accepted and lost is never
  replaced, and `EventuallySettled` fails.
- The cohort check of a query switch (`approval.py:225`, `:397`) sees ready generations
  and the active ingestion bundle, not generations still being built: an upload that has
  read the pointer before two switches becomes ready under a bundle no active query
  policy reads.
- A quality score is checked against the gate decision before it is written
  (`application/evaluation/service.py:479`), without a lock: a score may be written after
  a decision that did not see it, though never a first one (`ApprovedIsReviewed`).
- An edit of a suite is refused when a later revision exists
  (`evaluation_routes.py:319`); the check and the insertion are separate transactions, so
  of two edits of one revision the second may still be saved, on top of
  the first, whose changes it does not have.  `RevisionsNumbered` is what remains.
- The corpus of a run is validated once (`runner.py:60`).  A version replaced after that
  is not searched, and the run completes over what is left; `missed` in
  `ComparedLikeWithLike` stands for it.
- `ProfileCatalog` promises one consistent view (its docstring); `list_all` is five
  statements under READ COMMITTED.
- "Create only the first test-tenant admin" (`application/evaluation/identity.py:25`): two
  commands that both find the tenant empty both create one.
- `_next_start` is to begin at a word boundary (`page_window.py:67`); a token longer than
  the overlap makes the next window begin inside it.
- "Interactive callers should receive backpressure, not 35s of retry sleeps"
  (`api/dependencies.py:344`) is true of the embedding of a question; the completions of
  the same request (`infrastructure/mistral/agents.py:66`) do retry.

## 9. Plan

What is left, in the order in which it is to be done.

1. The arithmetic of the retry backoff, and the reconciler's batch limit with
   candidates that stay recoverable.
2. The row policies of workers, reconcilers and operators (migration 0012), beside those
   of API users.
3. Passages with pages and offsets in `QueryPipeline`, and its entry with a fixed corpus and
   the checks of the evaluation executor before it.

Not modelled, and why: request and response schemas, page rendering and error mapping
translate and keep no state; token signatures and password hashing are library
calls; parsers, OCR, recognisers and models of providers are behind interfaces whose
outcomes the models choose; vector values and similarity are arithmetic on reals;
metrics, load generation, build files and the downgrade halves of migrations take no
decision of the program.  `set_active_suite` and `set_active_revision` are called by no
route, so no model has an action for them.  The notes of `components` in `PROJECT.json`
say it component by component.
