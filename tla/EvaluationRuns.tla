--------------------------- MODULE EvaluationRuns ---------------------------
(***************************************************************************)
(* Evaluation runs: the Admin Panel commits a pending run and publishes    *)
(* its id; an RQ worker claims it, executes every case with both policies, *)
(* commits result after result and then the aggregates, each in a          *)
(* transaction of its own, and completes or fails the run; a reconciler    *)
(* republishes pending runs and fails running ones whose heartbeat is two  *)
(* hours old; operators score answers and decide on completed runs.        *)
(*                                                                         *)
(* Cases are executed in any order, and a heartbeat may grow stale under a *)
(* worker that is alive, both of which only add behaviours.                *)
(***************************************************************************)
EXTENDS EvaluationReports, Naturals

CONSTANTS
  Runs,       \* evaluation runs of one suite revision
  Workers,    \* RQ worker processes of the evaluation queue
  Operators,  \* operators who score and decide
  NoRun,      \* the run of an idle process
  MaxCopies,  \* bound: copies of one id in the Redis list
  MaxFaults   \* bound: failed loads, queue outages, reconciler deaths

ASSUME ConstantsAssumption ==
  /\ NoRun \notin Runs
  /\ MaxCopies \in Nat \ {0}
  /\ MaxFaults \in Nat

VARIABLES
  run,         \* committed evaluation_runs rows
  results,     \* committed evaluation_case_results rows of each run
  aggregates,  \* committed evaluation_aggregates rows of each run
  scored,      \* results whose answer_quality_score is set, by execution
  review,      \* the committed evaluation_gate_reviews row of each run
  launcher,    \* progress of the panel request that launches each run
  queue,       \* copies of each run id in the RQ evaluation queue
  worker,      \* the worker processes
  reconciler,  \* the reconciler process
  operator,    \* the operators' open transactions
  faults       \* environment faults so far

vars == <<run, results, aggregates, scored, review, launcher, queue, worker,
          reconciler, operator, faults>>

rows == <<run, results, aggregates, scored, review>>

-----------------------------------------------------------------------------
(* Rows and process states. *)

RunRow == [status   : {"absent", "pending", "running", "completed", "failed"},
           enqueued : BOOLEAN,   \* is enqueued_at set?
           stale    : BOOLEAN]   \* running, and heartbeat_at two hours old?

NoRow == [status |-> "absent", enqueued |-> FALSE, stale |-> FALSE]

IdleWorker == [pc |-> "idle", run |-> NoRun, measured |-> {}, published |-> {}]

ExecutionState ==
  [pc        : {"cases", "beat", "failing"},
   run       : Runs,
   measured  : SUBSET Result,        \* the local variable measurements
   published : SUBSET Measurement]   \* aggregates added so far

IdleReconciler == [pc |-> "idle", run |-> NoRun, pending |-> {}]

IdleOperator == [pc |-> "idle"]

Request == [pc : {"score"}, run : Runs, execution : Executions]
           \union [pc : {"decide"}, run : Runs, verdict : {"approve", "reject"}]

TypeOK ==
  /\ run \in [Runs -> RunRow]
  /\ results \in [Runs -> SUBSET Result]
  /\ aggregates \in [Runs -> SUBSET Measurement]
  /\ scored \in [Runs -> SUBSET Executions]
  /\ review \in [Runs -> {"none", "approve", "reject"}]
  /\ launcher \in [Runs -> {"idle", "committed", "published", "over"}]
  /\ queue \in [Runs -> 0..MaxCopies]
  /\ worker \in [Workers -> ExecutionState \union {IdleWorker}]
  /\ reconciler \in [pc : {"idle", "publish", "mark", "fail"},
                     run : Runs \union {NoRun}, pending : SUBSET Runs]
  /\ operator \in [Operators -> Request \union {IdleOperator}]
  /\ faults \in 0..MaxFaults

Init ==
  /\ run = [r \in Runs |-> NoRow]
  /\ results = [r \in Runs |-> {}]
  /\ aggregates = [r \in Runs |-> {}]
  /\ scored = [r \in Runs |-> {}]
  /\ review = [r \in Runs |-> "none"]
  /\ launcher = [r \in Runs |-> "idle"]
  /\ queue = [r \in Runs |-> 0]
  /\ worker = [w \in Workers |-> IdleWorker]
  /\ reconciler = IdleReconciler
  /\ operator = [o \in Operators |-> IdleOperator]
  /\ faults = 0

-----------------------------------------------------------------------------
(* The guarded updates of the run repository. *)

ClaimableMistake(row) == row.status \in {"pending", "running"}

Claimable(row) == row.status = "pending"

ClaimPending(row) == [row EXCEPT !.status = "running", !.stale = FALSE]

MarkEnqueued(row) ==
  IF row.status = "pending" THEN [row EXCEPT !.enqueued = TRUE] ELSE row

TouchHeartbeat(row) ==
  IF row.status = "running" THEN [row EXCEPT !.stale = FALSE] ELSE row

SettleMistake(row, status) == [row EXCEPT !.status = status, !.stale = FALSE]

\* Completion and failure move a run only while it is still running.
Settle(row, status) ==
  IF row.status = "running"
  THEN [row EXCEPT !.status = status, !.stale = FALSE] ELSE row

StaleRunningMistake(row) == row.stale /\ row.enqueued /\ row.status = "running"

StaleRunning(row) == row.status = "running" /\ row.stale

\* One more copy of the id in the Redis list, up to the bound.
Enqueued(r) == [queue EXCEPT ![r] = IF @ < MaxCopies THEN @ + 1 ELSE @]

-----------------------------------------------------------------------------
(* The panel request that launches a run. *)

CreateRun(r) ==
  /\ launcher[r] = "idle"
  /\ run' = [run EXCEPT ![r].status = "pending"]
  /\ launcher' = [launcher EXCEPT ![r] = "committed"]
  /\ UNCHANGED <<results, aggregates, scored, review, queue, worker,
                 reconciler, operator, faults>>

PublishRun(r) ==
  /\ launcher[r] = "committed"
  /\ queue' = Enqueued(r)
  /\ launcher' = [launcher EXCEPT ![r] = "published"]
  /\ UNCHANGED <<rows, worker, reconciler, operator, faults>>

MarkPublished(r) ==
  /\ launcher[r] = "published"
  /\ run' = [run EXCEPT ![r] = MarkEnqueued(@)]
  /\ launcher' = [launcher EXCEPT ![r] = "over"]
  /\ UNCHANGED <<results, aggregates, scored, review, queue, worker,
                 reconciler, operator, faults>>

\* Redis refuses the id, or the panel dies, between two of its steps.
InterruptLaunch(r) ==
  /\ launcher[r] \in {"committed", "published"}
  /\ launcher' = [launcher EXCEPT ![r] = "over"]
  /\ UNCHANGED <<rows, queue, worker, reconciler, operator, faults>>

-----------------------------------------------------------------------------
(* The worker. *)

\* A delivery.  Only a pending run is claimed: the message of any other run
\* is consumed without effect.
Claim(w, r) ==
  /\ worker[w] = IdleWorker
  /\ queue[r] > 0
  /\ queue' = [queue EXCEPT ![r] = @ - 1]
  /\ IF Claimable(run[r])
     THEN /\ run' = [run EXCEPT ![r] = ClaimPending(@)]
          /\ worker' = [worker EXCEPT ![w] = [pc |-> "cases", run |-> r,
                                              measured |-> {}, published |-> {}]]
     ELSE UNCHANGED <<run, worker>>
  /\ UNCHANGED <<results, aggregates, scored, review, launcher, reconciler,
                 operator, faults>>

\* Redis loses the id, or the worker that took it raises or dies before its
\* claim: the run is as it was.
LoseDelivery(r) ==
  /\ queue[r] > 0
  /\ faults < MaxFaults
  /\ queue' = [queue EXCEPT ![r] = @ - 1]
  /\ faults' = faults + 1
  /\ UNCHANGED <<rows, launcher, worker, reconciler, operator>>

Did(ws, c, v) == \E x \in ws.measured : x.case = c /\ x.variant = v

\* The candidate follows the baseline, and a case is finished before the
\* next one begins.
Due(ws, c, v) ==
  /\ ~Did(ws, c, v)
  /\ v = "candidate" => Did(ws, c, "baseline")
  /\ v = "baseline" =>
       \A d \in Cases : Did(ws, d, "baseline") => Did(ws, d, "candidate")

\* One execution through the query pipeline, measured and committed.
ExecuteCase(w, c, v, outcome) ==
  LET result == [case |-> c, variant |-> v, outcome |-> outcome] IN
  /\ worker[w].pc = "cases"
  /\ Due(worker[w], c, v)
  /\ results' = [results EXCEPT ![worker[w].run] = @ \union {result}]
  /\ worker' = [worker EXCEPT ![w].pc = "beat",
                              ![w].measured = @ \union {result}]
  /\ UNCHANGED <<run, aggregates, scored, review, launcher, queue, reconciler,
                 operator, faults>>

Beat(w) ==
  /\ worker[w].pc = "beat"
  /\ run' = [run EXCEPT ![worker[w].run] = TouchHeartbeat(@)]
  /\ worker' = [worker EXCEPT ![w].pc = "cases"]
  /\ UNCHANGED <<results, aggregates, scored, review, launcher, queue,
                 reconciler, operator, faults>>

FinishedMistake(ws) == ws.pc = "cases" /\ ws.measured # {}

\* The loop over the cases is over.
Finished(ws) == ws.pc = "cases" /\ Whole(ws.measured)

Unpublished(ws) == Summary(ws.measured) \ ws.published

\* The baseline's aggregates are added before the candidate's.
AddAggregate(w, a) ==
  /\ Finished(worker[w])
  /\ a \in Unpublished(worker[w])
  /\ a.variant = "candidate" =>
       \A b \in Unpublished(worker[w]) : b.variant = "candidate"
  /\ aggregates' = [aggregates EXCEPT ![worker[w].run] = @ \union {a}]
  /\ worker' = [worker EXCEPT ![w].published = @ \union {a}]
  /\ UNCHANGED <<run, results, scored, review, launcher, queue, reconciler,
                 operator, faults>>

Complete(w) ==
  /\ Finished(worker[w])
  /\ Unpublished(worker[w]) = {}
  /\ run' = [run EXCEPT ![worker[w].run] = Settle(@, "completed")]
  /\ worker' = [worker EXCEPT ![w] = IdleWorker]
  /\ UNCHANGED <<results, aggregates, scored, review, launcher, queue,
                 reconciler, operator, faults>>

\* Any exception: a changed corpus, a provider, the database, RQ's timeout.
Raise(w) ==
  /\ worker[w].pc \in {"cases", "beat"}
  /\ worker' = [worker EXCEPT ![w].pc = "failing"]
  /\ UNCHANGED <<rows, launcher, queue, reconciler, operator, faults>>

FailRun(w) ==
  /\ worker[w].pc = "failing"
  /\ run' = [run EXCEPT ![worker[w].run] = Settle(@, "failed")]
  /\ worker' = [worker EXCEPT ![w] = IdleWorker]
  /\ UNCHANGED <<results, aggregates, scored, review, launcher, queue,
                 reconciler, operator, faults>>

\* The work horse is killed, or the update that fails the run raises too.
CrashWorker(w) ==
  /\ worker[w].pc # "idle"
  /\ worker' = [worker EXCEPT ![w] = IdleWorker]
  /\ UNCHANGED <<rows, launcher, queue, reconciler, operator, faults>>

-----------------------------------------------------------------------------
(* The reconciler: list, publish and mark each, fail what is stale. *)

ListedMistake == {r \in Runs : run[r].status = "pending" /\ ~run[r].enqueued}

\* Every pending run, whether or not it has been enqueued.
Listed == {r \in Runs : run[r].status = "pending"}

ListPending ==
  /\ reconciler = IdleReconciler
  /\ reconciler' = [pc |-> "publish", run |-> NoRun, pending |-> Listed]
  /\ UNCHANGED <<rows, launcher, queue, worker, operator, faults>>

Republish(r) ==
  /\ reconciler.pc = "publish"
  /\ r \in reconciler.pending
  /\ queue' = Enqueued(r)
  /\ reconciler' = [pc |-> "mark", run |-> r,
                    pending |-> reconciler.pending \ {r}]
  /\ UNCHANGED <<rows, launcher, worker, operator, faults>>

MarkRepublished ==
  /\ reconciler.pc = "mark"
  /\ run' = [run EXCEPT ![reconciler.run] = MarkEnqueued(@)]
  /\ reconciler' = [reconciler EXCEPT !.pc = "publish", !.run = NoRun]
  /\ UNCHANGED <<results, aggregates, scored, review, launcher, queue, worker,
                 operator, faults>>

\* Redis refuses an id: the rest of the list waits for the next pass.
BreakOff ==
  /\ reconciler.pc = "publish"
  /\ reconciler.pending # {}
  /\ faults < MaxFaults
  /\ faults' = faults + 1
  /\ reconciler' = [pc |-> "fail", run |-> NoRun, pending |-> {}]
  /\ UNCHANGED <<rows, launcher, queue, worker, operator>>

\* One update fails every running run whose heartbeat is too old.
FailStaleRunning ==
  /\ reconciler.pc \in {"publish", "fail"}
  /\ reconciler.pending = {}
  /\ run' = [r \in Runs |-> IF StaleRunning(run[r])
                            THEN Settle(run[r], "failed") ELSE run[r]]
  /\ reconciler' = IdleReconciler
  /\ UNCHANGED <<results, aggregates, scored, review, launcher, queue, worker,
                 operator, faults>>

\* The process dies, or an exception other than an unavailable queue ends it,
\* and it is started again.
InterruptReconciler ==
  /\ reconciler # IdleReconciler
  /\ faults < MaxFaults
  /\ faults' = faults + 1
  /\ reconciler' = IdleReconciler
  /\ UNCHANGED <<rows, launcher, queue, worker, operator>>

\* Two hours pass without a heartbeat.
GrowStale(r) ==
  /\ run[r].status = "running"
  /\ ~run[r].stale
  /\ run' = [run EXCEPT ![r].stale = TRUE]
  /\ UNCHANGED <<results, aggregates, scored, review, launcher, queue, worker,
                 reconciler, operator, faults>>

-----------------------------------------------------------------------------
(* Operators.  Checks and writes are one READ COMMITTED transaction that     *)
(* locks nothing: others commit between the two.  What is checked only ever  *)
(* grows, so reading it at one point loses no behaviour.                     *)

Saved(r) == {<<x.case, x.variant>> : x \in results[r]}

BeginScore(o, r, x) ==
  /\ operator[o] = IdleOperator
  /\ run[r].status = "completed"
  /\ review[r] = "none"
  /\ x \in Saved(r) \ scored[r]
  /\ operator' = [operator EXCEPT ![o] =
                    [pc |-> "score", run |-> r, execution |-> x]]
  /\ UNCHANGED <<rows, launcher, queue, worker, reconciler, faults>>

\* The update sets a score only where there is none; it does not look for a
\* decision again.
CommitScore(o) ==
  /\ operator[o].pc = "score"
  /\ scored' = [scored EXCEPT ![operator[o].run] =
                  @ \union {operator[o].execution}]
  /\ operator' = [operator EXCEPT ![o] = IdleOperator]
  /\ UNCHANGED <<run, results, aggregates, review, launcher, queue, worker,
                 reconciler, faults>>

DecidableMistake(r, verdict) ==
  /\ run[r].status = "completed"
  /\ Executions \subseteq Saved(r)
  /\ verdict = "approve" => \E c \in Cases : <<c, "candidate">> \in scored[r]

\* Every case has finished with both policies, and an approval has seen the
\* quality of every candidate answer.
Decidable(r, verdict) ==
  /\ run[r].status = "completed"
  /\ Executions \subseteq Saved(r)
  /\ verdict = "approve" =>
       {x \in Saved(r) : x[2] = "candidate"} \subseteq scored[r]

BeginDecision(o, r, verdict) ==
  /\ operator[o] = IdleOperator
  /\ review[r] = "none"
  /\ Decidable(r, verdict)
  /\ operator' = [operator EXCEPT ![o] =
                    [pc |-> "decide", run |-> r, verdict |-> verdict]]
  /\ UNCHANGED <<rows, launcher, queue, worker, reconciler, faults>>

CommitDecisionMistake(o) ==
  /\ operator[o].pc = "decide"
  /\ review' = [review EXCEPT ![operator[o].run] = operator[o].verdict]
  /\ operator' = [operator EXCEPT ![o] = IdleOperator]
  /\ UNCHANGED <<run, results, aggregates, scored, launcher, queue, worker,
                 reconciler, faults>>

\* run_id is unique among the reviews: the second insertion cannot commit.
CommitDecision(o) ==
  /\ operator[o].pc = "decide"
  /\ review[operator[o].run] = "none"
  /\ review' = [review EXCEPT ![operator[o].run] = operator[o].verdict]
  /\ operator' = [operator EXCEPT ![o] = IdleOperator]
  /\ UNCHANGED <<run, results, aggregates, scored, launcher, queue, worker,
                 reconciler, faults>>

\* The transaction is rolled back, by a refused insertion or otherwise.
Rollback(o) ==
  /\ operator[o] # IdleOperator
  /\ operator' = [operator EXCEPT ![o] = IdleOperator]
  /\ UNCHANGED <<rows, launcher, queue, worker, reconciler, faults>>

-----------------------------------------------------------------------------
(* The specification. *)

Launch(r) ==
  CreateRun(r) \/ PublishRun(r) \/ MarkPublished(r) \/ InterruptLaunch(r)

Execute(w) ==
  \/ \E c \in Cases, v \in Variants, outcome \in Outcomes :
       ExecuteCase(w, c, v, outcome)
  \/ Beat(w)
  \/ \E a \in Measurement : AddAggregate(w, a)
  \/ Complete(w)
  \/ Raise(w)
  \/ FailRun(w)

Reconcile ==
  \/ ListPending
  \/ \E r \in Runs : Republish(r)
  \/ MarkRepublished
  \/ FailStaleRunning

Operate(o) ==
  \/ \E r \in Runs, x \in Executions : BeginScore(o, r, x)
  \/ CommitScore(o)
  \/ \E r \in Runs, verdict \in {"approve", "reject"} :
       BeginDecision(o, r, verdict)
  \/ CommitDecision(o)
  \/ Rollback(o)

Next ==
  \/ \E r \in Runs : Launch(r)
  \/ \E w \in Workers, r \in Runs : Claim(w, r)
  \/ \E r \in Runs : LoseDelivery(r)
  \/ \E w \in Workers : Execute(w)
  \/ \E w \in Workers : CrashWorker(w)
  \/ Reconcile
  \/ BreakOff
  \/ InterruptReconciler
  \/ \E r \in Runs : GrowStale(r)
  \/ \E o \in Operators : Operate(o)

Spec == Init /\ [][Next]_vars

(* RQ's list is first in first out, so an id that keeps being in it is       *)
(* delivered; a live worker goes on; the reconciler loops; heartbeats age.   *)
(* Launches, operators, crashes and faults are owed nothing.                 *)
Fairness ==
  /\ \A r \in Runs : SF_vars(\E w \in Workers : Claim(w, r))
  /\ \A w \in Workers : WF_vars(Execute(w))
  /\ WF_vars(Reconcile)
  /\ \A r \in Runs : WF_vars(GrowStale(r))

FairSpec == Spec /\ Fairness

-----------------------------------------------------------------------------
(* Properties. *)

\* Duplicate deliveries, from the panel and from every pass of the
\* reconciler, never make two workers execute one run.
OneExecutor ==
  \A w1, w2 \in Workers :
    worker[w1].run = worker[w2].run /\ worker[w1].run # NoRun => w1 = w2

\* "only writes aggregate measurements after every case/variant has
\* finished" (ADR 006): an aggregate, of a failed run too, adds up exactly
\* the committed results that have its metric, of a run in which every case
\* was executed with both policies.
AggregatesOverAllCases ==
  \A r \in Runs : \A a \in aggregates[r] :
    /\ Whole(results[r])
    /\ a.cases = Measured(results[r], a.variant, a.metric)

\* A completed run has one result for each case and policy and every
\* aggregate of theirs, whoever failed, crashed or was taken for dead before.
CompletedIsMeasured ==
  \A r \in Runs : run[r].status = "completed" =>
    /\ \E outcome \in [Executions -> Outcomes] : results[r] = CompleteResults(outcome)
    /\ aggregates[r] = Summary(results[r])

\* What a decision is about does not move: nothing is measured any more in
\* a completed run, although a run that was failed for its stale heartbeat
\* may still get results from a worker that is alive.
MeasurementsFrozen ==
  [][\A r \in Runs : run[r].status = "completed" =>
       results'[r] = results[r] /\ aggregates'[r] = aggregates[r]]_vars

\* An approval, checked before it was inserted without any lock, stands on a
\* completed run whose candidate answers all have a score.
ApprovedIsReviewed ==
  \A r \in Runs : review[r] = "approve" =>
    /\ run[r].status = "completed"
    /\ Cases \X {"candidate"} \subseteq scored[r]

\* Whatever is lost or dies, a committed run completes or fails.
EventuallySettled ==
  \A r \in Runs : run[r].status \in {"pending", "running"}
                    ~> run[r].status \in {"completed", "failed"}

Lifecycle ==
  INSTANCE EvaluationLifecycle WITH
    status   <- [r \in Runs |-> run[r].status],
    report   <- [r \in Runs |-> IF run[r].status = "completed"
                                THEN aggregates[r] ELSE {}],
    decision <- review

\* Launches, deliveries, workers, recovery and operators together show
\* nothing but the life cycle of runs.
LifecycleSpec == Lifecycle!Spec

=============================================================================
