-------------------------- MODULE EvaluationRunsProofs --------------------------
(***************************************************************************)
(* Theorems about EvaluationRuns for every set of cases, runs, workers and *)
(* operators, and every bound.                                             *)
(*                                                                         *)
(* The argument rests on the claim: a run is claimed once, so from then on *)
(* its results and aggregates are those of one execution, even when the    *)
(* reconciler has meanwhile taken that execution for dead.                 *)
(***************************************************************************)
EXTENDS EvaluationRuns, TLAPS

\* A busy worker's execution.
Busy(w) == worker[w] # IdleWorker

-----------------------------------------------------------------------------
(* Types. *)

LEMMA RowTypes ==
  ASSUME NEW row \in RunRow
  PROVE  /\ NoRow \in RunRow
         /\ [row EXCEPT !.status = "pending"] \in RunRow
         /\ [row EXCEPT !.stale = TRUE] \in RunRow
         /\ ClaimPending(row) \in RunRow
         /\ MarkEnqueued(row) \in RunRow
         /\ TouchHeartbeat(row) \in RunRow
         /\ Settle(row, "completed") \in RunRow
         /\ Settle(row, "failed") \in RunRow
BY DEF RunRow, NoRow, ClaimPending, MarkEnqueued, TouchHeartbeat, Settle

LEMMA WorkerTypes ==
  ASSUME TypeOK, NEW w \in Workers
  PROVE  /\ worker[w].pc \in {"idle", "cases", "beat", "failing"}
         /\ worker[w].run \in Runs \union {NoRun}
         /\ worker[w].measured \in SUBSET Result
         /\ worker[w].published \in SUBSET Measurement
         /\ Busy(w) <=> worker[w].pc # "idle"
         /\ Busy(w) <=> worker[w].run # NoRun
         /\ Busy(w) => worker[w] \in ExecutionState
BY ConstantsAssumption DEF TypeOK, ExecutionState, IdleWorker, Busy

LEMMA ExecutionTypes ==
  ASSUME NEW ws \in ExecutionState, NEW x \in Result, NEW a \in Measurement
  PROVE  /\ [ws EXCEPT !.pc = "beat", !.measured = @ \union {x}] \in ExecutionState
         /\ [ws EXCEPT !.pc = "cases"] \in ExecutionState
         /\ [ws EXCEPT !.pc = "failing"] \in ExecutionState
         /\ [ws EXCEPT !.published = @ \union {a}] \in ExecutionState
BY DEF ExecutionState

LEMMA QueueTypes ==
  ASSUME TypeOK, NEW r \in Runs
  PROVE  /\ Enqueued(r) \in [Runs -> 0..MaxCopies]
         /\ queue[r] > 0 =>
              [queue EXCEPT ![r] = @ - 1] \in [Runs -> 0..MaxCopies]
         /\ faults < MaxFaults => faults + 1 \in 0..MaxFaults
BY ConstantsAssumption DEF TypeOK, Enqueued

LEMMA OperatorTypes ==
  ASSUME TypeOK, NEW o \in Operators
  PROVE  /\ operator[o] # IdleOperator =>
              operator[o] \in Request /\ operator[o].run \in Runs
         /\ operator[o].pc = "score" =>
              /\ operator[o] # IdleOperator
              /\ operator[o].execution \in Executions
         /\ operator[o].pc = "decide" =>
              /\ operator[o] # IdleOperator
              /\ operator[o].verdict \in {"approve", "reject"}
<1>1. operator[o] \in Request \union {IdleOperator}
  BY DEF TypeOK
<1>2. CASE operator[o] = IdleOperator
  BY <1>2 DEF IdleOperator
<1>3. CASE operator[o] \in [pc : {"score"}, run : Runs, execution : Executions]
  BY <1>3 DEF IdleOperator, Request
<1>4. CASE operator[o] \in [pc : {"decide"}, run : Runs,
                            verdict : {"approve", "reject"}]
  BY <1>4 DEF IdleOperator, Request
<1> QED BY <1>1, <1>2, <1>3, <1>4 DEF Request

\* One lemma per process: its steps keep the types.
LEMMA LaunchType ==
  ASSUME TypeOK, NEW r \in Runs, Launch(r)
  PROVE  TypeOK'
<1> USE DEF TypeOK
<1>1. run[r] \in RunRow
  OBVIOUS
<1>2. CASE CreateRun(r)
  BY <1>1, <1>2, RowTypes DEF CreateRun
<1>3. CASE PublishRun(r)
  BY <1>3, QueueTypes DEF PublishRun, rows
<1>4. CASE MarkPublished(r)
  BY <1>1, <1>4, RowTypes DEF MarkPublished
<1>5. CASE InterruptLaunch(r)
  BY <1>5 DEF InterruptLaunch, rows
<1> QED BY <1>2, <1>3, <1>4, <1>5 DEF Launch

LEMMA WorkerType ==
  ASSUME TypeOK, NEW w \in Workers, Execute(w) \/ CrashWorker(w)
  PROVE  TypeOK'
<1> DEFINE r == worker[w].run
           ws == worker[w]
<1>1. /\ ws \in ExecutionState
      /\ r \in Runs
      /\ run[r] \in RunRow
      /\ IdleWorker \in ExecutionState \union {IdleWorker}
  BY WorkerTypes DEF Execute, ExecuteCase, Beat, AddAggregate, Finished, Complete,
     Raise, FailRun, CrashWorker, TypeOK, ExecutionState
<1>2. ASSUME NEW c \in Cases, NEW v \in Variants, NEW outcome \in Outcomes,
             ExecuteCase(w, c, v, outcome)
      PROVE  TypeOK'
  <2> DEFINE result == [case |-> c, variant |-> v, outcome |-> outcome]
  <2>1. result \in Result
    BY DEF Result
  <2>2. [ws EXCEPT !.pc = "beat", !.measured = @ \union {result}] \in ExecutionState
    BY <1>1, <2>1 DEF ExecutionState
  <2>3. /\ results' = [results EXCEPT ![r] = @ \union {result}]
        /\ worker' = [worker EXCEPT ![w] =
                         [ws EXCEPT !.pc = "beat", !.measured = @ \union {result}]]
    BY <1>2 DEF ExecuteCase, TypeOK
  <2>4. UNCHANGED <<run, aggregates, scored, review, launcher, queue, reconciler,
                    operator, faults>>
    BY <1>2 DEF ExecuteCase
  <2> HIDE DEF result
  <2>5. worker' \in [Workers -> ExecutionState \union {IdleWorker}]
    BY <2>2, <2>3 DEF TypeOK
  <2>6. results' \in [Runs -> SUBSET Result]
    BY <2>1, <2>3 DEF TypeOK
  <2> QED BY <2>4, <2>5, <2>6 DEF TypeOK
<1>3. CASE Beat(w)
  <2>1. worker' = [worker EXCEPT ![w] = [ws EXCEPT !.pc = "cases"]]
    BY <1>3 DEF Beat
  <2>2. [ws EXCEPT !.pc = "cases"] \in ExecutionState
    BY <1>1 DEF ExecutionState
  <2> QED BY <1>1, <1>3, <2>1, <2>2, RowTypes DEF Beat, TypeOK
<1>4. ASSUME NEW a \in Measurement, AddAggregate(w, a) PROVE TypeOK'
  <2>1. worker' = [worker EXCEPT ![w] = [ws EXCEPT !.published = @ \union {a}]]
    BY <1>4 DEF AddAggregate
  <2>2. [ws EXCEPT !.published = @ \union {a}] \in ExecutionState
    BY <1>1 DEF ExecutionState
  <2> QED BY <1>1, <1>4, <2>1, <2>2 DEF AddAggregate, TypeOK
<1>5. CASE Complete(w)
  BY <1>1, <1>5, RowTypes DEF Complete, TypeOK
<1>6. CASE Raise(w)
  <2>1. worker' = [worker EXCEPT ![w] = [ws EXCEPT !.pc = "failing"]]
    BY <1>6 DEF Raise
  <2>2. [ws EXCEPT !.pc = "failing"] \in ExecutionState
    BY <1>1 DEF ExecutionState
  <2> QED BY <1>6, <2>1, <2>2 DEF Raise, rows, TypeOK
<1>7. CASE FailRun(w)
  BY <1>1, <1>7, RowTypes DEF FailRun, TypeOK
<1>8. CASE CrashWorker(w)
  BY <1>8 DEF CrashWorker, rows, TypeOK
<1> QED BY <1>2, <1>3, <1>4, <1>5, <1>6, <1>7, <1>8 DEF Execute

LEMMA DeliveryType ==
  ASSUME TypeOK, NEW r \in Runs,
         (\E w \in Workers : Claim(w, r)) \/ LoseDelivery(r) \/ GrowStale(r)
  PROVE  TypeOK'
<1>1. run[r] \in RunRow
  BY DEF TypeOK
<1>2. ASSUME NEW w \in Workers, Claim(w, r) PROVE TypeOK'
  <2> DEFINE claimed == [pc |-> "cases", run |-> r, measured |-> {}, published |-> {}]
  <2>1. claimed \in ExecutionState
    BY DEF ExecutionState
  <2>2. queue' \in [Runs -> 0..MaxCopies]
    BY <1>2, QueueTypes DEF Claim
  <2>3. ClaimPending(run[r]) \in RunRow
    BY <1>1, RowTypes
  <2>4. run' \in [Runs -> RunRow]
    BY <1>2, <2>3 DEF Claim, TypeOK
  <2>5. worker' = [worker EXCEPT ![w] = claimed] \/ worker' = worker
    BY <1>2 DEF Claim
  <2> HIDE DEF claimed
  <2>6. worker' \in [Workers -> ExecutionState \union {IdleWorker}]
    BY <2>1, <2>5 DEF TypeOK
  <2> QED BY <1>2, <2>2, <2>4, <2>6 DEF Claim, TypeOK
<1>3. CASE LoseDelivery(r)
  BY <1>3, QueueTypes DEF LoseDelivery, rows, TypeOK
<1>4. CASE GrowStale(r)
  BY <1>1, <1>4, RowTypes DEF GrowStale, TypeOK
<1> QED BY <1>2, <1>3, <1>4

LEMMA ReconcilerType ==
  ASSUME TypeOK, Reconcile \/ BreakOff \/ InterruptReconciler
  PROVE  TypeOK'
<1>1. CASE ListPending
  BY <1>1 DEF ListPending, Listed, rows, TypeOK
<1>2. ASSUME NEW r \in Runs, Republish(r) PROVE TypeOK'
  BY <1>2, QueueTypes DEF Republish, rows, TypeOK
<1>3. CASE MarkRepublished
  <2>1. \A r \in Runs : MarkEnqueued(run[r]) \in RunRow
    BY RowTypes DEF TypeOK
  <2> QED BY <1>3, <2>1 DEF MarkRepublished, TypeOK
<1>4. CASE FailStaleRunning
  <2>1. \A r \in Runs : run[r] \in RunRow /\ Settle(run[r], "failed") \in RunRow
    BY RowTypes DEF TypeOK
  <2> QED BY <1>4, <2>1 DEF FailStaleRunning, IdleReconciler, TypeOK
<1>5. CASE BreakOff
  BY <1>5, ConstantsAssumption DEF BreakOff, rows, TypeOK
<1>6. CASE InterruptReconciler
  BY <1>6, ConstantsAssumption DEF InterruptReconciler, IdleReconciler, rows, TypeOK
<1> QED BY <1>1, <1>2, <1>3, <1>4, <1>5, <1>6 DEF Reconcile

LEMMA OperatorType ==
  ASSUME TypeOK, NEW o \in Operators, Operate(o)
  PROVE  TypeOK'
<1>1. ASSUME NEW r \in Runs, NEW x \in Executions, BeginScore(o, r, x) PROVE TypeOK'
  <2>1. [pc |-> "score", run |-> r, execution |-> x] \in Request
    BY DEF Request
  <2> QED BY <1>1, <2>1 DEF BeginScore, rows, TypeOK
<1>2. CASE CommitScore(o)
  BY <1>2, OperatorTypes DEF CommitScore, TypeOK
<1>3. ASSUME NEW r \in Runs, NEW verdict \in {"approve", "reject"},
             BeginDecision(o, r, verdict)
      PROVE  TypeOK'
  <2>1. [pc |-> "decide", run |-> r, verdict |-> verdict] \in Request
    BY DEF Request
  <2> QED BY <1>3, <2>1 DEF BeginDecision, rows, TypeOK
<1>4. CASE CommitDecision(o)
  BY <1>4, OperatorTypes DEF CommitDecision, TypeOK
<1>5. CASE Rollback(o)
  BY <1>5 DEF Rollback, rows, TypeOK
<1> QED BY <1>1, <1>2, <1>3, <1>4, <1>5 DEF Operate

LEMMA TypeInit == Init => TypeOK
BY ConstantsAssumption DEF Init, TypeOK, NoRow, RunRow, IdleReconciler

LEMMA TypeStep == TypeOK /\ [Next]_vars => TypeOK'
<1> SUFFICES ASSUME TypeOK, [Next]_vars PROVE TypeOK'
  OBVIOUS
<1>1. CASE UNCHANGED vars
  BY <1>1 DEF vars, TypeOK
<1> QED BY <1>1, LaunchType, WorkerType, DeliveryType, ReconcilerType, OperatorType
        DEF Next

\* Rows, messages and process states keep their types.
THEOREM TypeCorrect == Spec => []TypeOK
BY TypeInit, TypeStep, PTL DEF Spec

-----------------------------------------------------------------------------
(* The inductive invariant. *)

\* A busy worker executes a run that nobody has completed, and what it
\* remembers is what has been committed.
ExecutionInv(w) ==
  LET r == worker[w].run IN
  r # NoRun =>
    /\ run[r].status \in {"running", "failed"}
    /\ worker[w].measured = results[r]
    /\ worker[w].published = aggregates[r]

OneResultEach(r) ==
  \A x, y \in results[r] :
    x.case = y.case /\ x.variant = y.variant => x = y

\* What is committed for a run, by its status.
MeasurementInv(r) ==
  /\ launcher[r] = "idle" => run[r].status = "absent"
  /\ run[r].status \in {"absent", "pending"} =>
       results[r] = {} /\ aggregates[r] = {}
  /\ OneResultEach(r)
  /\ aggregates[r] \subseteq Summary(results[r])
  /\ aggregates[r] # {} => Whole(results[r])
  /\ run[r].status = "completed" =>
       Whole(results[r]) /\ aggregates[r] = Summary(results[r])

CandidatesScored(r) == Cases \X {"candidate"} \subseteq scored[r]

\* An open transaction has seen a completed run, which stays completed, and
\* scores, which are never taken back.
RequestInv(o) ==
  operator[o] # IdleOperator =>
    /\ run[operator[o].run].status = "completed"
    /\ operator[o].pc = "decide" /\ operator[o].verdict = "approve" =>
         CandidatesScored(operator[o].run)

ReviewInv(r) ==
  /\ review[r] # "none" => run[r].status = "completed"
  /\ review[r] = "approve" => CandidatesScored(r)

RunInv ==
  /\ TypeOK
  /\ OneExecutor
  /\ \A w \in Workers : ExecutionInv(w)
  /\ \A r \in Runs : MeasurementInv(r)
  /\ \A o \in Operators : RequestInv(o)
  /\ \A r \in Runs : ReviewInv(r)

-----------------------------------------------------------------------------
(* Steps that measure and decide nothing. *)

\* They may fail a running run, free a worker or begin a launched request.
Quiet ==
  /\ UNCHANGED <<results, aggregates, scored, review, operator>>
  /\ \A r \in Runs :
       /\ launcher'[r] = "idle" => launcher[r] = "idle"
       /\ \/ run'[r].status = run[r].status
          \/ run[r].status = "running" /\ run'[r].status = "failed"
  /\ \A w \in Workers :
       \/ worker'[w].run = NoRun
       \/ /\ worker'[w].run = worker[w].run
          /\ worker'[w].measured = worker[w].measured
          /\ worker'[w].published = worker[w].published

LEMMA RowStatuses ==
  ASSUME NEW row \in RunRow
  PROVE  /\ [row EXCEPT !.status = "pending"].status = "pending"
         /\ [row EXCEPT !.stale = TRUE].status = row.status
         /\ ClaimPending(row).status = "running"
         /\ MarkEnqueued(row).status = row.status
         /\ TouchHeartbeat(row).status = row.status
         /\ \A status \in {"completed", "failed"} :
              Settle(row, status).status =
                IF row.status = "running" THEN status ELSE row.status
BY DEF RunRow, ClaimPending, MarkEnqueued, TouchHeartbeat, Settle

LEMMA QuietSteps ==
  ASSUME TypeOK
  PROVE  /\ UNCHANGED vars => Quiet
         /\ \A r \in Runs :
              PublishRun(r) \/ MarkPublished(r) \/ InterruptLaunch(r)
                \/ LoseDelivery(r) \/ GrowStale(r) => Quiet
         /\ \A w \in Workers :
              Beat(w) \/ Raise(w) \/ FailRun(w) \/ CrashWorker(w) => Quiet
         /\ Reconcile \/ BreakOff \/ InterruptReconciler => Quiet
<1> USE DEF Quiet, rows
<1>1. \A r \in Runs : run[r] \in RunRow
  BY DEF TypeOK
<1>2. UNCHANGED vars => Quiet
  BY DEF vars
<1>3. ASSUME NEW r \in Runs,
             PublishRun(r) \/ MarkPublished(r) \/ InterruptLaunch(r)
               \/ LoseDelivery(r) \/ GrowStale(r)
      PROVE  Quiet
  <2>1. CASE PublishRun(r) \/ InterruptLaunch(r)
    BY <2>1 DEF PublishRun, InterruptLaunch, TypeOK
  <2>2. CASE MarkPublished(r)
    <3>1. run' = [run EXCEPT ![r] = MarkEnqueued(run[r])]
      BY <2>2 DEF MarkPublished
    <3>2. \A s \in Runs : run'[s].status = run[s].status
      BY <1>1, <3>1, RowStatuses DEF TypeOK
    <3> QED BY <2>2, <3>2 DEF MarkPublished, TypeOK
  <2>3. CASE LoseDelivery(r)
    BY <2>3 DEF LoseDelivery
  <2>4. CASE GrowStale(r)
    <3>1. run' = [run EXCEPT ![r] = [run[r] EXCEPT !.stale = TRUE]]
      BY <2>4 DEF GrowStale
    <3>2. \A s \in Runs : run'[s].status = run[s].status
      BY <1>1, <3>1, RowStatuses DEF TypeOK
    <3> QED BY <2>4, <3>2 DEF GrowStale
  <2> QED BY <1>3, <2>1, <2>2, <2>3, <2>4
<1>4. ASSUME NEW w \in Workers,
             Beat(w) \/ Raise(w) \/ FailRun(w) \/ CrashWorker(w)
      PROVE  Quiet
  <2>1. /\ worker[w] \in ExecutionState
        /\ worker[w].run \in Runs
    BY <1>4, WorkerTypes DEF Beat, Raise, FailRun, CrashWorker, ExecutionState
  <2>2. CASE Beat(w)
    BY <1>1, <2>1, <2>2, RowStatuses DEF Beat, TypeOK, ExecutionState
  <2>3. CASE Raise(w)
    BY <2>1, <2>3 DEF Raise, TypeOK, ExecutionState
  <2>4. CASE FailRun(w)
    BY <1>1, <2>1, <2>4, RowStatuses DEF FailRun, TypeOK, IdleWorker
  <2>5. CASE CrashWorker(w)
    BY <2>5 DEF CrashWorker, TypeOK, IdleWorker
  <2> QED BY <1>4, <2>2, <2>3, <2>4, <2>5
<1>5. ASSUME Reconcile \/ BreakOff \/ InterruptReconciler PROVE Quiet
  <2>1. CASE UNCHANGED <<rows, launcher, worker, operator>>
    BY <2>1
  <2>2. CASE MarkRepublished
    <3>1. run' = [run EXCEPT ![reconciler.run] = MarkEnqueued(@)]
      BY <2>2 DEF MarkRepublished
    <3>2. \A s \in Runs : run'[s].status = run[s].status
      BY <1>1, <3>1, RowStatuses DEF TypeOK
    <3> QED BY <2>2, <3>2 DEF MarkRepublished
  <2>3. CASE FailStaleRunning
    <3>1. \A s \in Runs : run'[s] = run[s] \/ run'[s] = Settle(run[s], "failed")
      BY <2>3 DEF FailStaleRunning
    <3>2. \A s \in Runs : \/ run'[s].status = run[s].status
                          \/ run[s].status = "running" /\ run'[s].status = "failed"
      BY <1>1, <3>1, RowStatuses
    <3> QED BY <2>3, <3>2 DEF FailStaleRunning
  <2> QED BY <1>5, <2>1, <2>2, <2>3 DEF Reconcile, ListPending, Republish, BreakOff,
             InterruptReconciler
<1> QED BY <1>2, <1>3, <1>4, <1>5

LEMMA QuietStep ==
  ASSUME RunInv, Quiet, TypeOK'
  PROVE  RunInv'
<1>1. OneExecutor'
  BY DEF RunInv, OneExecutor, Quiet
<1>2. ASSUME NEW w \in Workers PROVE ExecutionInv(w)'
  <2>1. CASE worker'[w].run = NoRun
    BY <2>1 DEF ExecutionInv
  <2>2. CASE worker'[w].run # NoRun
    <3>1. /\ worker'[w].run = worker[w].run
          /\ worker'[w].measured = worker[w].measured
          /\ worker'[w].published = worker[w].published
      BY <2>2 DEF Quiet
    <3>2. worker[w].run \in Runs
      BY <2>2, <3>1, WorkerTypes DEF RunInv
    <3> QED BY <2>2, <3>1, <3>2 DEF RunInv, ExecutionInv, Quiet
  <2> QED BY <2>1, <2>2
<1>3. ASSUME NEW r \in Runs PROVE MeasurementInv(r)' /\ ReviewInv(r)'
  <2>1. results'[r] = results[r] /\ aggregates'[r] = aggregates[r]
        /\ review'[r] = review[r] /\ scored'[r] = scored[r]
    BY DEF Quiet
  <2>2. \/ run'[r].status = run[r].status
        \/ run[r].status = "running" /\ run'[r].status = "failed"
    BY DEF Quiet
  <2>3. launcher'[r] = "idle" => launcher[r] = "idle"
    BY DEF Quiet
  <2>4. MeasurementInv(r) /\ ReviewInv(r)
    BY DEF RunInv
  <2> QED BY <2>1, <2>2, <2>3, <2>4
          DEF MeasurementInv, OneResultEach, ReviewInv, CandidatesScored
<1>4. ASSUME NEW o \in Operators PROVE RequestInv(o)'
  <2>1. operator[o] # IdleOperator => operator[o].run \in Runs
    BY OperatorTypes DEF RunInv
  <2> QED BY <2>1 DEF RunInv, RequestInv, CandidatesScored, Quiet
<1> QED BY <1>1, <1>2, <1>3, <1>4 DEF RunInv

-----------------------------------------------------------------------------
(* Steps that measure. *)

\* A run whose row, measurements and decision a step leaves alone.
LEMMA OtherRun ==
  ASSUME RunInv, NEW r \in Runs,
         run'[r] = run[r], launcher'[r] = launcher[r],
         results'[r] = results[r], aggregates'[r] = aggregates[r],
         scored'[r] = scored[r], review'[r] = review[r]
  PROVE  MeasurementInv(r)' /\ ReviewInv(r)'
BY DEF RunInv, MeasurementInv, OneResultEach, ReviewInv, CandidatesScored

\* Nobody but its own worker touches the run a worker executes.
LEMMA OtherWorker ==
  ASSUME RunInv, NEW w \in Workers, NEW p \in Workers \ {w}, NEW r \in Runs,
         worker[w].run = r \/ run[r].status \in {"absent", "pending"},
         worker'[p] = worker[p],
         \A s \in Runs \ {r} : run'[s] = run[s] /\ results'[s] = results[s]
                                /\ aggregates'[s] = aggregates[s]
  PROVE  ExecutionInv(p)' /\ worker[p].run # r
<1>1. worker[p].run # r
  BY ConstantsAssumption DEF RunInv, OneExecutor, ExecutionInv
<1>2. worker[p].run \in Runs \union {NoRun}
  BY WorkerTypes DEF RunInv
<1> QED BY <1>1, <1>2 DEF RunInv, ExecutionInv

\* Requests are about completed runs, which such a step leaves alone.
LEMMA OtherRequests ==
  ASSUME RunInv, NEW r \in Runs, run[r].status # "completed",
         UNCHANGED <<scored, operator>>,
         \A s \in Runs \ {r} : run'[s] = run[s]
  PROVE  \A o \in Operators : RequestInv(o)'
<1> SUFFICES ASSUME NEW o \in Operators, operator[o] # IdleOperator
             PROVE  RequestInv(o)'
  BY DEF RequestInv
<1>1. operator[o].run \in Runs \ {r}
  BY OperatorTypes DEF RunInv, RequestInv
<1> QED BY <1>1 DEF RunInv, RequestInv, CandidatesScored

LEMMA CreateStep ==
  ASSUME RunInv, TypeOK', NEW r \in Runs, CreateRun(r)
  PROVE  RunInv'
<1>1. run[r].status = "absent"
  BY DEF CreateRun, RunInv, MeasurementInv
<1>2. /\ \A s \in Runs \ {r} : run'[s] = run[s] /\ launcher'[s] = launcher[s]
      /\ run'[r].status = "pending" /\ launcher'[r] # "idle"
  BY RowStatuses DEF CreateRun, RunInv, TypeOK, RunRow
<1>3. UNCHANGED <<results, aggregates, scored, review, worker, operator>>
  BY DEF CreateRun
<1>4. \A s \in Runs \ {r} : MeasurementInv(s)' /\ ReviewInv(s)'
  BY <1>2, <1>3, OtherRun
<1>5. MeasurementInv(r)' /\ ReviewInv(r)'
  BY <1>1, <1>2, <1>3 DEF RunInv, MeasurementInv, OneResultEach, ReviewInv,
     CandidatesScored
<1>6. \A w \in Workers : ExecutionInv(w)'
  <2> SUFFICES ASSUME NEW w \in Workers PROVE ExecutionInv(w)'
    OBVIOUS
  <2>1. worker[w].run # r /\ worker[w].run \in Runs \union {NoRun}
    BY <1>1, WorkerTypes, ConstantsAssumption DEF RunInv, ExecutionInv
  <2> QED BY <1>2, <1>3, <2>1 DEF RunInv, ExecutionInv
<1>7. \A o \in Operators : RequestInv(o)'
  BY <1>1, <1>2, <1>3, OtherRequests
<1>8. OneExecutor'
  BY <1>3 DEF RunInv, OneExecutor
<1> QED BY <1>4, <1>5, <1>6, <1>7, <1>8 DEF RunInv

LEMMA ClaimStep ==
  ASSUME RunInv, TypeOK', NEW w \in Workers, NEW r \in Runs, Claim(w, r)
  PROVE  RunInv'
<1>1. CASE ~Claimable(run[r])
  <2>1. Quiet
    BY <1>1 DEF Claim, Quiet
  <2> QED BY <2>1, QuietStep
<1>2. CASE Claimable(run[r])
  <2>1. run[r].status = "pending"
    BY <1>2 DEF Claimable
  <2>2. /\ \A s \in Runs \ {r} : run'[s] = run[s]
        /\ run'[r].status = "running"
    BY <1>2, RowStatuses DEF Claim, RunInv, TypeOK
  <2>3. /\ worker'[w].run = r
        /\ worker'[w].measured = {} /\ worker'[w].published = {}
        /\ \A p \in Workers \ {w} : worker'[p] = worker[p]
    BY <1>2 DEF Claim, RunInv, TypeOK
  <2>4. UNCHANGED <<results, aggregates, scored, review, launcher, operator>>
    BY DEF Claim
  <2>5. \A s \in Runs \ {r} : MeasurementInv(s)' /\ ReviewInv(s)'
    BY <2>2, <2>4, OtherRun
  <2>6. MeasurementInv(r) /\ ReviewInv(r)
    BY DEF RunInv
  <2>7. MeasurementInv(r)' /\ ReviewInv(r)'
    BY <2>1, <2>2, <2>4, <2>6 DEF MeasurementInv, OneResultEach, ReviewInv,
       CandidatesScored
  <2>8. \A p \in Workers \ {w} : ExecutionInv(p)' /\ worker[p].run # r
    BY <2>1, <2>2, <2>3, <2>4, OtherWorker
  <2>9. ExecutionInv(w)'
    BY <2>1, <2>2, <2>3, <2>4, <2>6 DEF ExecutionInv, MeasurementInv
  <2>10. OneExecutor'
    BY <2>3, <2>8 DEF RunInv, OneExecutor
  <2>11. \A o \in Operators : RequestInv(o)'
    BY <2>1, <2>2, <2>4, OtherRequests
  <2> QED BY <2>5, <2>7, <2>8, <2>9, <2>10, <2>11 DEF RunInv
<1> QED BY <1>1, <1>2

\* Nothing is due any more once every case has run with both policies.
LEMMA WholeIsOver ==
  ASSUME NEW ws, Whole(ws.measured), NEW c \in Cases, NEW v \in Variants
  PROVE  ~Due(ws, c, v)
<1>1. <<c, v>> \in Executions
  BY DEF Executions
<1>2. \E x \in ws.measured : x.case = c /\ x.variant = v
  BY <1>1 DEF Whole
<1> QED BY <1>2 DEF Due, Did

\* What a measuring step knows of its worker and leaves to the others.
LEMMA Measuring ==
  ASSUME RunInv, NEW w \in Workers, worker[w].pc \in {"cases", "beat", "failing"}
  PROVE  /\ worker[w] \in ExecutionState
         /\ worker[w].run \in Runs
         /\ worker[w].measured = results[worker[w].run]
         /\ worker[w].published = aggregates[worker[w].run]
         /\ run[worker[w].run].status \in {"running", "failed"}
         /\ worker[w].run # NoRun
<1>1. worker[w] \in ExecutionState /\ worker[w].run \in Runs
  BY WorkerTypes DEF RunInv, ExecutionState
<1> QED BY <1>1, ConstantsAssumption DEF RunInv, ExecutionInv

LEMMA MeasureStep ==
  ASSUME RunInv, TypeOK', NEW w \in Workers, NEW r \in Runs,
         worker[w].run = r,
         run[r].status \in {"running", "failed"},
         \A s \in Runs \ {r} : /\ run'[s] = run[s]
                               /\ results'[s] = results[s]
                               /\ aggregates'[s] = aggregates[s],
         \A p \in Workers \ {w} : worker'[p] = worker[p],
         worker'[w].run \in {r, NoRun},
         UNCHANGED <<scored, review, launcher, operator>>,
         ExecutionInv(w)',
         MeasurementInv(r)'
  PROVE  RunInv'
<1>1. \A s \in Runs \ {r} : MeasurementInv(s)' /\ ReviewInv(s)'
  BY OtherRun
<1>2. ReviewInv(r)'
  BY DEF RunInv, ReviewInv, CandidatesScored
<1>3. \A p \in Workers \ {w} : ExecutionInv(p)' /\ worker[p].run # r
  BY OtherWorker
<1>4. OneExecutor'
  BY <1>3 DEF RunInv, OneExecutor
<1>5. \A o \in Operators : RequestInv(o)'
  BY OtherRequests
<1> QED BY <1>1, <1>2, <1>3, <1>4, <1>5 DEF RunInv

\* What remains to be shown of a run that is still being measured.
LEMMA StillMeasuring ==
  ASSUME NEW r \in Runs, MeasurementInv(r),
         run[r].status \in {"running", "failed"},
         UNCHANGED <<run, launcher>>,
         OneResultEach(r)',
         aggregates'[r] \subseteq Summary(results'[r]),
         aggregates'[r] # {} => Whole(results'[r])
  PROVE  MeasurementInv(r)'
BY DEF MeasurementInv

LEMMA ExecuteStep ==
  ASSUME RunInv, TypeOK', NEW w \in Workers,
         NEW c \in Cases, NEW v \in Variants, NEW outcome \in Outcomes,
         ExecuteCase(w, c, v, outcome)
  PROVE  RunInv'
<1> DEFINE result == [case |-> c, variant |-> v, outcome |-> outcome]
<1>0. PICK r \in Runs : r = worker[w].run
  BY Measuring DEF ExecuteCase
<1>1. /\ worker[w] \in ExecutionState
      /\ r # NoRun
      /\ worker[w].measured = results[r]
      /\ worker[w].published = aggregates[r]
      /\ run[r].status \in {"running", "failed"}
  BY <1>0, Measuring DEF ExecuteCase
<1>2. /\ ~Whole(results[r])
      /\ \A x \in results[r] : ~(x.case = c /\ x.variant = v)
  BY <1>1, WholeIsOver DEF ExecuteCase, Due, Did
<1>3. MeasurementInv(r)
  BY <1>1 DEF RunInv
<1>4. aggregates[r] = {}
  BY <1>2, <1>3 DEF MeasurementInv
<1>5. result.case = c /\ result.variant = v
  OBVIOUS
<1>6. /\ results' = [results EXCEPT ![r] = @ \union {result}]
      /\ worker' = [worker EXCEPT ![w] =
           [worker[w] EXCEPT !.pc = "beat", !.measured = @ \union {result}]]
      /\ UNCHANGED <<run, aggregates, scored, review, launcher, operator>>
  BY <1>0 DEF ExecuteCase
<1> HIDE DEF result
<1>7. results'[r] = results[r] \union {result}
  BY <1>1, <1>6 DEF RunInv, TypeOK
<1>8. /\ worker'[w].run = r
      /\ worker'[w].measured = results[r] \union {result}
      /\ worker'[w].published = {}
  BY <1>0, <1>1, <1>4, <1>6 DEF RunInv, TypeOK, ExecutionState
<1>9. ExecutionInv(w)'
  BY <1>1, <1>4, <1>6, <1>7, <1>8 DEF ExecutionInv
<1>10. OneResultEach(r)'
  <2>1. OneResultEach(r)
    BY <1>3 DEF MeasurementInv
  <2> QED BY <1>2, <1>5, <1>7, <2>1 DEF OneResultEach
<1>11. MeasurementInv(r)'
  BY <1>1, <1>3, <1>4, <1>6, <1>10, StillMeasuring
<1>12. \A p \in Workers \ {w} : worker'[p] = worker[p]
  BY <1>6 DEF RunInv, TypeOK
<1>13. \A s \in Runs \ {r} : results'[s] = results[s]
  BY <1>6 DEF RunInv, TypeOK
<1> QED BY <1>0, <1>1, <1>6, <1>8, <1>9, <1>11, <1>12, <1>13, MeasureStep

LEMMA AddStep ==
  ASSUME RunInv, TypeOK', NEW w \in Workers, NEW a \in Measurement,
         AddAggregate(w, a)
  PROVE  RunInv'
<1>0. PICK r \in Runs : r = worker[w].run
  BY Measuring DEF AddAggregate, Finished
<1>1. /\ worker[w] \in ExecutionState
      /\ r # NoRun
      /\ worker[w].measured = results[r]
      /\ worker[w].published = aggregates[r]
      /\ run[r].status \in {"running", "failed"}
  BY <1>0, Measuring DEF AddAggregate, Finished
<1>2. Whole(results[r]) /\ a \in Summary(results[r])
  BY <1>1 DEF AddAggregate, Finished, Unpublished
<1>3. MeasurementInv(r)
  BY <1>1 DEF RunInv
<1>4. /\ aggregates' = [aggregates EXCEPT ![r] = @ \union {a}]
      /\ worker' = [worker EXCEPT ![w] =
                      [worker[w] EXCEPT !.published = @ \union {a}]]
      /\ UNCHANGED <<run, results, scored, review, launcher, operator>>
  BY <1>0 DEF AddAggregate
<1>5. aggregates'[r] = aggregates[r] \union {a}
  BY <1>1, <1>4 DEF RunInv, TypeOK
<1>6. /\ worker'[w].run = r
      /\ worker'[w].measured = results[r]
      /\ worker'[w].published = aggregates[r] \union {a}
  BY <1>0, <1>1, <1>4 DEF RunInv, TypeOK, ExecutionState
<1>7. ExecutionInv(w)'
  BY <1>1, <1>4, <1>5, <1>6 DEF ExecutionInv
<1>8. MeasurementInv(r)'
  <2>1. OneResultEach(r)'
    BY <1>3, <1>4 DEF MeasurementInv, OneResultEach
  <2>2. /\ aggregates'[r] \subseteq Summary(results'[r])
        /\ Whole(results'[r])
    BY <1>2, <1>3, <1>4, <1>5 DEF MeasurementInv
  <2> QED BY <1>1, <1>3, <1>4, <2>1, <2>2, StillMeasuring
<1>9. \A p \in Workers \ {w} : worker'[p] = worker[p]
  BY <1>4 DEF RunInv, TypeOK
<1>10. \A s \in Runs \ {r} : aggregates'[s] = aggregates[s]
  BY <1>4 DEF RunInv, TypeOK
<1> QED BY <1>0, <1>1, <1>4, <1>6, <1>7, <1>8, <1>9, <1>10, MeasureStep

LEMMA CompleteStep ==
  ASSUME RunInv, TypeOK', NEW w \in Workers, Complete(w)
  PROVE  RunInv'
<1>0. PICK r \in Runs : r = worker[w].run
  BY Measuring DEF Complete, Finished
<1>1. /\ r # NoRun
      /\ worker[w].measured = results[r]
      /\ worker[w].published = aggregates[r]
      /\ run[r].status \in {"running", "failed"}
  BY <1>0, Measuring DEF Complete, Finished
<1>2. Whole(results[r]) /\ Summary(results[r]) \subseteq aggregates[r]
  BY <1>1 DEF Complete, Finished, Unpublished
<1>3. MeasurementInv(r)
  BY <1>1 DEF RunInv
<1>4. /\ run' = [run EXCEPT ![r] = Settle(run[r], "completed")]
      /\ worker' = [worker EXCEPT ![w] = IdleWorker]
      /\ UNCHANGED <<results, aggregates, scored, review, launcher, operator>>
  BY <1>0 DEF Complete
<1>5. run'[r].status \in {"completed", "failed"}
  BY <1>1, <1>4, RowStatuses DEF RunInv, TypeOK
<1>6. worker'[w].run = NoRun
  BY <1>4 DEF RunInv, TypeOK, IdleWorker
<1>7. ExecutionInv(w)'
  BY <1>6 DEF ExecutionInv
<1>8. MeasurementInv(r)'
  <2>1. OneResultEach(r)'
    BY <1>3, <1>4 DEF MeasurementInv, OneResultEach
  <2>2. /\ aggregates'[r] = Summary(results'[r])
        /\ Whole(results'[r])
    BY <1>2, <1>3, <1>4 DEF MeasurementInv
  <2>3. launcher'[r] # "idle"
    BY <1>1, <1>3, <1>4 DEF MeasurementInv
  <2> QED BY <1>5, <2>1, <2>2, <2>3 DEF MeasurementInv
<1>9. \A p \in Workers \ {w} : worker'[p] = worker[p]
  BY <1>4 DEF RunInv, TypeOK
<1>10. \A s \in Runs \ {r} : run'[s] = run[s]
  BY <1>4 DEF RunInv, TypeOK
<1> QED BY <1>0, <1>1, <1>4, <1>6, <1>7, <1>8, <1>9, <1>10, MeasureStep

-----------------------------------------------------------------------------
(* Steps of operators. *)

\* An approval is only asked for when every candidate answer has a score.
LEMMA ApprovalSeesScores ==
  ASSUME NEW r \in Runs, Decidable(r, "approve")
  PROVE  CandidatesScored(r)
<1> SUFFICES ASSUME NEW c \in Cases PROVE <<c, "candidate">> \in scored[r]
  BY DEF CandidatesScored
<1>1. <<c, "candidate">> \in Saved(r)
  BY DEF Decidable, Executions, Variants
<1>2. <<c, "candidate">>[2] = "candidate"
  OBVIOUS
<1> QED BY <1>1, <1>2 DEF Decidable

\* Operators touch scores, decisions and their own transactions.
LEMMA OperatorFrame ==
  ASSUME NEW o \in Operators, Operate(o)
  PROVE  /\ UNCHANGED <<run, results, aggregates, launcher, worker>>
         /\ UNCHANGED scored \/ CommitScore(o)
         /\ UNCHANGED review \/ CommitDecision(o)
BY DEF Operate, BeginScore, CommitScore, BeginDecision, CommitDecision, Rollback, rows

LEMMA ScoresGrow ==
  ASSUME TypeOK, NEW o \in Operators, CommitScore(o)
  PROVE  \A r \in Runs : scored[r] \subseteq scored'[r]
BY DEF CommitScore, TypeOK

LEMMA OperateStep ==
  ASSUME RunInv, TypeOK', NEW o \in Operators, Operate(o)
  PROVE  RunInv'
<1>1. UNCHANGED <<run, results, aggregates, launcher, worker>>
  BY OperatorFrame
<1>2. OneExecutor' /\ \A w \in Workers : ExecutionInv(w)'
  BY <1>1 DEF RunInv, OneExecutor, ExecutionInv
<1>3. \A r \in Runs : MeasurementInv(r)'
  BY <1>1 DEF RunInv, MeasurementInv, OneResultEach
<1>4. \A r \in Runs : CandidatesScored(r) => CandidatesScored(r)'
  <2>1. \A r \in Runs : scored[r] \subseteq scored'[r]
    BY OperatorFrame, ScoresGrow DEF RunInv
  <2> QED BY <2>1 DEF CandidatesScored
<1>5. ASSUME NEW p \in Operators, operator'[p] # IdleOperator,
             operator'[p] = operator[p]
      PROVE  RequestInv(p)'
  <2>1. operator[p].run \in Runs
    BY <1>5, OperatorTypes DEF RunInv
  <2> QED BY <1>1, <1>4, <1>5, <2>1 DEF RunInv, RequestInv
<1>6. \A p \in Operators : RequestInv(p)'
  <2> SUFFICES ASSUME NEW p \in Operators, operator'[p] # IdleOperator
               PROVE  RequestInv(p)'
    BY DEF RequestInv
  <2>1. ASSUME NEW r \in Runs, NEW x \in Executions, BeginScore(o, r, x), p = o
        PROVE  RequestInv(p)'
    <3>1. operator'[p] = [pc |-> "score", run |-> r, execution |-> x]
      BY <2>1 DEF BeginScore, RunInv, TypeOK
    <3>2. run[r].status = "completed"
      BY <2>1 DEF BeginScore
    <3> QED BY <1>1, <3>1, <3>2 DEF RequestInv
  <2>2. ASSUME NEW r \in Runs, NEW verdict \in {"approve", "reject"},
               BeginDecision(o, r, verdict), p = o
        PROVE  RequestInv(p)'
    <3>1. operator'[p] = [pc |-> "decide", run |-> r, verdict |-> verdict]
      BY <2>2 DEF BeginDecision, RunInv, TypeOK
    <3>2. /\ run[r].status = "completed"
          /\ verdict = "approve" => CandidatesScored(r)
      BY <2>2, ApprovalSeesScores DEF BeginDecision, Decidable
    <3> QED BY <1>1, <1>4, <3>1, <3>2 DEF RequestInv
  <2>3. CASE CommitScore(o) \/ CommitDecision(o) \/ Rollback(o)
    <3>1. p # o /\ operator'[p] = operator[p]
      BY <2>3 DEF CommitScore, CommitDecision, Rollback, RunInv, TypeOK
    <3> QED BY <1>5, <3>1
  <2>4. CASE p # o
    <3>1. operator'[p] = operator[p]
      BY <2>4 DEF Operate, BeginScore, CommitScore, BeginDecision, CommitDecision,
                  Rollback, RunInv, TypeOK
    <3> QED BY <1>5, <3>1
  <2> QED BY <2>1, <2>2, <2>3, <2>4 DEF Operate
<1>7. ASSUME NEW r \in Runs PROVE ReviewInv(r)'
  <2>1. ReviewInv(r)
    BY DEF RunInv
  <2>2. CASE review'[r] = review[r]
    BY <1>1, <1>4, <2>1, <2>2 DEF ReviewInv
  <2>3. CASE CommitDecision(o) /\ operator[o].run = r
    <3>1. review'[r] = operator[o].verdict /\ operator[o].pc = "decide"
      BY <2>3 DEF CommitDecision, RunInv, TypeOK
    <3>2. RequestInv(o) /\ operator[o] # IdleOperator
      BY <3>1, OperatorTypes DEF RunInv
    <3> QED BY <1>1, <1>4, <2>3, <3>1, <3>2 DEF RequestInv, ReviewInv
  <2>4. CASE CommitDecision(o) /\ operator[o].run # r
    BY <2>2, <2>4 DEF CommitDecision, RunInv, TypeOK
  <2> QED BY <2>2, <2>3, <2>4, OperatorFrame
<1> QED BY <1>2, <1>3, <1>6, <1>7 DEF RunInv

-----------------------------------------------------------------------------
(* The invariant and what follows from it. *)

LEMMA RunStep == RunInv /\ [Next]_vars => RunInv'
<1> SUFFICES ASSUME RunInv, [Next]_vars PROVE RunInv'
  OBVIOUS
<1>1. TypeOK'
  BY TypeStep DEF RunInv
<1>2. ASSUME NEW r \in Runs, Launch(r) PROVE RunInv'
  BY <1>1, <1>2, CreateStep, QuietStep, QuietSteps DEF RunInv, Launch
<1>3. ASSUME NEW w \in Workers, Execute(w) PROVE RunInv'
  BY <1>1, <1>3, ExecuteStep, AddStep, CompleteStep, QuietStep, QuietSteps
     DEF RunInv, Execute
<1>4. ASSUME NEW o \in Operators, Operate(o) PROVE RunInv'
  BY <1>1, <1>4, OperateStep
<1>5. ASSUME Quiet PROVE RunInv'
  BY <1>1, <1>5, QuietStep
<1>6. TypeOK
  BY DEF RunInv
<1> QED BY <1>1, <1>2, <1>3, <1>4, <1>5, <1>6, ClaimStep, QuietSteps DEF Next

LEMMA RunInit == Init => RunInv
<1> SUFFICES ASSUME Init PROVE RunInv
  OBVIOUS
<1>1. TypeOK
  BY TypeInit
<1>2. /\ \A w \in Workers : worker[w].run = NoRun
      /\ \A r \in Runs : /\ run[r].status = "absent"
                          /\ results[r] = {} /\ aggregates[r] = {}
                          /\ review[r] = "none"
      /\ \A o \in Operators : operator[o] = IdleOperator
  BY DEF Init, IdleWorker, NoRow
<1> QED BY <1>1, <1>2 DEF RunInv, OneExecutor, ExecutionInv, MeasurementInv,
                         OneResultEach, RequestInv, ReviewInv

LEMMA RunInvariant == Spec => []RunInv
BY RunInit, RunStep, PTL DEF Spec

\* No two workers execute one run, however often its id is delivered.
THEOREM SingleExecutor == Spec => []OneExecutor
<1>1. RunInv => OneExecutor
  BY DEF RunInv
<1> QED BY <1>1, RunInvariant, PTL

\* No aggregate is written before every case has run with both policies, and
\* none adds up other results than the committed ones.
THEOREM AggregatesSound == Spec => []AggregatesOverAllCases
<1>1. RunInv => AggregatesOverAllCases
  <2> SUFFICES ASSUME RunInv, NEW r \in Runs, NEW a \in aggregates[r]
               PROVE  /\ Whole(results[r])
                      /\ a.cases = Measured(results[r], a.variant, a.metric)
    BY DEF AggregatesOverAllCases
  <2>1. Whole(results[r]) /\ a \in Summary(results[r])
    BY DEF RunInv, MeasurementInv
  <2>2. PICK y \in Variants \X Metrics : a = Aggregate(results[r], y[1], y[2])
    BY <2>1 DEF Summary
  <2>3. a.variant = y[1] /\ a.metric = y[2]
        /\ a.cases = Measured(results[r], y[1], y[2])
    BY <2>2 DEF Aggregate
  <2> QED BY <2>1, <2>3
<1> QED BY <1>1, RunInvariant, PTL

\* Results that are whole and unambiguous are those of a run in which no
\* execution failed.
LEMMA WholeIsComplete ==
  ASSUME NEW r \in Runs, results[r] \subseteq Result,
         Whole(results[r]), OneResultEach(r)
  PROVE  \E outcome \in [Executions -> Outcomes] :
           results[r] = CompleteResults(outcome)
<1> DEFINE chosen(x) == CHOOSE result \in results[r] :
                          result.case = x[1] /\ result.variant = x[2]
           outcome == [x \in Executions |-> chosen(x).outcome]
<1>1. \A x \in Executions : /\ chosen(x) \in results[r]
                            /\ chosen(x).case = x[1]
                            /\ chosen(x).variant = x[2]
  BY DEF Whole
<1>2. outcome \in [Executions -> Outcomes]
  BY <1>1 DEF Result
<1>3. \A x \in Executions :
        [case |-> x[1], variant |-> x[2], outcome |-> outcome[x]] = chosen(x)
  BY <1>1 DEF Result
<1>4. ASSUME NEW y \in results[r]
      PROVE  /\ <<y.case, y.variant>> \in Executions
             /\ chosen(<<y.case, y.variant>>) = y
  <2>1. <<y.case, y.variant>> \in Executions
    BY DEF Result, Executions
  <2> QED BY <1>1, <2>1 DEF OneResultEach
<1> HIDE DEF chosen
<1>5. CompleteResults(outcome) = {chosen(x) : x \in Executions}
  BY <1>3 DEF CompleteResults
<1>6. results[r] = CompleteResults(outcome)
  BY <1>1, <1>4, <1>5
<1> QED BY <1>2, <1>6

\* Behind every completed run there is one whole set of results and all of
\* its aggregates.
LEMMA CompletedFacts ==
  ASSUME RunInv
  PROVE  CompletedIsMeasured
<1> SUFFICES ASSUME NEW r \in Runs, run[r].status = "completed"
             PROVE  /\ \E outcome \in [Executions -> Outcomes] :
                         results[r] = CompleteResults(outcome)
                    /\ aggregates[r] = Summary(results[r])
  BY DEF CompletedIsMeasured
<1>1. /\ results[r] \subseteq Result
      /\ Whole(results[r]) /\ OneResultEach(r)
      /\ aggregates[r] = Summary(results[r])
  BY DEF RunInv, TypeOK, MeasurementInv
<1> QED BY <1>1, WholeIsComplete

THEOREM CompletedRuns == Spec => []CompletedIsMeasured
<1>1. RunInv => CompletedIsMeasured
  BY CompletedFacts
<1> QED BY <1>1, RunInvariant, PTL

\* An approval stands on a completed run with all its candidate answers
\* scored.
THEOREM ReviewedApprovals == Spec => []ApprovedIsReviewed
<1>1. RunInv => ApprovedIsReviewed
  BY DEF RunInv, ReviewInv, CandidatesScored, ApprovedIsReviewed
<1> QED BY <1>1, RunInvariant, PTL

\* Only its own worker measures a run.
LEMMA MeasuringSteps ==
  ASSUME RunInv, [Next]_vars, NEW r \in Runs,
         run[r].status \notin {"running", "failed"}
  PROVE  results'[r] = results[r] /\ aggregates'[r] = aggregates[r]
<1>1. ASSUME NEW w \in Workers, NEW c \in Cases, NEW v \in Variants,
             NEW outcome \in Outcomes, ExecuteCase(w, c, v, outcome)
      PROVE  results'[r] = results[r] /\ aggregates'[r] = aggregates[r]
  <2>1. worker[w].run # r
    BY <1>1, Measuring DEF ExecuteCase
  <2> QED BY <1>1, <2>1 DEF ExecuteCase, RunInv, TypeOK
<1>2. ASSUME NEW w \in Workers, NEW a \in Measurement, AddAggregate(w, a)
      PROVE  results'[r] = results[r] /\ aggregates'[r] = aggregates[r]
  <2>1. worker[w].run # r
    BY <1>2, Measuring DEF AddAggregate, Finished
  <2> QED BY <1>2, <2>1 DEF AddAggregate, RunInv, TypeOK
<1>3. ASSUME NEW w \in Workers, Execute(w)
      PROVE  results'[r] = results[r] /\ aggregates'[r] = aggregates[r]
  BY <1>1, <1>2, <1>3 DEF Execute, Beat, Complete, Raise, FailRun, rows
<1> QED BY <1>3, OperatorFrame
        DEF Next, vars, rows, Launch, CreateRun, PublishRun, MarkPublished,
            InterruptLaunch, Claim, LoseDelivery, CrashWorker, Reconcile, ListPending,
            Republish, MarkRepublished, FailStaleRunning, BreakOff,
            InterruptReconciler, GrowStale

\* What a decision is about does not move.
THEOREM FrozenMeasurements == Spec => MeasurementsFrozen
<1>1. RunInv /\ [Next]_vars =>
        [\A r \in Runs : run[r].status = "completed" =>
           results'[r] = results[r] /\ aggregates'[r] = aggregates[r]]_vars
  BY MeasuringSteps
<1> QED BY <1>1, RunInvariant, PTL DEF Spec, MeasurementsFrozen

-----------------------------------------------------------------------------
(* The life cycle an operator sees. *)

Status == [r \in Runs |-> run[r].status]

Report == [r \in Runs |-> IF run[r].status = "completed" THEN aggregates[r] ELSE {}]

\* Measurements are on record from completion on, and only of completed runs.
LEMMA SameReport ==
  ASSUME RunInv, [Next]_vars,
         \A r \in Runs : run'[r].status = "completed" <=> run[r].status = "completed"
  PROVE  Report' = Report
<1>1. ASSUME NEW r \in Runs PROVE Report'[r] = Report[r]
  <2>1. CASE run[r].status = "completed"
    BY <2>1, MeasuringSteps DEF Report
  <2>2. CASE run[r].status # "completed"
    BY <2>2 DEF Report
  <2> QED BY <2>1, <2>2
<1> QED BY <1>1 DEF Report

\* A quiet step gives up on the runs it fails, perhaps on none.
LEMMA QuietRefines ==
  ASSUME RunInv, [Next]_vars, Quiet
  PROVE  Lifecycle!Next
<1>0. PICK failed \in SUBSET Runs :
        failed = {r \in Runs : run[r].status = "running"
                                /\ run'[r].status = "failed"}
  OBVIOUS
<1>1. \A r \in Runs : run'[r].status =
                        IF r \in failed THEN "failed" ELSE run[r].status
  BY <1>0 DEF Quiet
<1>2. Report' = Report
  BY <1>0, <1>1, SameReport
<1>3. Status' = [r \in Runs |-> IF r \in failed THEN "failed" ELSE Status[r]]
  BY <1>1 DEF Status
<1>4. \A r \in failed : Status[r] = "running"
  BY <1>0 DEF Status
<1>5. Lifecycle!GiveUp(failed)
  BY <1>2, <1>3, <1>4 DEF Lifecycle!GiveUp, Status, Report, Quiet
<1> QED BY <1>5 DEF Lifecycle!Next

LEMMA CreateRefines ==
  ASSUME RunInv, [Next]_vars, NEW r \in Runs, CreateRun(r)
  PROVE  Lifecycle!Next
<1>1. run[r].status = "absent" /\ run'[r].status = "pending"
  BY DEF CreateRun, RunInv, MeasurementInv, TypeOK, RunRow
<1>2. \A s \in Runs \ {r} : run'[s] = run[s]
  BY DEF CreateRun, RunInv, TypeOK
<1>3. Report' = Report
  BY <1>1, <1>2, SameReport
<1>4. Status' = [Status EXCEPT ![r] = "pending"]
  BY <1>1, <1>2 DEF Status
<1>5. Lifecycle!Launch(r)
  BY <1>1, <1>3, <1>4 DEF Lifecycle!Launch, CreateRun, Status, Report
<1> QED BY <1>5 DEF Lifecycle!Next

LEMMA ClaimRefines ==
  ASSUME RunInv, [Next]_vars, NEW w \in Workers, NEW r \in Runs, Claim(w, r),
         Claimable(run[r])
  PROVE  Lifecycle!Next
<1>1. run[r].status = "pending" /\ run'[r].status = "running"
  BY RowStatuses DEF Claim, Claimable, RunInv, TypeOK
<1>2. \A s \in Runs \ {r} : run'[s] = run[s]
  BY DEF Claim, RunInv, TypeOK
<1>3. Report' = Report
  BY <1>1, <1>2, SameReport
<1>4. Status' = [Status EXCEPT ![r] = "running"]
  BY <1>1, <1>2 DEF Status
<1>5. Lifecycle!Start(r)
  BY <1>1, <1>3, <1>4 DEF Lifecycle!Start, Claim, Status, Report
<1> QED BY <1>5 DEF Lifecycle!Next

\* Measurements in progress are not reported.
LEMMA MeasuringRefines ==
  ASSUME RunInv, [Next]_vars, UNCHANGED <<run, scored, review>>
  PROVE  UNCHANGED Lifecycle!vars
<1>1. Report' = Report
  BY SameReport
<1> QED BY <1>1 DEF Lifecycle!vars, Report

LEMMA SameSummary ==
  ASSUME NEW outcome \in [Executions -> Outcomes]
  PROVE  /\ Lifecycle!Executions = Executions
         /\ Lifecycle!Summary(Lifecycle!CompleteResults(outcome)) =
              Summary(CompleteResults(outcome))
BY DEF Lifecycle!Executions, Lifecycle!Summary, Lifecycle!CompleteResults,
       Lifecycle!Aggregate, Lifecycle!Measured, Lifecycle!Scores, Lifecycle!Variants,
       Lifecycle!Metrics, Executions, Summary, CompleteResults, Aggregate, Measured,
       Scores, Variants, Metrics

LEMMA CompleteRefines ==
  ASSUME RunInv, CompletedIsMeasured', [Next]_vars, NEW w \in Workers, Complete(w)
  PROVE  Lifecycle!Next \/ UNCHANGED Lifecycle!vars
<1>0. PICK r \in Runs : r = worker[w].run
  BY Measuring DEF Complete, Finished
<1>1. /\ run' = [run EXCEPT ![r] = Settle(run[r], "completed")]
      /\ UNCHANGED <<results, aggregates, scored, review>>
      /\ run[r].status \in {"running", "failed"}
  BY <1>0, Measuring DEF Complete, Finished
<1>2. \A s \in Runs \ {r} : run'[s] = run[s]
  BY <1>1 DEF RunInv, TypeOK
<1>3. CASE run[r].status = "failed"
  <2>1. run'[r].status = "failed"
    BY <1>1, <1>3, RowStatuses DEF RunInv, TypeOK
  <2>2. Status' = Status /\ Report' = Report
    BY <1>1, <1>2, <1>3, <2>1 DEF Status, Report
  <2> QED BY <1>1, <2>2 DEF Lifecycle!vars, Status, Report
<1>4. CASE run[r].status = "running"
  <2>1. run'[r].status = "completed"
    BY <1>1, <1>4, RowStatuses DEF RunInv, TypeOK
  <2>2. Status' = [Status EXCEPT ![r] = "completed"]
    BY <1>2, <2>1 DEF Status
  <2>3. PICK outcome \in [Executions -> Outcomes] :
          results'[r] = CompleteResults(outcome)
    BY <2>1 DEF CompletedIsMeasured
  <2>4. aggregates'[r] = Summary(CompleteResults(outcome))
    BY <2>1, <2>3 DEF CompletedIsMeasured
  <2>5. Report' = [Report EXCEPT ![r] = Summary(CompleteResults(outcome))]
    BY <1>1, <1>2, <2>1, <2>4 DEF Report
  <2>6. Lifecycle!Succeed(r)
    BY <1>1, <1>4, <2>2, <2>3, <2>5, SameSummary DEF Lifecycle!Succeed, Status, Report
  <2> QED BY <2>6 DEF Lifecycle!Next
<1> QED BY <1>1, <1>3, <1>4

LEMMA OperateRefines ==
  ASSUME RunInv, [Next]_vars, NEW o \in Operators, Operate(o)
  PROVE  Lifecycle!Next \/ UNCHANGED Lifecycle!vars
<1>1. UNCHANGED run /\ Report' = Report
  BY OperatorFrame, SameReport
<1>2. CASE CommitScore(o)
  <2>1. PICK r \in Runs, x \in Executions :
          r = operator[o].run /\ x = operator[o].execution
    BY <1>2, OperatorTypes DEF CommitScore, RunInv
  <2>2. run[r].status = "completed"
    BY <1>2, <2>1, OperatorTypes DEF CommitScore, RunInv, RequestInv
  <2>3. Lifecycle!Score(r, x)
    BY <1>1, <1>2, <2>1, <2>2 DEF CommitScore, Lifecycle!Score, Report
  <2>4. x \in Lifecycle!Executions
    BY DEF Lifecycle!Executions, Lifecycle!Variants, Executions, Variants
  <2> QED BY <2>3, <2>4 DEF Lifecycle!Next
<1>3. CASE CommitDecision(o)
  <2>1. PICK r \in Runs, verdict \in {"approve", "reject"} :
          r = operator[o].run /\ verdict = operator[o].verdict
    BY <1>3, OperatorTypes DEF CommitDecision, RunInv
  <2>2. /\ run[r].status = "completed"
        /\ verdict = "approve" => CandidatesScored(r)
    BY <1>3, <2>1, OperatorTypes DEF CommitDecision, RunInv, RequestInv
  <2>3. Lifecycle!Decide(r, verdict)
    BY <1>1, <1>3, <2>1, <2>2
       DEF CommitDecision, Lifecycle!Decide, CandidatesScored, Report
  <2> QED BY <2>3 DEF Lifecycle!Next
<1>4. CASE UNCHANGED <<scored, review>>
  BY <1>1, <1>4 DEF Lifecycle!vars, Report
<1> QED BY <1>2, <1>3, <1>4, OperatorFrame

\* Launches, deliveries, workers, recovery and operators implement the life
\* cycle of runs.
THEOREM LifecycleImplementation == Spec => LifecycleSpec
<1>1. Init => Lifecycle!Init
  BY DEF Init, NoRow, Lifecycle!Init
<1>2. RunInv /\ CompletedIsMeasured' /\ [Next]_vars
        => [Lifecycle!Next]_(Lifecycle!vars)
  <2> SUFFICES ASSUME RunInv, CompletedIsMeasured', [Next]_vars
               PROVE  Lifecycle!Next \/ UNCHANGED Lifecycle!vars
    OBVIOUS
  <2>1. TypeOK
    BY DEF RunInv
  <2>2. ASSUME Quiet PROVE Lifecycle!Next
    BY <2>2, QuietRefines
  <2>3. ASSUME NEW r \in Runs, Launch(r)
        PROVE  Lifecycle!Next \/ UNCHANGED Lifecycle!vars
    BY <2>1, <2>2, <2>3, QuietSteps, CreateRefines DEF Launch
  <2>4. ASSUME NEW w \in Workers, NEW r \in Runs, Claim(w, r)
        PROVE  Lifecycle!Next \/ UNCHANGED Lifecycle!vars
    <3>1. CASE Claimable(run[r])
      BY <2>4, <3>1, ClaimRefines
    <3>2. CASE ~Claimable(run[r])
      BY <2>4, <3>2, MeasuringRefines DEF Claim
    <3> QED BY <3>1, <3>2
  <2>5. ASSUME NEW w \in Workers, Execute(w)
        PROVE  Lifecycle!Next \/ UNCHANGED Lifecycle!vars
    <3>1. CASE \/ \E c \in Cases, v \in Variants, outcome \in Outcomes :
                    ExecuteCase(w, c, v, outcome)
               \/ \E a \in Measurement : AddAggregate(w, a)
      BY <3>1, MeasuringRefines DEF ExecuteCase, AddAggregate
    <3> QED BY <2>1, <2>2, <2>5, <3>1, QuietSteps, CompleteRefines DEF Execute
  <2>6. ASSUME NEW o \in Operators, Operate(o)
        PROVE  Lifecycle!Next \/ UNCHANGED Lifecycle!vars
    BY <2>6, OperateRefines
  <2> QED BY <2>1, <2>2, <2>3, <2>4, <2>5, <2>6, QuietSteps DEF Next
<1>3. RunInv => CompletedIsMeasured
  BY CompletedFacts
<1> QED BY <1>1, <1>2, <1>3, RunInvariant, PTL DEF Spec, LifecycleSpec, Lifecycle!Spec

=============================================================================
