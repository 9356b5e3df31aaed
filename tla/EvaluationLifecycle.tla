------------------------ MODULE EvaluationLifecycle ------------------------
(***************************************************************************)
(* What an operator sees of evaluation runs, with no queue, worker or      *)
(* reconciler in sight: a launched run starts at most once and settles     *)
(* once; its measurements appear at once, over every case, when it         *)
(* completes; a completed run gets at most one decision, and an approval   *)
(* only over answers that have all been scored.                            *)
(***************************************************************************)
EXTENDS EvaluationReports

CONSTANT Runs

VARIABLES
  status,    \* the status of each run
  report,    \* the measurements of each completed run
  scored,    \* the executions of each run whose answer has a quality score
  decision   \* the gate decision on each run

vars == <<status, report, scored, decision>>

Init ==
  /\ status = [r \in Runs |-> "absent"]
  /\ report = [r \in Runs |-> {}]
  /\ scored = [r \in Runs |-> {}]
  /\ decision = [r \in Runs |-> "none"]

Launch(r) ==
  /\ status[r] = "absent"
  /\ status' = [status EXCEPT ![r] = "pending"]
  /\ UNCHANGED <<report, scored, decision>>

Start(r) ==
  /\ status[r] = "pending"
  /\ status' = [status EXCEPT ![r] = "running"]
  /\ UNCHANGED <<report, scored, decision>>

Succeed(r) ==
  /\ status[r] = "running"
  /\ status' = [status EXCEPT ![r] = "completed"]
  /\ \E outcome \in [Executions -> Outcomes] :
       report' = [report EXCEPT ![r] = Summary(CompleteResults(outcome))]
  /\ UNCHANGED <<scored, decision>>

\* One pass of the reconciler may give up on several runs.
GiveUp(failed) ==
  /\ \A r \in failed : status[r] = "running"
  /\ status' = [r \in Runs |-> IF r \in failed THEN "failed" ELSE status[r]]
  /\ UNCHANGED <<report, scored, decision>>

Score(r, x) ==
  /\ status[r] = "completed"
  /\ scored' = [scored EXCEPT ![r] = @ \union {x}]
  /\ UNCHANGED <<status, report, decision>>

Decide(r, verdict) ==
  /\ status[r] = "completed"
  /\ decision[r] = "none"
  /\ verdict = "approve" => Cases \X {"candidate"} \subseteq scored[r]
  /\ decision' = [decision EXCEPT ![r] = verdict]
  /\ UNCHANGED <<status, report, scored>>

Next ==
  \/ \E r \in Runs :
       \/ Launch(r)
       \/ Start(r)
       \/ Succeed(r)
       \/ \E x \in Executions : Score(r, x)
       \/ \E verdict \in {"approve", "reject"} : Decide(r, verdict)
  \/ \E failed \in SUBSET Runs : GiveUp(failed)

Spec == Init /\ [][Next]_vars

=============================================================================
