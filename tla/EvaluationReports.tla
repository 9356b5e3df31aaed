------------------------- MODULE EvaluationReports -------------------------
(***************************************************************************)
(* What one evaluation run measures: every case of the suite is executed   *)
(* with the baseline and with the candidate policy, each execution is      *)
(* scored, and the scores of one metric are added up over the cases that   *)
(* have it (application/evaluation/runner.py, scoring.py).  Spans, K       *)
(* values, stages and numbers are left out: a measurement is known by the  *)
(* cases whose scores it adds up, which is also its case count.            *)
(***************************************************************************)
EXTENDS FiniteSets

CONSTANTS
  Cases,          \* the test cases of the run's suite revision
  LabelledCases,  \* those with labelled relevant passages
  Outcomes        \* "answered" with citations, "refused", or only one of them

ASSUME CasesAssumption ==
  /\ IsFiniteSet(Cases)
  /\ Cases # {}
  /\ LabelledCases \subseteq Cases
  /\ Outcomes # {}
  /\ Outcomes \subseteq {"answered", "refused"}

Variants == {"baseline", "candidate"}

Metrics == {"retrieval", "citation_precision", "answerability"}

Executions == Cases \X Variants

Result == [case : Cases, variant : Variants, outcome : Outcomes]

\* The metrics one execution is scored by.  Retrieval and citations are
\* compared with labels, and only cited evidence has a precision.
Scores(result) ==
  {"answerability"}
  \union (IF result.case \in LabelledCases
          THEN {"retrieval"} ELSE {})
  \union (IF result.case \in LabelledCases /\ result.outcome = "answered"
          THEN {"citation_precision"} ELSE {})

Measurement ==
  [variant : Variants, metric : Metrics, cases : SUBSET Cases]

Measured(results, v, metric) ==
  {result.case : result \in {x \in results : x.variant = v /\ metric \in Scores(x)}}

AggregateMistake(results, v, metric) ==
  [variant |-> v, metric |-> metric,
   cases |-> {result.case : result \in {x \in results : x.variant = v}}]

\* One aggregate adds up the scores of the cases that have the metric.
Aggregate(results, v, metric) ==
  [variant |-> v, metric |-> metric, cases |-> Measured(results, v, metric)]

\* The aggregates of a whole run.
Summary(results) ==
  {Aggregate(results, x[1], x[2]) :
     x \in {y \in Variants \X Metrics : Measured(results, y[1], y[2]) # {}}}

\* Every case has run with both policies.
Whole(results) ==
  \A x \in Executions :
    \E result \in results : result.case = x[1] /\ result.variant = x[2]

\* The results of a run in which no execution failed.
CompleteResults(outcome) ==
  {[case |-> x[1], variant |-> x[2], outcome |-> outcome[x]] : x \in Executions}

=============================================================================
