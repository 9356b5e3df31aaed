-------------------------- MODULE MCEvaluationRuns --------------------------
(* Small instances of EvaluationRuns for TLC. *)
EXTENDS EvaluationRuns

=============================================================================
