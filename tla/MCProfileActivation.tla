------------------------ MODULE MCProfileActivation ------------------------
(* Small instances of ProfileActivation for TLC. *)
EXTENDS ProfileActivation, TLC

CONSTANTS i1, i2, q1, q2, q12

\* An old and a new cohort, and query bundles that read one or both of them.
MCReads ==
  [q \in QueryProfiles |-> IF q = q1 THEN {i1} ELSE IF q = q2 THEN {i2} ELSE {i1, i2}]

\* Operators are interchangeable, and so are the two cohorts, each of which has
\* a bundle that reads nothing else.
SwapCohorts == (i1 :> i2) @@ (i2 :> i1) @@ (q1 :> q2) @@ (q2 :> q1)
KeepCohorts == [p \in {i1, i2, q1, q2} |-> p]

CohortSymmetry ==
  {o @@ p : o \in Permutations(Operators), p \in {SwapCohorts, KeepCohorts}}

=============================================================================
