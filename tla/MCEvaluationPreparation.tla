----------------------- MODULE MCEvaluationPreparation -----------------------
(* Small instances of EvaluationPreparation for TLC. *)
EXTENDS EvaluationPreparation, TLC

CONSTANTS v1, v2, s1

MCProposals == {<<"generation", "revised">>, <<"embedding", "unsupported">>}

\* One question about the uploaded document, and one that nothing answers.
MCCases ==
  {[answerable |-> TRUE, relevant |-> {v1}, complete |-> TRUE],
   [answerable |-> FALSE, relevant |-> {}, complete |-> TRUE]}

\* A state of the program after a dozen requests: a second embedding has been
\* approved and bundled, a query bundle reads both and may be active,
\* a document is uploaded and a suite asks about it.
Prepared ==
  /\ NoRequests
  /\ snapshot = Append(SeededSnapshots, [capability |-> "embedding", content |-> "revised"])
  /\ profile = Append(SeededProfiles, [capability |-> "embedding", snapshot |-> 10,
                                       status |-> "validated"])
  /\ ingestion = Append(SeededIngestions, [SeededIngestions[1] EXCEPT !.embedding = 9])
  /\ query = Append(SeededQueries, [SeededQueries[2] EXCEPT !.embedding = {4, 9}])
  /\ revision = <<[suite |-> s1, number |-> 1, base |-> 0, corpus |-> {v1},
                   case |-> [answerable |-> TRUE, relevant |-> {v1}, complete |-> TRUE]]>>
  /\ \E q \in {2, 3} : active = [ingestion |-> 1, query |-> q]
  /\ version = [v \in Versions |->
       IF v = v1 THEN [status |-> "current", text |-> CHOOSE t \in Texts : TRUE,
                       ingestion |-> 1]
       ELSE Unknown]
  /\ run = <<>>

OperatorSymmetry == Permutations(Operators)

MCSpec == Prepared /\ [][Next]_vars

=============================================================================
