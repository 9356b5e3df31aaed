--------------------------- MODULE MCQueryPipeline ---------------------------
(* Small instances of QueryPipeline for TLC. *)
EXTENDS QueryPipeline, TLC

CONSTANTS admin, editor, x, t1, v1, v2, v3, p1, p2, fulltext, old, new

MCRole == [u \in Users |-> IF u = admin THEN "tenant_admin" ELSE "editor"]

MCTenantOf == [i \in Users \union Departments |-> t1]

MCMembership == [u \in Users |-> {x}]

MCId == [v \in Versions |-> CASE v = v1 -> 1 [] v = v2 -> 2 [] OTHER -> 3]

\* The second profile reads a new embedding cohort in place of the old one.
MCLexicalCohorts == [p \in QueryProfiles |-> <<fulltext>>]

MCEmbeddingCohorts == [p \in QueryProfiles |-> IF p = p1 THEN <<old>> ELSE <<new>>]

MCLexicalCohortOf == [v \in Versions |-> fulltext]

MCEmbeddingCohortOf == [v \in Versions |-> IF v = v3 THEN new ELSE old]

=============================================================================
