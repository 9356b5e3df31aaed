----------------------------- MODULE PlatformPolicy -----------------------------
(***************************************************************************)
(* What the platform promises about its active policies, with no operator, *)
(* lock or transaction in sight: a policy is replaced in one step, only by *)
(* a candidate that an approved evaluation compared with the policy it     *)
(* replaces, and the active query policy always reads the cohorts that     *)
(* the active ingestion policy writes.                                     *)
(***************************************************************************)
EXTENDS ProfileBundles

VARIABLES
  ingestion,  \* the active ingestion bundle
  query,      \* the active query bundle
  approved    \* the evaluations that were approved

vars == <<ingestion, query, approved>>

Init ==
  /\ query \in QueryProfiles
  /\ ingestion \in Reads[query]
  /\ approved = {}

Approve(c) ==
  /\ approved' = approved \union {c}
  /\ UNCHANGED <<ingestion, query>>

SwitchIngestion(p) ==
  /\ IngestionComparison(ingestion, p, query) \in approved
  /\ p \in Reads[query]
  /\ ingestion' = p
  /\ UNCHANGED <<query, approved>>

SwitchQuery(p) ==
  /\ QueryComparison(query, p) \in approved
  /\ ingestion \in Reads[p]
  /\ query' = p
  /\ UNCHANGED <<ingestion, approved>>

Next ==
  \/ \E c \in Comparisons : Approve(c)
  \/ \E p \in IngestionProfiles : SwitchIngestion(p)
  \/ \E p \in QueryProfiles : SwitchQuery(p)

Spec == Init /\ [][Next]_vars

=============================================================================
