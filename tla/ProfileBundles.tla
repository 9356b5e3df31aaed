----------------------------- MODULE ProfileBundles -----------------------------
(***************************************************************************)
(* The immutable configuration bundles and the evaluations that compare    *)
(* them.  A query bundle lists lexical and embedding cohorts; Reads says   *)
(* which ingestion bundles have both of theirs among them.                 *)
(***************************************************************************)

CONSTANTS
  IngestionProfiles,  \* ingestion bundles
  QueryProfiles,      \* query bundles
  NoProfile,          \* neither
  Reads               \* the ingestion bundles whose cohorts a query bundle reads

ASSUME BundlesAssumption ==
  /\ IngestionProfiles \intersect QueryProfiles = {}
  /\ NoProfile \notin IngestionProfiles \union QueryProfiles
  /\ Reads \in [QueryProfiles -> SUBSET IngestionProfiles]

\* An evaluation run as far as the gate looks at it: a query comparison of two
\* query bundles, or an ingestion comparison of two ingestion bundles that are
\* both read through one query bundle.
QueryComparison(baseline, candidate) ==
  [mode |-> "query", baseline |-> baseline, candidate |-> candidate,
   query |-> NoProfile]

IngestionComparison(baseline, candidate, query) ==
  [mode |-> "ingestion", baseline |-> baseline, candidate |-> candidate,
   query |-> query]

Comparisons ==
  {QueryComparison(b, c) : b, c \in QueryProfiles} \union
  {IngestionComparison(b, c, q) : b, c \in IngestionProfiles, q \in QueryProfiles}

=============================================================================
