---------------------------- MODULE ProfileStaging ----------------------------
(***************************************************************************)
(* The staging of retrieval policies.  Operators submit configurations as  *)
(* draft capability profiles, validate them against the deployed adapters, *)
(* and combine validated profiles to ingestion and query bundles.  Rows    *)
(* are never changed afterwards, but for the status of a draft; equal      *)
(* configurations share one snapshot.  Workers resolve bundles back to     *)
(* configurations, without looking at the status.                          *)
(*                                                                         *)
(* A table is the sequence of its rows in the order of their creation, and *)
(* a row is referred to by its position.  A configuration is one of a few  *)
(* contents: what the migrations seed, a revision of it, one for an        *)
(* adapter that is not deployed, or one from before prompts were required. *)
(***************************************************************************)
EXTENDS PanelRequests, Sequences, FiniteSets

CONSTANTS
  Proposals,        \* capability and content of the drafts operators submit
  Retrievals,       \* contents of the retrieval settings they submit
  MistralAvailable  \* has the panel a credential for Mistral?

VARIABLES
  snapshot,   \* configuration_snapshots
  profile,    \* capability_profiles
  ingestion,  \* ingestion_profiles
  query       \* query_profiles and their read cohorts

stagingVars == <<snapshot, profile, ingestion, query>>

-----------------------------------------------------------------------------
IngestionCapabilities == {"ner", "chunking", "lexical", "embedding"}

Capabilities == IngestionCapabilities \union {"reranking", "generation"}

Contents == {"seeded", "revised", "unsupported", "promptless"}

ASSUME StagingAssumption ==
  /\ Proposals \subseteq Capabilities \X Contents
  /\ Retrievals \subseteq {"seeded", "revised"}
  /\ MistralAvailable \in BOOLEAN

\* The schema of each capability; prompts are required of two of them.
WellFormed(capability, content) ==
  content = "promptless" => capability \notin {"reranking", "generation"}

\* Does the deployment have the adapter, and the credential it needs?
Deployed(capability, content) ==
  /\ content # "unsupported"
  /\ capability \in {"embedding", "reranking", "generation"} => MistralAvailable

Snapshot == [capability : Capabilities \union {"retrieval"}, content : Contents]

Profile(snapshots) ==
  [capability : Capabilities, snapshot : snapshots,
   status : {"draft", "validated", "retired"}]

Bundle(profiles) == [IngestionCapabilities -> profiles]

QueryBundle(profiles, snapshots) ==
  [lexical : SUBSET profiles, embedding : SUBSET profiles,
   reranking : profiles, generation : profiles, retrieval : snapshots]

StagingTypeOK ==
  /\ snapshot \in Seq(Snapshot)
  /\ profile \in Seq(Profile(DOMAIN snapshot))
  /\ ingestion \in Seq(Bundle(DOMAIN profile))
  /\ query \in Seq(QueryBundle(DOMAIN profile, DOMAIN snapshot))

\* What the migrations leave: the baseline of every capability; a ranker and a
\* generator from before prompts, retired later, and their successors; and a
\* query bundle for each pair.
BaselineSnapshots ==
  <<[capability |-> "ner", content |-> "seeded"],
    [capability |-> "chunking", content |-> "seeded"],
    [capability |-> "lexical", content |-> "seeded"],
    [capability |-> "embedding", content |-> "seeded"]>>

PromptlessSnapshots ==
  <<[capability |-> "reranking", content |-> "promptless"],
    [capability |-> "generation", content |-> "promptless"],
    [capability |-> "retrieval", content |-> "seeded"]>>

PromptedSnapshots ==
  <<[capability |-> "reranking", content |-> "seeded"],
    [capability |-> "generation", content |-> "seeded"]>>

SeededSnapshots == BaselineSnapshots \o PromptlessSnapshots \o PromptedSnapshots

\* Every snapshot but that of the retrieval settings has a profile.
SeededProfiles ==
  [i \in 1..8 |->
     LET s == IF i <= 6 THEN i ELSE i + 1 IN
     [capability |-> SeededSnapshots[s].capability, snapshot |-> s,
      status |-> IF SeededSnapshots[s].content = "promptless" THEN "retired"
                 ELSE "validated"]]

SeededIngestions == <<[ner |-> 1, chunking |-> 2, lexical |-> 3, embedding |-> 4]>>

SeededQueries ==
  <<[lexical |-> {3}, embedding |-> {4}, reranking |-> 5, generation |-> 6,
     retrieval |-> 7],
    [lexical |-> {3}, embedding |-> {4}, reranking |-> 7, generation |-> 8,
     retrieval |-> 7]>>

StagingInit ==
  /\ snapshot = SeededSnapshots
  /\ profile = SeededProfiles
  /\ ingestion = SeededIngestions
  /\ query = SeededQueries

-----------------------------------------------------------------------------
(* Drafts. *)

\* The snapshots with a content: there is at most one of them.
SnapshotsOf(capability, content) ==
  {s \in DOMAIN snapshot :
     snapshot[s] = [capability |-> capability, content |-> content]}

\* The request's transaction looks for the snapshot of its configuration.
Draft(o, capability, content) ==
  /\ WellFormed(capability, content)
  /\ Submit(o, [pc |-> "draft", capability |-> capability, content |-> content,
                found |-> SnapshotsOf(capability, content)])
  /\ UNCHANGED stagingVars

\* The unique constraint refuses a snapshot that another request has committed
\* since this one looked for it.
AddSnapshot(capability, content) ==
  /\ SnapshotsOf(capability, content) = {}
  /\ snapshot' = Append(snapshot, [capability |-> capability, content |-> content])

\* The snapshot that was found is used, or else a new one is added.
UseSnapshot(found, capability, content) ==
  IF found = {} THEN AddSnapshot(capability, content) ELSE UNCHANGED snapshot

SnapshotUsed(found) == IF found = {} THEN Len(snapshot) + 1 ELSE CHOOSE s \in found : TRUE

InsertDraft(o) ==
  LET s == session[o] IN
  /\ s.pc = "draft"
  /\ UseSnapshot(s.found, s.capability, s.content)
  /\ profile' = Append(profile, [capability |-> s.capability,
                                 snapshot |-> SnapshotUsed(s.found),
                                 status |-> "draft"])
  /\ Respond(o)
  /\ UNCHANGED <<ingestion, query>>

\* The database refuses a row: a snapshot inserted meanwhile, a taken name.
\* Or the panel dies.  The transaction is rolled back.
RollBack(o) ==
  /\ session[o] # Idle
  /\ Respond(o)
  /\ UNCHANGED stagingVars

ContentOf(p) == snapshot[profile[p].snapshot].content

\* A draft is approved once the deployed adapters support it.
Validate(o, p) ==
  /\ profile[p].status = "draft"
  /\ WellFormed(profile[p].capability, ContentOf(p))
  /\ Deployed(profile[p].capability, ContentOf(p))
  /\ profile' = [profile EXCEPT ![p].status = "validated"]
  /\ Handle(o)
  /\ UNCHANGED <<snapshot, ingestion, query>>

-----------------------------------------------------------------------------
(* Bundles. *)

\* Looks at the configuration and not at the approval of its profile.
ValidatedMistake(capability) ==
  {p \in DOMAIN profile :
     /\ profile[p].capability = capability
     /\ WellFormed(capability, ContentOf(p))}

\* The profiles of a capability that may be bundled.
Validated(capability) ==
  {p \in DOMAIN profile :
     /\ profile[p].capability = capability
     /\ profile[p].status = "validated"
     /\ WellFormed(capability, ContentOf(p))
     /\ Deployed(capability, ContentOf(p))}

BundleIngestion(o, bundle) ==
  /\ \A c \in IngestionCapabilities : bundle[c] \in Validated(c)
  /\ ingestion' = Append(ingestion, bundle)
  /\ Handle(o)
  /\ UNCHANGED <<snapshot, profile, query>>

\* The members are checked and the snapshot of the retrieval settings is
\* looked for ...
BundleQuery(o, lexical, embedding, reranking, generation, content) ==
  /\ lexical # {} /\ lexical \subseteq Validated("lexical")
  /\ embedding # {} /\ embedding \subseteq Validated("embedding")
  /\ reranking \in Validated("reranking")
  /\ generation \in Validated("generation")
  /\ Submit(o, [pc |-> "query", lexical |-> lexical, embedding |-> embedding,
                reranking |-> reranking, generation |-> generation,
                content |-> content, found |-> SnapshotsOf("retrieval", content)])
  /\ UNCHANGED stagingVars

\* ... and the bundle is inserted with its read cohorts.
InsertQuery(o) ==
  LET s == session[o] IN
  /\ s.pc = "query"
  /\ UseSnapshot(s.found, "retrieval", s.content)
  /\ query' = Append(query, [lexical |-> s.lexical, embedding |-> s.embedding,
                             reranking |-> s.reranking,
                             generation |-> s.generation,
                             retrieval |-> SnapshotUsed(s.found)])
  /\ Respond(o)
  /\ UNCHANGED <<profile, ingestion>>

SubmitBundle(o) ==
  \/ \E n \in Validated("ner"), c \in Validated("chunking"),
        l \in Validated("lexical"), e \in Validated("embedding") :
       BundleIngestion(o, [ner |-> n, chunking |-> c, lexical |-> l,
                           embedding |-> e])
  \/ \E l \in SUBSET Validated("lexical"), e \in SUBSET Validated("embedding"),
        r \in Validated("reranking"), g \in Validated("generation"),
        content \in Retrievals : BundleQuery(o, l, e, r, g, content)

Stage(o) ==
  \/ \E p \in Proposals : Draft(o, p[1], p[2])
  \/ InsertDraft(o)
  \/ \E p \in DOMAIN profile : Validate(o, p)
  \/ MaySubmit(o) /\ SubmitBundle(o)
  \/ InsertQuery(o)

-----------------------------------------------------------------------------
(* Reading bundles back. *)

\* A profile has a snapshot of its own capability that fits today's schema.
Resolves(p, capability) ==
  /\ profile[p].capability = capability
  /\ snapshot[profile[p].snapshot].capability = capability
  /\ WellFormed(capability, ContentOf(p))

IngestionResolves(i) ==
  \A c \in {"ner", "chunking", "embedding"} : Resolves(ingestion[i][c], c)

QueryResolves(q) ==
  /\ query[q].lexical # {}
  /\ query[q].embedding # {}
  /\ \A p \in query[q].embedding : Resolves(p, "embedding")
  /\ Resolves(query[q].reranking, "reranking")
  /\ Resolves(query[q].generation, "generation")
  /\ snapshot[query[q].retrieval].capability = "retrieval"

\* The query bundles the panel offers as candidates.
Selectable ==
  {q \in DOMAIN query :
     /\ profile[query[q].reranking].status # "retired"
     /\ profile[query[q].generation].status # "retired"}

\* Can a query bundle read what an ingestion bundle has indexed?
ReadsCohort(q, i) ==
  /\ ingestion[i].lexical \in query[q].lexical
  /\ ingestion[i].embedding \in query[q].embedding

-----------------------------------------------------------------------------
\* Whatever requests were handled at the same time, no content has two
\* snapshots, and every bundle that the panel offers is resolved by the workers
\* and by the query service, which look at no approval, to configurations the
\* deployment supports.
StagedBundlesAreSound ==
  /\ \A s, t \in DOMAIN snapshot : snapshot[s] = snapshot[t] => s = t
  /\ \A i \in DOMAIN ingestion :
       /\ IngestionResolves(i)
       /\ \A c \in IngestionCapabilities : Deployed(c, ContentOf(ingestion[i][c]))
  /\ \A q \in Selectable :
       /\ QueryResolves(q)
       /\ \A p \in {query[q].reranking, query[q].generation}
                   \union query[q].lexical \union query[q].embedding :
            Deployed(profile[p].capability, ContentOf(p))

=============================================================================
