----------------------------- MODULE QueryPipeline -----------------------------
(***************************************************************************)
(* A query over the searchable library: authentication, preparation under  *)
(* one query profile, one retrieval statement per cohort, fusion, rerank,  *)
(* choice of evidence and a grounded answer.  Between its steps documents  *)
(* gain versions, administrators activate others, memberships are revoked  *)
(* and the platform switches to another query profile.  Each retrieval     *)
(* statement sees what is committed when it runs.                          *)
(*                                                                         *)
(* One passage stands for all passages of a version.  What a question      *)
(* matches and how statements, reranker and generator rank it is chosen    *)
(* freely.                                                                 *)
(***************************************************************************)
EXTENDS SearchableLibrary, EvidenceRanking

CONSTANTS
  Queries,
  QueryProfiles,
  LexicalCohorts,    \* the lexical cohorts of a query profile, in order
  EmbeddingCohorts,  \* its embedding cohorts, in order
  LexicalCohortOf,   \* the lexical cohort each version was indexed in
  EmbeddingCohortOf, \* the embedding cohort of its vectors
  CandidateLimit     \* lexical_candidate_limit and vector_candidate_limit

ASSUME QueryAssumption ==
  /\ Passages = Versions
  /\ None \notin Versions \union Users \union QueryProfiles
  /\ CandidateLimit \in Nat \ {0}
  /\ IsFiniteSet(Versions)
  /\ \A p \in QueryProfiles : Len(LexicalCohorts[p]) \in Nat
  \* Scale is fine enough to tell the ranks of a list apart.
  /\ \A i, j \in 1..CandidateLimit : i < j => Reciprocal(j) < Reciprocal(i)

VARIABLES
  activeProfile,  \* the platform's active query profile
  query,          \* the queries
  shown           \* history: what each query's user could read while it ran

vars == <<libraryVars, activeProfile, query, shown>>

NoQuery ==
  [pc |-> "idle", actor |-> None, scope |-> {}, profile |-> None,
   matches |-> {}, lists |-> <<>>, fused |-> <<>>, reranked |-> <<>>,
   score |-> <<>>, evidence |-> <<>>, cited |-> <<>>, outcome |-> "none"]

Waiting == {"idle", "done"}

TypeOK ==
  /\ LibraryTypeOK
  /\ activeProfile \in QueryProfiles
  /\ shown \in [Queries -> SUBSET Versions]
  /\ query \in [Queries ->
       [pc : Waiting \union {"authenticated", "prepared", "retrieving", "fused", "reranked"},
        actor : Users \union {None}, scope : SUBSET Departments,
        profile : QueryProfiles \union {None}, matches : SUBSET Versions,
        lists : Seq(Seq(Versions)), fused : Seq(Versions),
        reranked : Seq(Versions),
        score : UNION {[S -> Scores] : S \in SUBSET Versions},
        evidence : Seq(Versions), cited : Seq(Versions),
        outcome : {"none", "grounded", "insufficient", "unavailable"}]]

Init ==
  /\ LibraryInit
  /\ activeProfile \in QueryProfiles
  /\ query = [q \in Queries |-> NoQuery]
  /\ shown = [q \in Queries |-> {}]

Becomes(q, state) ==
  /\ query' = [query EXCEPT ![q] = state]
  /\ UNCHANGED <<libraryVars, activeProfile>>

-----------------------------------------------------------------------------
(* What a retrieval statement of a query can return now. *)

IsCurrentMistake(v) == v \in ready

IsCurrent(v) == current[documentOf[v]] = v

\* The row policies of the bound user and the statement's own predicates on
\* tenant and departments both hold.
VisibleMistake(q, v) ==
  /\ documentOf[v] # None
  /\ IsCurrent(v)
  /\ tenant[documentOf[v]] = TenantOf[query[q].actor]
  /\ assigned[documentOf[v]] \intersect query[q].scope # {}

Visible(q, v) ==
  /\ documentOf[v] # None
  /\ IsCurrent(v)
  /\ CanReadDocument(query[q].actor, documentOf[v])
  /\ tenant[documentOf[v]] = TenantOf[query[q].actor]
  /\ assigned[documentOf[v]] \intersect query[q].scope # {}

LexicalCandidates(q, cohort) ==
  {v \in ready : Visible(q, v) /\ LexicalCohortOf[v] = cohort}

VectorCandidates(q, cohort) ==
  {v \in ready : Visible(q, v) /\ EmbeddingCohortOf[v] = cohort}

Lists(S) == {FirstOf(s, CandidateLimit) : s \in SetToSeqs(S)}

-----------------------------------------------------------------------------
(* The steps of a query. *)

\* The user's membership is read once; the request keeps the result.
Authenticate(q, u) ==
  /\ query[q].pc = "idle"
  /\ membership[u] # {}
  /\ Becomes(q, [NoQuery EXCEPT !.pc = "authenticated", !.actor = u,
                                !.scope = membership[u]])

\* The active profile is read once; an administrator searches the tenant.
Prepare(q) ==
  /\ query[q].pc = "authenticated"
  /\ Becomes(q, [query[q] EXCEPT !.pc = "prepared", !.profile = activeProfile,
       !.scope = IF IsAdmin(query[q].actor)
                 THEN DepartmentsOf(TenantOf[query[q].actor]) ELSE @])

\* Metadata matches raise documents later on and never select passages.
MatchEntities(q) ==
  /\ query[q].pc = "prepared"
  /\ \E matches \in SUBSET {v \in Versions : Visible(q, v)} :
       Becomes(q, [query[q] EXCEPT !.pc = "retrieving", !.matches = matches])

\* The full-text statement for the next lexical cohort returns what matches.
SearchLexical(q) ==
  LET n == Len(query[q].lists) + 1
      cohorts == LexicalCohorts[query[q].profile] IN
  /\ query[q].pc = "retrieving"
  /\ n <= Len(cohorts)
  /\ \E matched \in SUBSET LexicalCandidates(q, cohorts[n]) :
       \E list \in Lists(matched) :
         Becomes(q, [query[q] EXCEPT !.lists = Append(@, list)])

VectorCohort(q, n) ==
  EmbeddingCohorts[query[q].profile][n - Len(LexicalCohorts[query[q].profile])]

Branches(q) ==
  Len(LexicalCohorts[query[q].profile]) + Len(EmbeddingCohorts[query[q].profile])

\* The transaction ends, the question is embedded for the next cohort and a
\* new transaction ranks all its passages by distance.
SearchVector(q) ==
  LET n == Len(query[q].lists) + 1 IN
  /\ query[q].pc = "retrieving"
  /\ n > Len(LexicalCohorts[query[q].profile])
  /\ n <= Branches(q)
  /\ \E list \in Lists(VectorCandidates(q, VectorCohort(q, n))) :
       Becomes(q, [query[q] EXCEPT !.lists = Append(@, list)])

Fuse(q) ==
  LET S == Retrieved(query[q].lists) IN
  /\ query[q].pc = "retrieving"
  /\ Len(query[q].lists) = Branches(q)
  /\ \E order \in Rankings(S, [p \in S |-> FusionScore(query[q].lists, query[q].matches, p)]) :
       Becomes(q, [query[q] EXCEPT !.pc = "fused", !.fused = order])

\* Only the best fused passages are scored, and only some of those citable.
Rerank(q) ==
  LET capped == ToSet(FirstOf(query[q].fused, RerankLimit)) IN
  /\ query[q].pc = "fused"
  /\ \E score \in [capped -> Scores] : \E order \in Rankings(capped, score) :
       \E evidence \in Evidence(order, score) :
         Becomes(q, [query[q] EXCEPT
           !.pc = "reranked", !.lists = <<>>, !.fused = <<>>, !.matches = {},
           !.score = score, !.reranked = order, !.evidence = evidence])

\* The request ends; what it read is gone with it.
Ended(q, outcome, cited) ==
  [NoQuery EXCEPT !.pc = "done", !.actor = query[q].actor,
                  !.outcome = outcome, !.cited = cited]

EndWithoutEvidenceMistake(q) ==
  /\ query[q].pc = "reranked"
  /\ query[q].reranked # <<>>
  /\ query[q].evidence = <<>>
  /\ Becomes(q, Ended(q, "insufficient", <<>>))

EndWithoutEvidence(q) ==
  /\ query[q].pc = "reranked"
  /\ query[q].evidence = <<>>
  /\ Becomes(q, Ended(q, "insufficient", <<>>))

\* The generator cites some of the evidence it was given, in its own order.
Generate(q) ==
  /\ query[q].pc = "reranked"
  /\ \E used \in SUBSET ToSet(query[q].evidence) \ {{}} : \E cited \in SetToSeqs(used) :
       Becomes(q, Ended(q, "grounded", cited))

\* Twice the generator cites positions it was not given.
RejectGrounding(q) ==
  /\ query[q].pc = "reranked"
  /\ query[q].evidence # <<>>
  /\ Becomes(q, Ended(q, "insufficient", <<>>))

\* No usable profile, a provider or the database fails.
FailQuery(q) ==
  /\ query[q].pc \notin Waiting
  /\ Becomes(q, Ended(q, "unavailable", <<>>))

\* Platform activation of another query profile.
SwitchProfile(p) ==
  /\ p # activeProfile
  /\ activeProfile' = p
  /\ UNCHANGED <<libraryVars, query>>

-----------------------------------------------------------------------------
QueryStep(q) ==
  \/ Prepare(q)
  \/ MatchEntities(q)
  \/ SearchLexical(q)
  \/ SearchVector(q)
  \/ Fuse(q)
  \/ Rerank(q)
  \/ EndWithoutEvidence(q)
  \/ Generate(q)
  \/ RejectGrounding(q)

Step ==
  \/ LibraryNext /\ UNCHANGED <<activeProfile, query>>
  \/ \E p \in QueryProfiles : SwitchProfile(p)
  \/ \E q \in Queries, u \in Users : Authenticate(q, u)
  \/ \E q \in Queries : QueryStep(q)
  \/ \E q \in Queries : FailQuery(q)

\* The versions the user of a running query can read as current at this moment.
Current(q) ==
  IF query[q].pc \in Waiting THEN {}
  ELSE {v \in Versions : /\ documentOf[v] # None
                         /\ current[documentOf[v]] = v
                         /\ CanReadDocument(query[q].actor, documentOf[v])}

Record == shown' = [q \in Queries |-> shown[q] \union Current(q)']

Next == Step /\ Record

Spec == Init /\ [][Next]_vars

\* A request runs on, whatever its provider answers: calls have time limits.
FairSpec == Spec /\ \A q \in Queries : WF_vars(QueryStep(q) /\ Record)

-----------------------------------------------------------------------------
\* Whatever is activated or revoked while a query runs, an answer cites only
\* versions that were current and readable by its user at some moment of it.
CitedWasShown ==
  \A q \in Queries : ToSet(query[q].cited) \subseteq shown[q]

\* The departments of a query are read once, but no statement after a
\* revocation returns what its user may no longer read.
RevocationIsHonoured ==
  [][\A q \in Queries : Len(query'[q].lists) > Len(query[q].lists) =>
       \A v \in ToSet(query'[q].lists[Len(query'[q].lists)]) :
         CanReadDocument(query[q].actor, documentOf[v])]_vars

\* "Run all retrieval branches under one immutable profile": when the platform
\* switches profiles under a query, its branches still are those of one.
OneProfilePerQuery ==
  \A q \in Queries : \A n \in DOMAIN query[q].lists :
    LET lexical == LexicalCohorts[query[q].profile]
        embedding == EmbeddingCohorts[query[q].profile] IN
    \A v \in ToSet(query[q].lists[n]) :
      IF n <= Len(lexical) THEN LexicalCohortOf[v] = lexical[n]
      ELSE EmbeddingCohortOf[v] = embedding[n - Len(lexical)]

Dominates(p, r, lists, matches) ==
  /\ r \in matches => p \in matches
  /\ \A n \in DOMAIN lists : r \in ToSet(lists[n]) =>
       p \in ToSet(lists[n]) /\ Position(lists[n], p) < Position(lists[n], r)

\* A passage that every branch which has another one ranks before it comes
\* before it after fusion, unless only the other's entities match.
FusionKeepsAgreement ==
  \A q \in Queries : \A i, j \in 1..Len(query[q].fused) :
    Dominates(query[q].fused[i], query[q].fused[j], query[q].lists, query[q].matches)
      => i < j

\* Cut to the rerank limit and to top_k and compared with two thresholds, the
\* evidence of a query is empty exactly if no reranked passage meets both.
EvidenceIffSufficient ==
  \A q \in Queries : query[q].reranked # <<>> =>
    (query[q].evidence # <<>> <=>
       \E p \in ToSet(query[q].reranked) :
         /\ query[q].score[p] >= SufficientScore
         /\ query[q].score[p] >= MinCitationScore)

\* Every authenticated query ends with an answer or an error.
QueriesEnd ==
  \A q \in Queries : query[q].pc = "authenticated" ~> query[q].pc = "done"

=============================================================================
