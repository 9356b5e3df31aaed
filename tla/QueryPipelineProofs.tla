-------------------------- MODULE QueryPipelineProofs --------------------------
(***************************************************************************)
(* Theorems about QueryPipeline for every finite set of versions and any   *)
(* number of queries, users and cohorts: what a retrieval statement        *)
(* returns, and what fusion, reranking and the choice of evidence make of  *)
(* it until an answer cites it.                                            *)
(***************************************************************************)
EXTENDS QueryPipeline, FiniteSetTheorems, TLAPS

\* The n-th list of a query is one of the n-th branch of its profile.
BranchInv(x, n) ==
  LET lexical == LexicalCohorts[x.profile]
      embedding == EmbeddingCohorts[x.profile] IN
  \A v \in ToSet(x.lists[n]) :
    IF n <= Len(lexical) THEN LexicalCohortOf[v] = lexical[n]
    ELSE EmbeddingCohortOf[v] = embedding[n - Len(lexical)]

\* A query x: its profile is set once, before the first list. (Some fields of x
\* are named so that they may be replaced.)
QueryInv(x) ==
  /\ {"pc", "profile", "lists"} \subseteq DOMAIN x
  /\ x.lists \in Seq(Seq(Versions))
  /\ x.pc \notin {"retrieving", "fused"} => x.lists = <<>>
  /\ x.pc \in {"prepared", "retrieving"} => x.profile \in QueryProfiles
  /\ \A n \in DOMAIN x.lists : BranchInv(x, n)

PipelineInv ==
  /\ ready \subseteq Versions
  /\ activeProfile \in QueryProfiles
  /\ query = [q \in Queries |-> query[q]]
  /\ \A q \in Queries : QueryInv(query[q])

-----------------------------------------------------------------------------
(* Lists. *)

\* A statement returns some of its candidates.
LEMMA ListOf ==
  ASSUME NEW S, S \subseteq Versions, NEW list \in Lists(S)
  PROVE  list \in Seq(S) /\ ToSet(list) \subseteq S
<1>1. IsFiniteSet(S)
  BY QueryAssumption, FS_Subset
<1>2. Cardinality(S) \in Nat
  BY <1>1, FS_CardinalityType
<1>3. PICK s : s \in [1..Cardinality(S) -> S] /\ list = FirstOf(s, CandidateLimit)
  BY DEF Lists, SetToSeqs
<1>4. s \in Seq(S) /\ Len(s) \in Nat
  BY <1>2, <1>3
<1>5. PICK k \in 0..Len(s) : list = SubSeq(s, 1, k)
  BY <1>3, <1>4, QueryAssumption DEF FirstOf
<1>6. list \in Seq(S)
  BY <1>4, <1>5
<1> QED BY <1>6 DEF ToSet

LEMMA ListAdded ==
  ASSUME NEW lists \in Seq(Seq(Versions)), NEW list \in Seq(Versions)
  PROVE  /\ Append(lists, list) \in Seq(Seq(Versions))
         /\ Len(lists) \in Nat
         /\ Len(Append(lists, list)) = Len(lists) + 1
         /\ DOMAIN Append(lists, list) = DOMAIN lists \union {Len(lists) + 1}
         /\ \A n \in DOMAIN lists : Append(lists, list)[n] = lists[n]
         /\ Append(lists, list)[Len(lists) + 1] = list
OBVIOUS

-----------------------------------------------------------------------------
(* The steps of a query. *)

\* The query x gets a list of its next branch.
LEMMA RetrieveStep ==
  ASSUME NEW x, QueryInv(x), x.pc = "retrieving", NEW list \in Seq(Versions),
         NEW y, y = [x EXCEPT !.lists = Append(@, list)],
         BranchInv(y, Len(x.lists) + 1)
  PROVE  QueryInv(y)
<1>1. /\ y.lists = Append(x.lists, list)
      /\ y.pc = x.pc /\ y.profile = x.profile
      /\ {"pc", "profile", "lists"} \subseteq DOMAIN y
  BY DEF QueryInv
<1>2. x.lists \in Seq(Seq(Versions)) /\ \A n \in DOMAIN x.lists : BranchInv(x, n)
  BY DEF QueryInv
<1>3. /\ y.lists \in Seq(Seq(Versions))
      /\ DOMAIN y.lists = DOMAIN x.lists \union {Len(x.lists) + 1}
      /\ \A n \in DOMAIN x.lists : y.lists[n] = x.lists[n]
  BY <1>1, <1>2, ListAdded
<1>4. \A n \in DOMAIN x.lists : BranchInv(y, n)
  BY <1>1, <1>2, <1>3 DEF BranchInv
<1> QED BY <1>1, <1>3, <1>4 DEF QueryInv

\* What both retrieval statements do to a query.
SearchStep(q) ==
  \E list : /\ query' = [query EXCEPT ![q] = [query[q] EXCEPT !.lists = Append(@, list)]]
            /\ UNCHANGED <<libraryVars, activeProfile>>
            /\ query[q].pc = "retrieving"
            /\ list \in Seq(Versions)
            /\ \A v \in ToSet(list) : Visible(q, v)
            /\ BranchInv([query[q] EXCEPT !.lists = Append(@, list)],
                         Len(query[q].lists) + 1)

LEMMA SearchLexicalStep ==
  ASSUME PipelineInv, NEW q \in Queries, SearchLexical(q)
  PROVE  SearchStep(q)
<1>1. PICK x, n, cohort : /\ x = query[q] /\ n = Len(x.lists) + 1
                          /\ cohort = LexicalCohorts[x.profile][n]
  OBVIOUS
<1>2. QueryInv(x) /\ ready \subseteq Versions
  BY <1>1 DEF PipelineInv
<1>3. x.pc = "retrieving" /\ n <= Len(LexicalCohorts[x.profile])
  BY <1>1 DEF SearchLexical
<1>4. PICK matched, list :
        /\ matched \in SUBSET LexicalCandidates(q, cohort)
        /\ list \in Lists(matched)
        /\ query' = [query EXCEPT ![q] = [query[q] EXCEPT !.lists = Append(@, list)]]
        /\ UNCHANGED <<libraryVars, activeProfile>>
  BY <1>1 DEF SearchLexical, Becomes
<1>5. /\ matched \subseteq Versions
      /\ \A v \in matched : Visible(q, v) /\ LexicalCohortOf[v] = cohort
  BY <1>2, <1>4 DEF LexicalCandidates
<1>6. list \in Seq(Versions) /\ ToSet(list) \subseteq matched
  BY <1>4, <1>5, ListOf
<1> DEFINE y == [x EXCEPT !.lists = Append(@, list)]
<1>7. y.lists = Append(x.lists, list) /\ y.profile = x.profile /\ x.lists \in Seq(Seq(Versions))
  BY <1>2 DEF QueryInv
<1>8. y.lists[n] = list
  BY <1>1, <1>6, <1>7, ListAdded
<1>9. BranchInv(y, n)
  BY <1>1, <1>3, <1>5, <1>6, <1>7, <1>8 DEF BranchInv
<1> QED BY <1>1, <1>3, <1>4, <1>5, <1>6, <1>9 DEF SearchStep

LEMMA SearchVectorStep ==
  ASSUME PipelineInv, NEW q \in Queries, SearchVector(q)
  PROVE  SearchStep(q)
<1>1. PICK x, n, cohort :
        /\ x = query[q] /\ n = Len(x.lists) + 1
        /\ cohort = EmbeddingCohorts[x.profile][n - Len(LexicalCohorts[x.profile])]
  OBVIOUS
<1>2. QueryInv(x) /\ ready \subseteq Versions
  BY <1>1 DEF PipelineInv
<1>3. x.pc = "retrieving" /\ n > Len(LexicalCohorts[x.profile])
  BY <1>1 DEF SearchVector
<1>4. Len(LexicalCohorts[x.profile]) \in Nat
  BY <1>2, <1>3, QueryAssumption DEF QueryInv
<1>5. PICK list \in Lists(VectorCandidates(q, cohort)) :
        /\ query' = [query EXCEPT ![q] = [query[q] EXCEPT !.lists = Append(@, list)]]
        /\ UNCHANGED <<libraryVars, activeProfile>>
  BY <1>1 DEF SearchVector, VectorCohort, Becomes
<1>6. /\ VectorCandidates(q, cohort) \subseteq Versions
      /\ \A v \in VectorCandidates(q, cohort) :
           Visible(q, v) /\ EmbeddingCohortOf[v] = cohort
  BY <1>2 DEF VectorCandidates
<1>7. list \in Seq(Versions) /\ ToSet(list) \subseteq VectorCandidates(q, cohort)
  BY <1>6, ListOf
<1> DEFINE y == [x EXCEPT !.lists = Append(@, list)]
<1>8. y.lists = Append(x.lists, list) /\ y.profile = x.profile /\ x.lists \in Seq(Seq(Versions))
  BY <1>2 DEF QueryInv
<1>9. y.lists[n] = list /\ n \in Nat
  BY <1>1, <1>7, <1>8, ListAdded
<1>10. ~(n <= Len(LexicalCohorts[x.profile]))
  BY <1>3, <1>4, <1>9
<1>11. BranchInv(y, n)
  BY <1>1, <1>6, <1>7, <1>8, <1>9, <1>10 DEF BranchInv
<1> QED BY <1>1, <1>3, <1>5, <1>6, <1>7, <1>11 DEF SearchStep

\* Every other step of a query keeps its lists or ends with none.
LEMMA OtherStep ==
  ASSUME PipelineInv, NEW q \in Queries,
         \/ \E u \in Users : Authenticate(q, u)
         \/ Prepare(q) \/ MatchEntities(q) \/ Fuse(q) \/ Rerank(q)
         \/ EndWithoutEvidence(q) \/ Generate(q) \/ RejectGrounding(q) \/ FailQuery(q)
  PROVE  \E y : /\ query' = [query EXCEPT ![q] = y]
                /\ UNCHANGED <<libraryVars, activeProfile>>
                /\ QueryInv(y)
                /\ y.lists \in {query[q].lists, <<>>}
<1>1. PICK x : x = query[q] /\ QueryInv(x)
  BY DEF PipelineInv
<1>2. /\ QueryInv(NoQuery)
      /\ \A outcome, cited :
           LET y == [NoQuery EXCEPT !.pc = "done", !.actor = x.actor,
                                    !.outcome = outcome, !.cited = cited]
           IN  QueryInv(y) /\ y.lists = <<>>
  BY DEF QueryInv, NoQuery
<1>3. CASE \E u \in Users : Authenticate(q, u)
  <2>1. PICK u \in Users : Authenticate(q, u)
    BY <1>3
  <2> DEFINE y == [NoQuery EXCEPT !.pc = "authenticated", !.actor = u,
                                  !.scope = membership[u]]
  <2>2. QueryInv(y) /\ y.lists = <<>>
    BY DEF QueryInv, NoQuery
  <2> QED BY <2>1, <2>2 DEF Authenticate, Becomes
<1>4. CASE Prepare(q)
  <2>1. PICK scope : query' = [query EXCEPT ![q] =
          [x EXCEPT !.pc = "prepared", !.profile = activeProfile, !.scope = scope]]
    BY <1>1, <1>4 DEF Prepare, Becomes
  <2> DEFINE y == [x EXCEPT !.pc = "prepared", !.profile = activeProfile, !.scope = scope]
  <2>2. x.lists = <<>>
    BY <1>1, <1>4 DEF Prepare, QueryInv
  <2>3. QueryInv(y) /\ y.lists = <<>>
    BY <1>1, <2>2 DEF QueryInv, PipelineInv
  <2> QED BY <1>4, <2>1, <2>3 DEF Prepare, Becomes
<1>5. CASE MatchEntities(q)
  <2>1. PICK matches : query' = [query EXCEPT ![q] =
          [x EXCEPT !.pc = "retrieving", !.matches = matches]]
    BY <1>1, <1>5 DEF MatchEntities, Becomes
  <2> DEFINE y == [x EXCEPT !.pc = "retrieving", !.matches = matches]
  <2>2. y.lists = x.lists /\ y.profile = x.profile
    BY <1>1 DEF QueryInv
  <2>3. QueryInv(y)
    BY <1>1, <1>5, <2>2 DEF QueryInv, MatchEntities, BranchInv
  <2> QED BY <1>1, <1>5, <2>1, <2>2, <2>3 DEF MatchEntities, Becomes
<1>6. CASE Fuse(q)
  <2>1. PICK order : query' = [query EXCEPT ![q] = [x EXCEPT !.pc = "fused", !.fused = order]]
    BY <1>1, <1>6 DEF Fuse, Becomes
  <2> DEFINE y == [x EXCEPT !.pc = "fused", !.fused = order]
  <2>2. y.lists = x.lists /\ y.profile = x.profile
    BY <1>1 DEF QueryInv
  <2>3. QueryInv(y)
    BY <1>1, <1>6, <2>2 DEF QueryInv, Fuse, BranchInv
  <2> QED BY <1>1, <1>6, <2>1, <2>2, <2>3 DEF Fuse, Becomes
<1>7. CASE Rerank(q)
  <2>1. PICK score, order, evidence : query' = [query EXCEPT ![q] = [x EXCEPT
          !.pc = "reranked", !.lists = <<>>, !.fused = <<>>, !.matches = {},
          !.score = score, !.reranked = order, !.evidence = evidence]]
    BY <1>1, <1>7 DEF Rerank, Becomes
  <2> DEFINE y == [x EXCEPT !.pc = "reranked", !.lists = <<>>, !.fused = <<>>,
                            !.matches = {}, !.score = score, !.reranked = order,
                            !.evidence = evidence]
  <2>2. QueryInv(y) /\ y.lists = <<>>
    BY <1>1 DEF QueryInv
  <2> QED BY <1>7, <2>1, <2>2 DEF Rerank, Becomes
<1>8. CASE EndWithoutEvidence(q) \/ Generate(q) \/ RejectGrounding(q) \/ FailQuery(q)
  <2>1. PICK outcome, cited : Becomes(q, Ended(q, outcome, cited))
    BY <1>8 DEF EndWithoutEvidence, Generate, RejectGrounding, FailQuery
  <2> DEFINE y == [NoQuery EXCEPT !.pc = "done", !.actor = x.actor,
                                  !.outcome = outcome, !.cited = cited]
  <2>2. query' = [query EXCEPT ![q] = y] /\ UNCHANGED <<libraryVars, activeProfile>>
    BY <1>1, <2>1 DEF Becomes, Ended
  <2>3. QueryInv(y) /\ y.lists = <<>>
    BY <1>2
  <2> QED BY <2>2, <2>3
<1> QED BY <1>3, <1>4, <1>5, <1>6, <1>7, <1>8

\* What a step does to the queries and to the library.
LEMMA StepSplits ==
  ASSUME PipelineInv, Step
  PROVE  \/ \E q \in Queries : SearchStep(q)
         \/ \E q \in Queries : \E y :
              /\ query' = [query EXCEPT ![q] = y]
              /\ UNCHANGED <<libraryVars, activeProfile>>
              /\ QueryInv(y)
              /\ y.lists \in {query[q].lists, <<>>}
         \/ /\ UNCHANGED query
            /\ ready' \subseteq Versions
            /\ activeProfile' \in QueryProfiles
<1>1. CASE LibraryNext /\ UNCHANGED <<activeProfile, query>>
  BY <1>1 DEF PipelineInv, LibraryNext, AddDocument, AddVersion, Activate, BecomeReady,
              RevokeMembership
<1>2. CASE \E p \in QueryProfiles : SwitchProfile(p)
  BY <1>2 DEF PipelineInv, SwitchProfile, libraryVars
<1>3. CASE \E q \in Queries, u \in Users : Authenticate(q, u)
  BY <1>3, OtherStep
<1>4. CASE \E q \in Queries : QueryStep(q)
  <2>1. PICK q \in Queries : QueryStep(q)
    BY <1>4
  <2>2. CASE SearchLexical(q) \/ SearchVector(q)
    BY <2>2, SearchLexicalStep, SearchVectorStep
  <2>3. CASE ~(SearchLexical(q) \/ SearchVector(q))
    BY <2>1, <2>3, OtherStep DEF QueryStep
  <2> QED BY <2>2, <2>3
<1>5. CASE \E q \in Queries : FailQuery(q)
  BY <1>5, OtherStep
<1> QED BY <1>1, <1>2, <1>3, <1>4, <1>5 DEF Step

LEMMA SearchKeepsInv ==
  ASSUME PipelineInv, NEW q \in Queries, SearchStep(q)
  PROVE  \E y : /\ query' = [query EXCEPT ![q] = y]
                /\ UNCHANGED <<libraryVars, activeProfile>>
                /\ QueryInv(y)
<1>1. PICK list : /\ query' = [query EXCEPT ![q] = [query[q] EXCEPT !.lists = Append(@, list)]]
                  /\ UNCHANGED <<libraryVars, activeProfile>>
                  /\ query[q].pc = "retrieving"
                  /\ list \in Seq(Versions)
                  /\ BranchInv([query[q] EXCEPT !.lists = Append(@, list)],
                               Len(query[q].lists) + 1)
  BY DEF SearchStep
<1>2. PICK x, y : /\ x = query[q]
                  /\ y = [x EXCEPT !.lists = Append(@, list)]
  OBVIOUS
<1>3. QueryInv(x) /\ x.pc = "retrieving" /\ BranchInv(y, Len(x.lists) + 1)
  BY <1>1, <1>2 DEF PipelineInv
<1>4. QueryInv(y)
  BY <1>1, <1>2, <1>3, RetrieveStep
<1> QED BY <1>1, <1>2, <1>4

LEMMA PipelineStep ==
  ASSUME PipelineInv, Step
  PROVE  PipelineInv'
<1>1. \/ \E q \in Queries : \E y :
           /\ query' = [query EXCEPT ![q] = y]
           /\ UNCHANGED <<libraryVars, activeProfile>>
           /\ QueryInv(y)
      \/ /\ UNCHANGED query
         /\ ready' \subseteq Versions
         /\ activeProfile' \in QueryProfiles
  BY StepSplits, SearchKeepsInv
<1>2. CASE \E q \in Queries : \E y : /\ query' = [query EXCEPT ![q] = y]
                                     /\ UNCHANGED <<libraryVars, activeProfile>>
                                     /\ QueryInv(y)
  <2> DEFINE Replaces(q, y) == /\ query' = [query EXCEPT ![q] = y]
                               /\ UNCHANGED <<libraryVars, activeProfile>>
                               /\ QueryInv(y)
  <2>1. PICK q \in Queries : \E y : Replaces(q, y)
    BY <1>2
  <2>2. PICK y : Replaces(q, y)
    BY <2>1
  <2>3. query' = [k \in Queries |-> query'[k]] /\ query'[q] = y
        /\ \A k \in Queries \ {q} : query'[k] = query[k]
    BY <2>2 DEF PipelineInv
  <2>4. \A k \in Queries : QueryInv(query'[k])
    BY <2>2, <2>3 DEF PipelineInv
  <2> QED BY <2>2, <2>3, <2>4 DEF PipelineInv, libraryVars
<1>3. CASE /\ UNCHANGED query
           /\ ready' \subseteq Versions
           /\ activeProfile' \in QueryProfiles
  BY <1>3 DEF PipelineInv
<1> QED BY <1>1, <1>2, <1>3

-----------------------------------------------------------------------------
(* Theorems. *)

\* Every query has the profile it was prepared with, and its lists are those of
\* the profile's branches so far.
THEOREM PipelineInvariant == Spec => []PipelineInv
<1>1. Init => PipelineInv
  <2>1. QueryInv(NoQuery)
    BY DEF QueryInv, NoQuery
  <2>2. Init => /\ ready \subseteq Versions
                /\ activeProfile \in QueryProfiles
                /\ query = [q \in Queries |-> NoQuery]
    BY DEF Init, LibraryInit
  <2> QED BY <2>1, <2>2 DEF PipelineInv
<1>2. PipelineInv /\ [Next]_vars => PipelineInv'
  <2> SUFFICES ASSUME PipelineInv, [Next]_vars PROVE PipelineInv'
    OBVIOUS
  <2>1. CASE Next
    BY <2>1, PipelineStep DEF Next
  <2>2. CASE UNCHANGED vars
    BY <2>2 DEF PipelineInv, vars, libraryVars
  <2> QED BY <2>1, <2>2
<1> QED BY <1>1, <1>2, PTL DEF Spec

\* A query runs all its branches under one profile, whatever the platform
\* switches to in between.
THEOREM QueriesKeepTheirProfile == Spec => []OneProfilePerQuery
<1>1. PipelineInv => OneProfilePerQuery
  BY DEF PipelineInv, QueryInv, BranchInv, OneProfilePerQuery
<1> QED BY <1>1, PipelineInvariant, PTL

\* A retrieval statement returns only what its user may read when it runs,
\* although the departments were read when the query began.
THEOREM RevocationsAreHonoured == Spec => RevocationIsHonoured
<1>1. PipelineInv /\ [Next]_vars =>
        [\A q \in Queries : Len(query'[q].lists) > Len(query[q].lists) =>
           \A v \in ToSet(query'[q].lists[Len(query'[q].lists)]) :
             CanReadDocument(query[q].actor, documentOf[v])]_vars
  <2> SUFFICES ASSUME PipelineInv, Next, NEW q \in Queries,
                      Len(query'[q].lists) > Len(query[q].lists)
               PROVE  \A v \in ToSet(query'[q].lists[Len(query'[q].lists)]) :
                        CanReadDocument(query[q].actor, documentOf[v])
    OBVIOUS
  <2>1. \A k \in Queries : query[k].lists \in Seq(Seq(Versions))
    BY DEF PipelineInv, QueryInv
  <2>2. SearchStep(q)
    <3>1. CASE \E k \in Queries : SearchStep(k)
      <4>1. PICK k \in Queries : SearchStep(k)
        BY <3>1
      <4>2. k # q => query'[q] = query[q]
        BY <4>1 DEF SearchStep, PipelineInv
      <4>3. k = q
        BY <2>1, <4>2
      <4> QED BY <4>1, <4>3
    <3>2. CASE \E k \in Queries : \E y :
                 /\ query' = [query EXCEPT ![k] = y]
                 /\ y.lists \in {query[k].lists, <<>>}
      <4>1. query'[q].lists \in {query[q].lists, <<>>}
        BY <3>2 DEF PipelineInv
      <4> QED BY <2>1, <4>1
    <3>3. CASE UNCHANGED query
      BY <2>1, <3>3
    <3> QED BY <3>1, <3>2, <3>3, StepSplits DEF Next
  <2>3. PICK list : /\ query' = [query EXCEPT ![q] = [query[q] EXCEPT !.lists = Append(@, list)]]
                    /\ list \in Seq(Versions)
                    /\ \A v \in ToSet(list) : Visible(q, v)
    BY <2>2 DEF SearchStep
  <2>4. query'[q].lists = Append(query[q].lists, list)
    BY <2>3 DEF PipelineInv, QueryInv
  <2>5. query'[q].lists[Len(query'[q].lists)] = list
    BY <2>1, <2>3, <2>4, ListAdded
  <2> QED BY <2>3, <2>5 DEF Visible
<1> QED BY <1>1, PipelineInvariant, PTL DEF Spec, RevocationIsHonoured

-----------------------------------------------------------------------------
(* Rankings and the choice of evidence. *)

LEMMA SeqsOf ==
  ASSUME NEW S, S \subseteq Versions, NEW s \in SetToSeqs(S)
  PROVE  /\ s \in Seq(Versions)
         /\ ToSet(s) \subseteq S
         /\ Len(s) \in Nat
         /\ s # <<>> <=> S # {}
<1>1. IsFiniteSet(S)
  BY QueryAssumption, FS_Subset
<1>2. Cardinality(S) \in Nat /\ (Cardinality(S) = 0 <=> S = {})
  BY <1>1, FS_CardinalityType, FS_EmptySet
<1>3. s \in [1..Cardinality(S) -> S]
  BY DEF SetToSeqs
<1>4. s \in Seq(S) /\ Len(s) = Cardinality(S)
  BY <1>2, <1>3
<1>5. s \in Seq(Versions)
  BY <1>4
<1>6. ToSet(s) \subseteq S
  BY <1>3 DEF ToSet
<1> QED BY <1>2, <1>4, <1>5, <1>6

LEMMA FirstOfIs ==
  ASSUME NEW T, NEW s \in Seq(T), NEW n \in Nat \ {0}, NEW first, first = FirstOf(s, n)
  PROVE  /\ first \in Seq(T)
         /\ Len(first) <= n
         /\ ToSet(first) \subseteq ToSet(s)
         /\ s # <<>> => first # <<>> /\ first[1] = s[1] /\ s[1] \in ToSet(first)
<1>1. Len(s) \in Nat
  OBVIOUS
<1>2. PICK k : k = IF Len(s) < n THEN Len(s) ELSE n
  OBVIOUS
<1>3. k \in 0..Len(s) /\ k <= n /\ (s # <<>> => k >= 1)
  BY <1>1, <1>2
<1>4. first = SubSeq(s, 1, k)
  BY <1>2 DEF FirstOf
<1>5. /\ first \in Seq(T) /\ Len(first) = k /\ DOMAIN first = 1..k
      /\ \A i \in 1..k : first[i] = s[i] /\ i \in DOMAIN s
  BY <1>1, <1>3, <1>4
<1>6. ToSet(first) \subseteq ToSet(s)
  BY <1>5 DEF ToSet
<1>7. ASSUME s # <<>> PROVE first # <<>> /\ first[1] = s[1] /\ s[1] \in ToSet(first)
  BY <1>3, <1>5, <1>7 DEF ToSet
<1> QED BY <1>3, <1>5, <1>6, <1>7

LEMMA RankingIs ==
  ASSUME NEW S, S \subseteq Versions, NEW value, NEW order \in Rankings(S, value)
  PROVE  /\ order \in Seq(Versions)
         /\ ToSet(order) \subseteq S
         /\ Len(order) \in Nat
         /\ \A i, j \in 1..Len(order) : i < j =>
              \/ value[order[i]] > value[order[j]]
              \/ value[order[i]] = value[order[j]]
BY SeqsOf DEF Rankings, IsRanking

LEMMA EvidenceIs ==
  ASSUME NEW S, S \subseteq Versions, NEW score \in [S -> Scores],
         NEW order \in Rankings(S, score), NEW evidence \in Evidence(order, score)
  PROVE  evidence \in Seq(Versions) /\ ToSet(evidence) \subseteq ToSet(order)
<1>1. order \in Seq(Versions)
  BY RankingIs
<1>2. PICK selected : selected = FirstOf(order, TopK)
  OBVIOUS
<1>3. selected \in Seq(Versions) /\ ToSet(selected) \subseteq ToSet(order)
  BY <1>1, <1>2, FirstOfIs, RankingAssumption
<1>4. CASE evidence = <<>>
  BY <1>4 DEF ToSet
<1>5. CASE evidence \in Selections(selected, Citable(score))
  <2>1. /\ evidence \in SetToSeqs(ToSet(selected) \intersect Citable(score))
        /\ ToSet(selected) \intersect Citable(score) \subseteq Versions
    BY <1>3, <1>5 DEF Selections, ToSet
  <2> QED BY <1>3, <2>1, SeqsOf
<1> QED BY <1>2, <1>4, <1>5 DEF Evidence

\* The best passage decides: it is evidence if any is.
LEMMA EvidenceDecides ==
  ASSUME NEW S, S \subseteq Versions, NEW score \in [S -> Scores],
         NEW order \in Rankings(S, score), order # <<>>,
         NEW evidence \in Evidence(order, score)
  PROVE  evidence # <<>> <=>
           \E p \in ToSet(order) : score[p] >= SufficientScore /\ score[p] >= MinCitationScore
<1>1. /\ order \in Seq(Versions) /\ ToSet(order) \subseteq S /\ Len(order) \in Nat
      /\ DOMAIN order = 1..Len(order)
  <2>1. order \in Seq(Versions) /\ ToSet(order) \subseteq S /\ Len(order) \in Nat
    BY RankingIs
  <2> QED BY <2>1
<1>2. PICK best : best = order[1]
  OBVIOUS
<1>3. best \in ToSet(order) /\ 1 \in 1..Len(order)
  BY <1>1, <1>2 DEF ToSet
<1>4. \A p \in S : score[p] \in Int
  BY RankingAssumption
<1>5. ASSUME NEW p \in ToSet(order) PROVE score[best] >= score[p]
  <2>1. PICK j \in 1..Len(order) : p = order[j]
    BY <1>1 DEF ToSet
  <2>2. CASE j = 1
    BY <1>1, <1>2, <1>4, <2>1, <2>2
  <2>3. CASE j > 1
    <3>1. score[order[1]] > score[order[j]] \/ score[order[1]] = score[order[j]]
      BY <1>3, <2>3, RankingIs
    <3> QED BY <1>1, <1>2, <1>3, <1>4, <2>1, <3>1
  <2> QED BY <1>1, <2>2, <2>3
<1>6. PICK selected : selected = FirstOf(order, TopK)
  OBVIOUS
<1>7. /\ selected \in Seq(Versions) /\ ToSet(selected) \subseteq ToSet(order)
      /\ selected # <<>> /\ selected[1] = best /\ best \in ToSet(selected)
  BY <1>1, <1>2, <1>6, FirstOfIs, RankingAssumption
<1>8. SufficientScore \in Int /\ MinCitationScore \in Int
  BY RankingAssumption
<1> DEFINE C == ToSet(selected) \intersect Citable(score)
<1>9. C \subseteq Versions
  BY <1>7 DEF ToSet
<1>10. CASE score[best] < SufficientScore
  <2>1. evidence = <<>>
    BY <1>6, <1>7, <1>10 DEF Evidence
  <2>2. \A p \in ToSet(order) : ~(score[p] >= SufficientScore)
    BY <1>1, <1>3, <1>4, <1>5, <1>8, <1>10
  <2> QED BY <2>1, <2>2
<1>11. CASE ~(score[best] < SufficientScore)
  <2>1. evidence \in SetToSeqs(C)
    BY <1>6, <1>7, <1>11 DEF Evidence, Selections
  <2>2. evidence # <<>> <=> C # {}
    BY <1>9, <2>1, SeqsOf
  <2>3. ASSUME NEW p \in C PROVE score[best] >= MinCitationScore
    BY <1>1, <1>3, <1>4, <1>5, <1>7, <1>8, <2>3 DEF Citable
  <2>4. ASSUME NEW p \in ToSet(order), score[p] >= MinCitationScore PROVE best \in C
    BY <1>1, <1>3, <1>4, <1>5, <1>7, <1>8, <2>4 DEF Citable
  <2>5. score[best] >= SufficientScore
    BY <1>1, <1>3, <1>4, <1>8, <1>11
  <2> QED BY <1>3, <2>2, <2>3, <2>4, <2>5
<1> QED BY <1>10, <1>11

-----------------------------------------------------------------------------
(* Reciprocal-rank fusion. *)

\* A list that a statement returns is within the candidate limit.
LEMMA ListWithinLimit ==
  ASSUME NEW S, S \subseteq Versions, NEW list \in Lists(S)
  PROVE  Len(list) <= CandidateLimit
<1>1. PICK s \in SetToSeqs(S) : list = FirstOf(s, CandidateLimit)
  BY DEF Lists
<1>2. s \in Seq(Versions)
  BY SeqsOf
<1> QED BY <1>1, <1>2, FirstOfIs, QueryAssumption

LEMMA PositionIs ==
  ASSUME NEW list \in Seq(Versions), NEW p \in ToSet(list)
  PROVE  Position(list, p) \in 1..Len(list)
<1>1. \E i \in 1..Len(list) : list[i] = p
  BY DEF ToSet
<1> QED BY <1>1 DEF Position

LEMMA ReciprocalType ==
  ASSUME NEW rank \in Nat \ {0}
  PROVE  Reciprocal(rank) \in Nat
<1>1. PICK d : d = RrfK + rank
  OBVIOUS
<1>2. d \in Nat /\ d > 0 /\ Scale \in Nat
  BY <1>1, RankingAssumption
<1>3. Scale \div d \in Nat
  BY <1>2
<1> QED BY <1>1, <1>3 DEF Reciprocal

LEMMA ShareType ==
  ASSUME NEW list \in Seq(Versions), NEW p
  PROVE  Share(list, p) \in Nat
<1>1. CASE p \in ToSet(list)
  <2>1. Position(list, p) \in Nat \ {0}
    BY <1>1, PositionIs
  <2> QED BY <1>1, <2>1, ReciprocalType DEF Share
<1>2. CASE p \notin ToSet(list)
  BY <1>2 DEF Share
<1> QED BY <1>1, <1>2

LEMMA PartsAre ==
  ASSUME NEW lists \in Seq(Seq(Versions)), NEW p
  PROVE  /\ IsFiniteSet(Parts(lists, p))
         /\ Cardinality(Parts(lists, p)) \in Nat
         /\ \A i, n : <<i, n>> \in Parts(lists, p) <=>
              i \in DOMAIN lists /\ n \in 1..Share(lists[i], p)
         /\ \A part \in Parts(lists, p) : part = <<part[1], part[2]>>
<1> DEFINE Of(i) == {i} \X (1..Share(lists[i], p))
<1>1. \A i \in DOMAIN lists : lists[i] \in Seq(Versions)
  OBVIOUS
<1>2. \A i \in DOMAIN lists : IsFiniteSet(Of(i))
  <2> SUFFICES ASSUME NEW i \in DOMAIN lists PROVE IsFiniteSet(Of(i))
    OBVIOUS
  <2>1. Share(lists[i], p) \in Nat
    BY <1>1, ShareType
  <2>2. IsFiniteSet({i}) /\ IsFiniteSet(1..Share(lists[i], p))
    BY <2>1, FS_Singleton, FS_Interval, 1 \in Int, Share(lists[i], p) \in Int
  <2> QED BY <2>2, FS_Product
<1>3. IsFiniteSet({Of(i) : i \in DOMAIN lists})
  <2>1. DOMAIN lists = 1..Len(lists) /\ Len(lists) \in Int
    OBVIOUS
  <2>2. IsFiniteSet(DOMAIN lists)
    BY <2>1, FS_Interval, 1 \in Int
  <2>3. [i \in DOMAIN lists |-> Of(i)] \in Surjection(DOMAIN lists, {Of(i) : i \in DOMAIN lists})
    BY DEF Surjection
  <2> QED BY <2>2, <2>3, FS_Surjection
<1>4. IsFiniteSet(Parts(lists, p))
  BY <1>2, <1>3, FS_UNION DEF Parts
<1> QED BY <1>4, FS_CardinalityType DEF Parts

\* A passage that each branch ranks before another one, where it has that one, has
\* the higher score.
LEMMA DominantScoresMore ==
  ASSUME NEW lists \in Seq(Seq(Versions)), NEW matches,
         \A n \in DOMAIN lists : Len(lists[n]) <= CandidateLimit,
         NEW p, NEW r \in Retrieved(lists), Dominates(p, r, lists, matches)
  PROVE  /\ FusionScore(lists, matches, p) \in Nat
         /\ FusionScore(lists, matches, r) \in Nat
         /\ FusionScore(lists, matches, p) > FusionScore(lists, matches, r)
<1>1. \A n \in DOMAIN lists : lists[n] \in Seq(Versions) /\ Len(lists[n]) \in Nat
  OBVIOUS
<1>2. ASSUME NEW n \in DOMAIN lists, r \in ToSet(lists[n])
      PROVE  /\ Share(lists[n], p) \in Nat /\ Share(lists[n], r) \in Nat
             /\ Share(lists[n], r) < Share(lists[n], p)
  <2>1. PICK i, j : i = Position(lists[n], p) /\ j = Position(lists[n], r)
    OBVIOUS
  <2>2. p \in ToSet(lists[n]) /\ i < j
    BY <1>2, <2>1 DEF Dominates
  <2>3. i \in 1..Len(lists[n]) /\ j \in 1..Len(lists[n])
    BY <1>1, <1>2, <2>1, <2>2, PositionIs
  <2>4. i \in 1..CandidateLimit /\ j \in 1..CandidateLimit
    BY <1>1, <2>3, QueryAssumption
  <2>5. Reciprocal(j) < Reciprocal(i)
    BY <2>2, <2>4, QueryAssumption
  <2> QED BY <1>1, <1>2, <2>1, <2>2, <2>5, ShareType DEF Share
<1>3. ASSUME NEW n \in DOMAIN lists
      PROVE  1..Share(lists[n], r) \subseteq 1..Share(lists[n], p)
  <2>1. CASE r \in ToSet(lists[n])
    BY <1>2, <2>1
  <2>2. CASE r \notin ToSet(lists[n])
    BY <2>2 DEF Share
  <2> QED BY <2>1, <2>2
<1>4. Parts(lists, r) \subseteq Parts(lists, p)
  BY <1>3, PartsAre
<1>5. PICK n \in DOMAIN lists : r \in ToSet(lists[n])
  BY DEF Retrieved
<1>6. /\ <<n, Share(lists[n], p)>> \in Parts(lists, p)
      /\ <<n, Share(lists[n], p)>> \notin Parts(lists, r)
  <2>1. Share(lists[n], p) \in 1..Share(lists[n], p) /\ Share(lists[n], p) \notin 1..Share(lists[n], r)
    BY <1>2, <1>5
  <2> QED BY <1>5, <2>1, PartsAre
<1>7. /\ Cardinality(Parts(lists, r)) <= Cardinality(Parts(lists, p))
      /\ Cardinality(Parts(lists, r)) # Cardinality(Parts(lists, p))
  BY <1>4, <1>6, PartsAre, FS_Subset
<1>8. r \in matches => p \in matches
  BY DEF Dominates
<1> QED BY <1>7, <1>8, PartsAre, RankingAssumption DEF FusionScore

LEMMA FusionAgrees ==
  ASSUME NEW lists \in Seq(Seq(Versions)), NEW matches,
         \A n \in DOMAIN lists : Len(lists[n]) <= CandidateLimit,
         NEW S, S = Retrieved(lists), NEW value,
         \A p \in S : value[p] = FusionScore(lists, matches, p),
         NEW fused \in Rankings(S, value),
         NEW i \in 1..Len(fused), NEW j \in 1..Len(fused),
         Dominates(fused[i], fused[j], lists, matches)
  PROVE  i < j
<1>1. S \subseteq Versions
  BY DEF Retrieved, ToSet
<1>2. fused \in Seq(Versions) /\ ToSet(fused) \subseteq S /\ Len(fused) \in Nat
  BY <1>1, RankingIs
<1>3. fused[i] \in S /\ fused[j] \in S
  BY <1>2 DEF ToSet
<1>4. /\ value[fused[i]] \in Nat /\ value[fused[j]] \in Nat
      /\ value[fused[i]] > value[fused[j]]
  BY <1>3, DominantScoresMore
<1>5. \A m, n \in 1..Len(fused) :
        m < n => value[fused[m]] > value[fused[n]] \/ value[fused[m]] = value[fused[n]]
  BY <1>1, RankingIs
<1>6. i # j /\ ~(j < i)
  BY <1>4, <1>5
<1> QED BY <1>2, <1>6

-----------------------------------------------------------------------------
(* From a statement's result to a citation. *)

QueryRecord ==
  [pc : Waiting \union {"authenticated", "prepared", "retrieving", "fused", "reranked"},
   actor : Users \union {None}, scope : SUBSET Departments,
   profile : QueryProfiles \union {None}, matches : SUBSET Versions,
   lists : Seq(Seq(Versions)), fused : Seq(Versions),
   reranked : Seq(Versions),
   score : UNION {[S -> Scores] : S \in SUBSET Versions},
   evidence : Seq(Versions), cited : Seq(Versions),
   outcome : {"none", "grounded", "insufficient", "unavailable"}]

\* What a query x holds at any stage was seen; what fusion made is the ranking of
\* its lists, and its evidence is that of its reranked passages.
FlowInv(x, seen) ==
  /\ \A n \in DOMAIN x.lists : /\ ToSet(x.lists[n]) \subseteq seen
                               /\ Len(x.lists[n]) <= CandidateLimit
  /\ ToSet(x.fused) \subseteq seen
  /\ ToSet(x.reranked) \subseteq seen
  /\ ToSet(x.evidence) \subseteq seen
  /\ ToSet(x.cited) \subseteq seen
  /\ x.pc # "fused" => x.fused = <<>>
  /\ x.fused # <<>> =>
       \E value : /\ \A p \in Retrieved(x.lists) :
                       value[p] = FusionScore(x.lists, x.matches, p)
                  /\ x.fused \in Rankings(Retrieved(x.lists), value)
  /\ x.reranked # <<>> =>
       \E S \in SUBSET Versions : /\ x.score \in [S -> Scores]
                                  /\ x.reranked \in Rankings(S, x.score)
                                  /\ x.evidence \in Evidence(x.reranked, x.score)

CitationInv ==
  /\ TypeOK
  /\ \A q \in Queries : FlowInv(query[q], shown[q]) /\ Current(q) \subseteq shown[q]

\* The step of one query.
FlowStep(q) ==
  \E y : Becomes(q, y) /\ y \in QueryRecord /\ FlowInv(y, shown[q])

LEMMA RecordOf ==
  ASSUME CitationInv, NEW q \in Queries
  PROVE  /\ query[q] \in QueryRecord
         /\ FlowInv(query[q], shown[q])
         /\ Current(q) \subseteq shown[q] /\ shown[q] \subseteq Versions
         /\ query = [k \in Queries |-> query[k]]
         /\ ready \subseteq Versions /\ activeProfile \in QueryProfiles
         /\ membership \in [Users -> SUBSET Departments]
BY DEF CitationInv, TypeOK, LibraryTypeOK, QueryRecord

LEMMA NoQueryFlows ==
  ASSUME NEW seen PROVE NoQuery \in QueryRecord /\ FlowInv(NoQuery, seen)
<1>1. \A T : ToSet(<<>>) \subseteq T
  BY DEF ToSet
<1>2. <<>> \in Seq(Versions) /\ <<>> \in Seq(Seq(Versions)) /\ <<>> \in [{} -> Scores]
  OBVIOUS
<1>3. NoQuery \in QueryRecord
  BY <1>2 DEF NoQuery, QueryRecord, Waiting
<1> QED BY <1>1, <1>3 DEF NoQuery, FlowInv

\* A query ends, with citations of its evidence or none.
LEMMA EndFlows ==
  ASSUME CitationInv, NEW q \in Queries, NEW cited \in Seq(Versions),
         NEW outcome \in {"grounded", "insufficient", "unavailable"},
         ToSet(cited) \subseteq shown[q], Becomes(q, Ended(q, outcome, cited))
  PROVE  FlowStep(q)
<1>1. PICK x, y : x = query[q] /\ y = Ended(q, outcome, cited)
  OBVIOUS
<1>2. x \in QueryRecord
  BY <1>1, RecordOf
<1>3. y = [NoQuery EXCEPT !.pc = "done", !.actor = x.actor, !.outcome = outcome, !.cited = cited]
  BY <1>1 DEF Ended
<1>4. y \in QueryRecord
  BY <1>2, <1>3, NoQueryFlows DEF QueryRecord, Waiting
<1>5. /\ y.pc = "done" /\ y.lists = <<>> /\ y.fused = <<>> /\ y.reranked = <<>>
      /\ y.evidence = <<>> /\ y.cited = cited
  BY <1>3 DEF NoQuery
<1>6. FlowInv(y, shown[q])
  BY <1>5 DEF FlowInv, ToSet
<1> QED BY <1>1, <1>4, <1>6 DEF FlowStep

LEMMA AuthenticateFlows ==
  ASSUME CitationInv, NEW q \in Queries, NEW u \in Users, Authenticate(q, u)
  PROVE  FlowStep(q)
<1>1. PICK y : y = [NoQuery EXCEPT !.pc = "authenticated", !.actor = u, !.scope = membership[u]]
  OBVIOUS
<1>2. membership[u] \subseteq Departments /\ Becomes(q, y)
  BY <1>1, RecordOf DEF Authenticate
<1>3. y \in QueryRecord
  BY <1>1, <1>2, NoQueryFlows DEF QueryRecord
<1>4. /\ y.pc = "authenticated" /\ y.lists = <<>> /\ y.fused = <<>> /\ y.reranked = <<>>
      /\ y.evidence = <<>> /\ y.cited = <<>>
  BY <1>1 DEF NoQuery
<1>5. FlowInv(y, shown[q])
  BY <1>4 DEF FlowInv, ToSet
<1> QED BY <1>2, <1>3, <1>5 DEF FlowStep

LEMMA PrepareFlows ==
  ASSUME CitationInv, NEW q \in Queries, Prepare(q)
  PROVE  FlowStep(q)
<1>1. PICK x, scope : /\ x = query[q]
                      /\ scope = IF IsAdmin(x.actor) THEN DepartmentsOf(TenantOf[x.actor])
                                 ELSE x.scope
  OBVIOUS
<1>2. /\ x \in QueryRecord /\ FlowInv(x, shown[q]) /\ activeProfile \in QueryProfiles
      /\ x.pc = "authenticated"
  BY <1>1, RecordOf DEF Prepare
<1>3. PICK y : y = [x EXCEPT !.pc = "prepared", !.profile = activeProfile, !.scope = scope]
  OBVIOUS
<1>4. Becomes(q, y)
  BY <1>1, <1>2, <1>3 DEF Prepare, QueryRecord
<1>5. scope \subseteq Departments
  BY <1>1, <1>2 DEF QueryRecord, DepartmentsOf
<1>6. y \in QueryRecord
  BY <1>2, <1>3, <1>5 DEF QueryRecord
<1>7. /\ y.pc = "prepared" /\ y.lists = x.lists /\ y.fused = x.fused /\ y.reranked = x.reranked
      /\ y.evidence = x.evidence /\ y.cited = x.cited /\ y.score = x.score
      /\ y.matches = x.matches
  BY <1>2, <1>3 DEF QueryRecord
<1>8. FlowInv(y, shown[q])
  BY <1>2, <1>7 DEF FlowInv
<1> QED BY <1>4, <1>6, <1>8 DEF FlowStep

LEMMA MatchEntitiesFlows ==
  ASSUME CitationInv, NEW q \in Queries, MatchEntities(q)
  PROVE  FlowStep(q)
<1>1. PICK x : x = query[q]
  OBVIOUS
<1>2. x \in QueryRecord /\ FlowInv(x, shown[q]) /\ x.pc = "prepared"
  BY <1>1, RecordOf DEF MatchEntities
<1>3. PICK matches \in SUBSET Versions :
        Becomes(q, [x EXCEPT !.pc = "retrieving", !.matches = matches])
  BY <1>1 DEF MatchEntities
<1>4. PICK y : y = [x EXCEPT !.pc = "retrieving", !.matches = matches]
  OBVIOUS
<1>5. y \in QueryRecord
  BY <1>2, <1>4 DEF QueryRecord
<1>6. /\ y.pc = "retrieving" /\ y.lists = x.lists /\ y.fused = x.fused
      /\ y.reranked = x.reranked /\ y.evidence = x.evidence /\ y.cited = x.cited
      /\ y.score = x.score
  BY <1>2, <1>4 DEF QueryRecord
<1>7. FlowInv(y, shown[q])
  BY <1>2, <1>6 DEF FlowInv
<1> QED BY <1>3, <1>4, <1>5, <1>7 DEF FlowStep

\* What a statement shows its user could be seen at that moment.
LEMMA SearchFlows ==
  ASSUME CitationInv, PipelineInv, NEW q \in Queries, SearchLexical(q) \/ SearchVector(q)
  PROVE  FlowStep(q)
<1>1. PICK x : x = query[q]
  OBVIOUS
<1>2. /\ x \in QueryRecord /\ FlowInv(x, shown[q]) /\ Current(q) \subseteq shown[q]
      /\ ready \subseteq Versions
  BY <1>1, RecordOf
<1>3. x.pc = "retrieving"
  BY <1>1 DEF SearchLexical, SearchVector
<1>4. PICK S, list : /\ S \subseteq Versions /\ \A v \in S : Visible(q, v)
                     /\ list \in Lists(S)
                     /\ Becomes(q, [x EXCEPT !.lists = Append(@, list)])
  <2>1. CASE SearchLexical(q)
    <3>1. PICK n : n = Len(x.lists) + 1
      OBVIOUS
    <3>2. PICK matched \in SUBSET LexicalCandidates(q, LexicalCohorts[x.profile][n]) :
            \E list \in Lists(matched) :
              Becomes(q, [x EXCEPT !.lists = Append(@, list)])
      BY <1>1, <2>1, <3>1 DEF SearchLexical
    <3> QED BY <1>2, <3>2 DEF LexicalCandidates
  <2>2. CASE SearchVector(q)
    <3>1. PICK n : n = Len(x.lists) + 1
      OBVIOUS
    <3>2. \E list \in Lists(VectorCandidates(q, VectorCohort(q, n))) :
            Becomes(q, [x EXCEPT !.lists = Append(@, list)])
      BY <1>1, <2>2, <3>1 DEF SearchVector
    <3> QED BY <1>2, <3>2 DEF VectorCandidates
  <2> QED BY <2>1, <2>2
<1>5. list \in Seq(Versions) /\ ToSet(list) \subseteq S /\ Len(list) <= CandidateLimit
  <2>1. list \in Seq(S) /\ ToSet(list) \subseteq S
    BY <1>4, ListOf
  <2>2. list \in Seq(Versions)
    BY <1>4, <2>1
  <2> QED BY <1>4, <2>1, <2>2, ListWithinLimit
<1>6. S \subseteq shown[q]
  <2>1. S \subseteq Current(q)
    BY <1>1, <1>3, <1>4 DEF Current, Waiting, Visible, IsCurrent
  <2> QED BY <1>2, <2>1
<1>7. PICK y : y = [x EXCEPT !.lists = Append(@, list)]
  OBVIOUS
<1>8. x.lists \in Seq(Seq(Versions))
  BY <1>2 DEF QueryRecord
<1>9. /\ y.lists = Append(x.lists, list)
      /\ y.pc = x.pc /\ y.fused = x.fused
      /\ y.reranked = x.reranked /\ y.evidence = x.evidence /\ y.cited = x.cited
      /\ y.score = x.score /\ y.matches = x.matches
  BY <1>2, <1>7 DEF QueryRecord
<1>10. /\ y.lists \in Seq(Seq(Versions))
       /\ \A n \in DOMAIN y.lists : n \in DOMAIN x.lists \/ n = Len(x.lists) + 1
       /\ \A n \in DOMAIN x.lists : y.lists[n] = x.lists[n]
       /\ y.lists[Len(x.lists) + 1] = list
  BY <1>5, <1>8, <1>9, ListAdded
<1>11. y \in QueryRecord
  BY <1>2, <1>7, <1>9, <1>10 DEF QueryRecord
<1>12. FlowInv(y, shown[q])
  <2>1. \A n \in DOMAIN y.lists : /\ ToSet(y.lists[n]) \subseteq shown[q]
                                  /\ Len(y.lists[n]) <= CandidateLimit
    BY <1>2, <1>5, <1>6, <1>10 DEF FlowInv
  <2> QED BY <1>2, <1>3, <1>9, <2>1 DEF FlowInv
<1> QED BY <1>4, <1>7, <1>11, <1>12 DEF FlowStep

LEMMA FuseFlows ==
  ASSUME CitationInv, NEW q \in Queries, Fuse(q)
  PROVE  FlowStep(q)
<1>1. PICK x, S, value : /\ x = query[q] /\ S = Retrieved(x.lists)
                         /\ value = [p \in S |-> FusionScore(x.lists, x.matches, p)]
  OBVIOUS
<1>2. x \in QueryRecord /\ FlowInv(x, shown[q]) /\ shown[q] \subseteq Versions
  BY <1>1, RecordOf
<1>3. PICK order \in Rankings(S, value) : Becomes(q, [x EXCEPT !.pc = "fused", !.fused = order])
  BY <1>1 DEF Fuse
<1>4. S \subseteq shown[q]
  BY <1>1, <1>2 DEF Retrieved, FlowInv
<1>5. order \in Seq(Versions) /\ ToSet(order) \subseteq S
  BY <1>2, <1>3, <1>4, RankingIs
<1>6. PICK y : y = [x EXCEPT !.pc = "fused", !.fused = order]
  OBVIOUS
<1>7. y \in QueryRecord
  BY <1>2, <1>5, <1>6 DEF QueryRecord
<1>8. /\ y.pc = "fused" /\ y.lists = x.lists /\ y.fused = order
      /\ y.reranked = x.reranked /\ y.evidence = x.evidence /\ y.cited = x.cited
      /\ y.score = x.score /\ y.matches = x.matches
  BY <1>2, <1>6 DEF QueryRecord
<1>9. /\ \A p \in Retrieved(y.lists) : value[p] = FusionScore(y.lists, y.matches, p)
      /\ y.fused \in Rankings(Retrieved(y.lists), value)
  BY <1>1, <1>3, <1>8
<1>10. FlowInv(y, shown[q])
  BY <1>2, <1>4, <1>5, <1>8, <1>9 DEF FlowInv
<1> QED BY <1>3, <1>6, <1>7, <1>10 DEF FlowStep

LEMMA RerankFlows ==
  ASSUME CitationInv, NEW q \in Queries, Rerank(q)
  PROVE  FlowStep(q)
<1>1. PICK x, S : x = query[q] /\ S = ToSet(FirstOf(x.fused, RerankLimit))
  OBVIOUS
<1>2. x \in QueryRecord /\ FlowInv(x, shown[q]) /\ shown[q] \subseteq Versions
  BY <1>1, RecordOf
<1>3. \E score \in [S -> Scores] : \E order \in Rankings(S, score) :
        \E evidence \in Evidence(order, score) :
          Becomes(q, [x EXCEPT
            !.pc = "reranked", !.lists = <<>>, !.fused = <<>>, !.matches = {},
            !.score = score, !.reranked = order, !.evidence = evidence])
  BY <1>1 DEF Rerank
<1>4. PICK score, order, evidence :
        /\ score \in [S -> Scores] /\ order \in Rankings(S, score)
        /\ evidence \in Evidence(order, score)
        /\ Becomes(q, [x EXCEPT
             !.pc = "reranked", !.lists = <<>>, !.fused = <<>>, !.matches = {},
             !.score = score, !.reranked = order, !.evidence = evidence])
  BY <1>3
<1>5. S \subseteq shown[q]
  <2>1. x.fused \in Seq(Versions) /\ ToSet(x.fused) \subseteq shown[q]
    BY <1>2 DEF QueryRecord, FlowInv
  <2> QED BY <1>1, <2>1, FirstOfIs, RankingAssumption
<1>6. order \in Seq(Versions) /\ ToSet(order) \subseteq S
  BY <1>2, <1>4, <1>5, RankingIs
<1>7. evidence \in Seq(Versions) /\ ToSet(evidence) \subseteq ToSet(order)
  BY <1>2, <1>4, <1>5, EvidenceIs
<1>8. PICK y : y = [x EXCEPT
        !.pc = "reranked", !.lists = <<>>, !.fused = <<>>, !.matches = {},
        !.score = score, !.reranked = order, !.evidence = evidence]
  OBVIOUS
<1>9. /\ y.pc = "reranked" /\ y.lists = <<>> /\ y.fused = <<>> /\ y.score = score
      /\ y.reranked = order /\ y.evidence = evidence /\ y.cited = x.cited
  BY <1>2, <1>8 DEF QueryRecord
<1>10. y \in QueryRecord
  <2>1. /\ score \in UNION {[T -> Scores] : T \in SUBSET Versions}
        /\ <<>> \in Seq(Versions) /\ <<>> \in Seq(Seq(Versions))
    BY <1>2, <1>4, <1>5
  <2> QED BY <1>2, <1>6, <1>7, <1>8, <2>1 DEF QueryRecord
<1>11. FlowInv(y, shown[q])
  <2>1. ToSet(<<>>) = {}
    BY DEF ToSet
  <2>2. \E T \in SUBSET Versions : /\ y.score \in [T -> Scores]
                                   /\ y.reranked \in Rankings(T, y.score)
                                   /\ y.evidence \in Evidence(y.reranked, y.score)
    BY <1>2, <1>4, <1>5, <1>9
  <2> QED BY <1>2, <1>5, <1>6, <1>7, <1>9, <2>1, <2>2 DEF FlowInv
<1> QED BY <1>4, <1>8, <1>10, <1>11 DEF FlowStep

LEMMA EndingFlows ==
  ASSUME CitationInv, NEW q \in Queries,
         EndWithoutEvidence(q) \/ Generate(q) \/ RejectGrounding(q) \/ FailQuery(q)
  PROVE  FlowStep(q)
<1>1. <<>> \in Seq(Versions) /\ ToSet(<<>>) \subseteq shown[q]
  BY DEF ToSet
<1>2. CASE Generate(q)
  <2>1. PICK used, cited : /\ used \in SUBSET ToSet(query[q].evidence)
                           /\ cited \in SetToSeqs(used)
                           /\ Becomes(q, Ended(q, "grounded", cited))
    BY <1>2 DEF Generate
  <2>2. used \subseteq shown[q] /\ shown[q] \subseteq Versions
    BY <2>1, RecordOf DEF FlowInv
  <2>3. used \subseteq Versions /\ cited \in SetToSeqs(used)
    BY <2>1, <2>2
  <2>4. cited \in Seq(Versions) /\ ToSet(cited) \subseteq used
    BY <2>3, SeqsOf
  <2> QED BY <2>1, <2>2, <2>4, EndFlows
<1>3. CASE EndWithoutEvidence(q) \/ RejectGrounding(q) \/ FailQuery(q)
  <2>1. PICK outcome \in {"insufficient", "unavailable"} : Becomes(q, Ended(q, outcome, <<>>))
    BY <1>3 DEF EndWithoutEvidence, RejectGrounding, FailQuery
  <2> QED BY <1>1, <2>1, EndFlows
<1> QED BY <1>2, <1>3

\* The library keeps its types.
LEMMA LibraryTyped ==
  ASSUME LibraryTypeOK, LibraryNext
  PROVE  LibraryTypeOK'
<1>1. CASE \E v \in Versions, d \in Documents, u \in Users :
             \E departments \in SUBSET Departments : AddDocument(v, d, u, departments)
  <2>1. PICK v \in Versions, d \in Documents, u \in Users, departments \in SUBSET Departments :
          AddDocument(v, d, u, departments)
    BY <1>1
  <2>2. TenantOf[u] \in Tenants
    BY IdentityAssumption
  <2> QED BY <2>1, <2>2 DEF LibraryTypeOK, AddDocument
<1>2. CASE \E v \in Versions, d \in Documents, u \in Users : AddVersion(v, d, u)
  BY <1>2 DEF LibraryTypeOK, AddVersion
<1>3. CASE \E v \in Versions, d \in Documents, u \in Users : Activate(d, v, u)
  BY <1>3 DEF LibraryTypeOK, Activate
<1>4. CASE \E v \in Versions : BecomeReady(v)
  BY <1>4 DEF LibraryTypeOK, BecomeReady
<1>5. CASE \E u \in Users, x \in Departments : RevokeMembership(u, x)
  BY <1>5 DEF LibraryTypeOK, RevokeMembership
<1> QED BY <1>1, <1>2, <1>3, <1>4, <1>5 DEF LibraryNext

\* What was seen stays seen.
LEMMA FlowGrows ==
  ASSUME NEW x, NEW seen, FlowInv(x, seen), NEW more, seen \subseteq more
  PROVE  FlowInv(x, more)
BY DEF FlowInv

LEMMA OneQueryFlows ==
  ASSUME CitationInv, PipelineInv, Step,
         ~(LibraryNext /\ UNCHANGED <<activeProfile, query>>),
         ~(\E p \in QueryProfiles : SwitchProfile(p))
  PROVE  \E q \in Queries : FlowStep(q)
<1>1. CASE \E q \in Queries, u \in Users : Authenticate(q, u)
  BY <1>1, AuthenticateFlows
<1>2. CASE \E q \in Queries : QueryStep(q)
  BY <1>2, PrepareFlows, MatchEntitiesFlows, SearchFlows, FuseFlows, RerankFlows, EndingFlows
  DEF QueryStep
<1>3. CASE \E q \in Queries : FailQuery(q)
  BY <1>3, EndingFlows
<1> QED BY <1>1, <1>2, <1>3 DEF Step

\* A step leaves each query with what was seen before it.
LEMMA StepFlows ==
  ASSUME CitationInv, PipelineInv, Step
  PROVE  /\ LibraryTypeOK' /\ activeProfile' \in QueryProfiles
         /\ query' \in [Queries -> QueryRecord]
         /\ \A q \in Queries : FlowInv(query'[q], shown[q])
<1>1. /\ LibraryTypeOK /\ activeProfile \in QueryProfiles
      /\ query \in [Queries -> QueryRecord]
      /\ \A q \in Queries : FlowInv(query[q], shown[q])
  BY DEF CitationInv, TypeOK, QueryRecord
<1>2. CASE LibraryNext /\ UNCHANGED <<activeProfile, query>>
  BY <1>1, <1>2, LibraryTyped
<1>3. CASE \E p \in QueryProfiles : SwitchProfile(p)
  BY <1>1, <1>3 DEF SwitchProfile, libraryVars, LibraryTypeOK
<1>4. CASE /\ ~(LibraryNext /\ UNCHANGED <<activeProfile, query>>)
           /\ ~(\E p \in QueryProfiles : SwitchProfile(p))
  <2>1. PICK q \in Queries : FlowStep(q)
    BY <1>4, OneQueryFlows
  <2>2. PICK y : Becomes(q, y) /\ y \in QueryRecord /\ FlowInv(y, shown[q])
    BY <2>1 DEF FlowStep
  <2>3. query' = [query EXCEPT ![q] = y]
    BY <2>2 DEF Becomes
  <2>4. query' \in [Queries -> QueryRecord]
    BY <1>1, <2>2, <2>3
  <2>5. LibraryTypeOK' /\ activeProfile' \in QueryProfiles
    BY <1>1, <2>2 DEF Becomes, libraryVars, LibraryTypeOK
  <2>6. \A k \in Queries : query'[k] = IF k = q THEN y ELSE query[k]
    BY <1>1, <2>3
  <2>7. \A k \in Queries : FlowInv(query'[k], shown[k])
    BY <1>1, <2>2, <2>6
  <2> QED BY <2>4, <2>5, <2>7
<1> QED BY <1>2, <1>3, <1>4

LEMMA CitationStep ==
  ASSUME CitationInv, PipelineInv, Next
  PROVE  CitationInv'
<1>1. /\ LibraryTypeOK' /\ activeProfile' \in QueryProfiles
      /\ query' \in [Queries -> QueryRecord]
      /\ \A q \in Queries : FlowInv(query'[q], shown[q])
  BY StepFlows DEF Next
<1>2. PICK all : all = shown'
  OBVIOUS
<1>3. all = [q \in Queries |-> shown[q] \union Current(q)']
  BY <1>2 DEF Next, Record
<1>4. \A q \in Queries : Current(q)' \subseteq Versions
  BY DEF Current
<1>5. shown \in [Queries -> SUBSET Versions]
  BY DEF CitationInv, TypeOK
<1>6. \A q \in Queries : /\ all[q] = shown[q] \union Current(q)'
                         /\ shown[q] \subseteq all[q] /\ Current(q)' \subseteq all[q]
  BY <1>3
<1>7. all \in [Queries -> SUBSET Versions]
  BY <1>3, <1>4, <1>5
<1>8. TypeOK'
  BY <1>1, <1>2, <1>7 DEF TypeOK, QueryRecord
<1>9. \A q \in Queries : FlowInv(query'[q], all[q])
  BY <1>1, <1>6, FlowGrows
<1> QED BY <1>2, <1>6, <1>8, <1>9 DEF CitationInv

-----------------------------------------------------------------------------
(* Theorems about citations, fusion and evidence. *)

\* What a query holds was current and readable at some moment of it, and its
\* fused list and evidence are those of its lists and of its reranked passages.
THEOREM CitationInvariant == Spec => []CitationInv
<1>1. Init => CitationInv
  <2> SUFFICES ASSUME Init PROVE CitationInv
    OBVIOUS
  <2>1. LibraryTypeOK /\ activeProfile \in QueryProfiles
    BY IdentityAssumption DEF Init, LibraryInit, LibraryTypeOK
  <2>2. \A q \in Queries : query[q] = NoQuery /\ shown[q] = {}
    BY DEF Init
  <2>3. query \in [Queries -> QueryRecord] /\ shown \in [Queries -> SUBSET Versions]
    BY NoQueryFlows DEF Init
  <2>4. \A q \in Queries : Current(q) = {}
    BY <2>2 DEF Current, NoQuery, Waiting
  <2>5. TypeOK
    BY <2>1, <2>3 DEF TypeOK, QueryRecord
  <2> QED BY <2>2, <2>4, <2>5, NoQueryFlows DEF CitationInv
<1>2. CitationInv /\ PipelineInv /\ [Next]_vars => CitationInv'
  <2> SUFFICES ASSUME CitationInv, PipelineInv, [Next]_vars PROVE CitationInv'
    OBVIOUS
  <2>1. CASE Next
    BY <2>1, CitationStep
  <2>2. CASE UNCHANGED vars
    <3>1. UNCHANGED <<libraryVars, activeProfile, query, shown>>
      BY <2>2 DEF vars
    <3>2. TypeOK' /\ \A q \in Queries : Current(q)' = Current(q)
      BY <3>1 DEF CitationInv, TypeOK, LibraryTypeOK, libraryVars, Current, CanReadDocument
    <3> QED BY <3>1, <3>2 DEF CitationInv
  <2> QED BY <2>1, <2>2
<1> QED BY <1>1, <1>2, PipelineInvariant, PTL DEF Spec

\* Every query is in one of its stages with the data of that stage.
THEOREM TypeCorrect == Spec => []TypeOK
<1>1. CitationInv => TypeOK
  BY DEF CitationInv
<1> QED BY <1>1, CitationInvariant, PTL

\* An answer cites only versions that its user could read as current ones at
\* some moment of the query, whatever is activated or revoked meanwhile.
THEOREM CitationsWereShown == Spec => []CitedWasShown
<1>1. CitationInv => CitedWasShown
  BY DEF CitationInv, FlowInv, CitedWasShown
<1> QED BY <1>1, CitationInvariant, PTL

\* Fusion keeps what the branches agree on: a passage that each branch which has
\* another one ranks before it stays before it, for any number of branches.
THEOREM FusionKeepsOrder == Spec => []FusionKeepsAgreement
<1>1. CitationInv => FusionKeepsAgreement
  <2> SUFFICES ASSUME CitationInv, NEW q \in Queries,
                      NEW i \in 1..Len(query[q].fused), NEW j \in 1..Len(query[q].fused),
                      Dominates(query[q].fused[i], query[q].fused[j],
                                query[q].lists, query[q].matches)
               PROVE  i < j
    BY DEF FusionKeepsAgreement
  <2>1. PICK x : x = query[q]
    OBVIOUS
  <2>2. x \in QueryRecord /\ FlowInv(x, shown[q])
    BY <2>1, RecordOf
  <2>3. /\ x.lists \in Seq(Seq(Versions)) /\ x.fused \in Seq(Versions)
        /\ \A n \in DOMAIN x.lists : Len(x.lists[n]) <= CandidateLimit
    BY <2>2 DEF QueryRecord, FlowInv
  <2>4. x.fused # <<>>
    BY <2>1
  <2>5. PICK value : /\ \A p \in Retrieved(x.lists) :
                          value[p] = FusionScore(x.lists, x.matches, p)
                     /\ x.fused \in Rankings(Retrieved(x.lists), value)
    BY <2>2, <2>4 DEF FlowInv
  <2> QED BY <2>1, <2>3, <2>5, FusionAgrees
<1> QED BY <1>1, CitationInvariant, PTL

\* A query has evidence to answer from exactly if one of its reranked passages
\* is sufficient and citable, whatever was cut off.
THEOREM EvidenceIsSufficient == Spec => []EvidenceIffSufficient
<1>1. CitationInv => EvidenceIffSufficient
  <2> SUFFICES ASSUME CitationInv, NEW q \in Queries, query[q].reranked # <<>>
               PROVE  query[q].evidence # <<>> <=>
                        \E p \in ToSet(query[q].reranked) :
                          /\ query[q].score[p] >= SufficientScore
                          /\ query[q].score[p] >= MinCitationScore
    BY DEF EvidenceIffSufficient
  <2>1. PICK x : x = query[q]
    OBVIOUS
  <2>2. FlowInv(x, shown[q]) /\ x.reranked # <<>>
    BY <2>1, RecordOf
  <2>3. PICK S \in SUBSET Versions : /\ x.score \in [S -> Scores]
                                     /\ x.reranked \in Rankings(S, x.score)
                                     /\ x.evidence \in Evidence(x.reranked, x.score)
    BY <2>2 DEF FlowInv
  <2> QED BY <2>1, <2>2, <2>3, EvidenceDecides
<1> QED BY <1>1, CitationInvariant, PTL

=============================================================================
