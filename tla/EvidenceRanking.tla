--------------------------- MODULE EvidenceRanking ---------------------------
(***************************************************************************)
(* How a query ranks what its retrieval branches return: reciprocal-rank   *)
(* fusion with a boost for documents whose entities match, and the choice  *)
(* of evidence by two thresholds.  Scores are integers; 1 / (k + rank) is  *)
(* counted in parts of Scale.                                              *)
(***************************************************************************)
EXTENDS Integers, SequencesExt

CONSTANTS
  Passages,           \* retrievable passages
  Id,                 \* the order of their identifiers
  Scale,              \* parts that one is divided into
  RrfK,               \* retrieval configuration: rrf_k
  EntityBoost,        \* entity_match_boost, in parts of Scale
  RerankLimit,        \* rerank_candidate_limit
  TopK,               \* the query's top_k
  Scores,             \* scores a reranker gives
  SufficientScore,    \* insufficient_evidence_threshold
  MinCitationScore    \* min_citation_score

ASSUME RankingAssumption ==
  /\ Id \in [Passages -> Nat]
  /\ \A p, r \in Passages : Id[p] = Id[r] => p = r
  /\ Scale \in Nat /\ RrfK \in Nat /\ EntityBoost \in Nat
  /\ RerankLimit \in Nat \ {0} /\ TopK \in Nat \ {0}
  /\ Scores \subseteq Int
  /\ SufficientScore \in Int /\ MinCitationScore \in Int

Position(list, p) == CHOOSE i \in 1..Len(list) : list[i] = p

Reciprocal(rank) == Scale \div (RrfK + rank)

Share(list, p) == IF p \in ToSet(list) THEN Reciprocal(Position(list, p)) ELSE 0

\* The parts that p gets from all lists together.
Parts(lists, p) ==
  UNION {{i} \X (1..Share(lists[i], p)) : i \in DOMAIN lists}

FusionScoreMistake(lists, boosted, p) ==
  IF p \in boosted THEN EntityBoost ELSE Cardinality(Parts(lists, p))

FusionScore(lists, boosted, p) ==
  Cardinality(Parts(lists, p)) + (IF p \in boosted THEN EntityBoost ELSE 0)

Retrieved(lists) == UNION {ToSet(lists[i]) : i \in DOMAIN lists}

\* The arrangement of S by falling value, and by identifier among equals.
IsRanking(order, S, value) ==
  /\ order \in SetToSeqs(S)
  /\ \A i, j \in 1..Len(order) : i < j =>
       \/ value[order[i]] > value[order[j]]
       \/ /\ value[order[i]] = value[order[j]]
          /\ Id[order[i]] < Id[order[j]]

Rankings(S, value) == {order \in SetToSeqs(S) : IsRanking(order, S, value)}

FirstOf(list, n) == SubSeq(list, 1, IF Len(list) < n THEN Len(list) ELSE n)

\* A list without repetitions, cut down to its members in S.
Selections(list, S) ==
  {selection \in SetToSeqs(ToSet(list) \intersect S) :
     \A i, j \in 1..Len(selection) : i < j =>
       Position(list, selection[i]) < Position(list, selection[j])}

Citable(score) == {p \in DOMAIN score : score[p] >= MinCitationScore}

EvidenceMistake(reranked, score) ==
  {FirstOf(evidence, TopK) : evidence \in Selections(reranked, Citable(score))}

\* The passages of a reranked list that the answer may cite; none when even
\* the best one is not sufficient.
Evidence(reranked, score) ==
  LET selected == FirstOf(reranked, TopK) IN
  IF selected = <<>> \/ score[selected[1]] < SufficientScore
  THEN {<<>>}
  ELSE Selections(selected, Citable(score))

=============================================================================
