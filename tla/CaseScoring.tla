---------------------------- MODULE CaseScoring ----------------------------
(***************************************************************************)
(* How an evaluation scores one execution of a case, and how the scores of *)
(* the cases add up (application/evaluation/scoring.py, runner.py): ranked *)
(* passages and citations, known by their source spans, are compared with  *)
(* the labelled spans of the case.  Values are kept as numerator and       *)
(* denominator, as the code stores them beside the quotient.               *)
(***************************************************************************)
EXTENDS Naturals, Sequences, FiniteSets, SequencesExt

\* A source span: characters from + 1 to to of a page of an original version.
Span(version, page, from, to) ==
  [version |-> version, page |-> page, from |-> from, to |-> to]

Metric(name, stage, k, numerator, denominator) ==
  [name |-> name, stage |-> stage, k |-> k,
   numerator |-> numerator, denominator |-> denominator]

\* What metrics are added up by.  A stage is a name and a cohort, 0 for none.
Key(metric) == <<metric.name, metric.stage, metric.k>>

-----------------------------------------------------------------------------
Overlap(a, b) == Cardinality((a.from + 1..a.to) \cap (b.from + 1..b.to))

CoversMistake(candidate, gold) ==
  /\ candidate.version = gold.version
  /\ candidate.page = gold.page
  /\ 2 * Overlap(candidate, gold) > gold.to - gold.from

\* A passage is relevant when it covers at least half of a labelled span.
Covers(candidate, gold) ==
  /\ candidate.version = gold.version
  /\ candidate.page = gold.page
  /\ 2 * Overlap(candidate, gold) >= gold.to - gold.from

\* Positions of the passages that are relevant to some label ...
Relevant(spans, gold) ==
  {i \in DOMAIN spans : \E label \in ToSet(gold) : Covers(spans[i], label)}

\* ... and of the labels that some passage is relevant to.
Found(spans, gold) ==
  {i \in DOMAIN gold : \E candidate \in ToSet(spans) : Covers(candidate, gold[i])}

\* The elements of s at some of its positions, in their order.
InOrder(s, positions) ==
  LET Place(n) == CHOOSE i \in positions : Cardinality({j \in positions : j < i}) = n - 1
  IN  [n \in 1..Cardinality(positions) |-> s[Place(n)]]

\* dict.fromkeys: the first of equal elements keeps its place.
Distinct(s) == InOrder(s, {i \in DOMAIN s : \A j \in 1..i - 1 : s[j] # s[i]})

Top(ranked, k) == SubSeq(ranked, 1, IF k <= Len(ranked) THEN k ELSE Len(ranked))

\* Precision at K, and recall at K where every relevant passage is labelled.
RetrievalMetrics(ranked, gold, ks, stage, complete) ==
  IF gold = <<>> THEN {}
  ELSE {Metric("precision", stage, k, Cardinality(Relevant(Top(ranked, k), gold)), k) :
          k \in ks}
       \union {Metric("recall", stage, k, Cardinality(Found(Top(ranked, k), gold)), Len(gold)) :
          k \in {x \in ks : complete}}

\* Cited evidence has a precision only if there is some; citing a passage
\* twice changes nothing.
CitationMetrics(citations, gold, complete) ==
  LET cited == Distinct(citations) IN
  IF gold = <<>> THEN {}
  ELSE {Metric("citation_precision", <<"citation", 0>>, 0,
               Cardinality(Relevant(cited, gold)), n) : n \in {Len(cited)} \ {0}}
       \union {Metric("citation_recall", <<"citation", 0>>, 0,
               Cardinality(Found(cited, gold)), Len(gold)) : x \in {TRUE} \cap {complete}}

\* Whether it was right to answer.
Answerability(correct) ==
  Metric("answerability_accuracy", <<"answer", 0>>, 0, IF correct THEN 1 ELSE 0, 1)

-----------------------------------------------------------------------------
\* One ranking over all cohorts of a branch, without repetitions.
Flattened(byCohort) == Distinct(FlattenSeq(byCohort))

\* What the executor captures of a query: the rankings of its stages, and of
\* the cohorts of a branch (0 stands for all of them); and the cited spans.
CaseResult(lexical, vector, fused, reranked, citations) ==
  LET branch == [lexical |-> lexical, vector |-> vector]
      whole  == [lexical |-> Flattened(lexical), vector |-> Flattened(vector),
                 fused |-> fused, reranked |-> reranked]
      stages == (DOMAIN whole) \X {0}
                  \union UNION {{b} \X DOMAIN branch[b] : b \in DOMAIN branch}
  IN  [ranked    |-> [s \in stages |-> IF s[2] = 0 THEN whole[s[1]] ELSE branch[s[1]][s[2]]],
       citations |-> citations,
       answered  |-> citations # <<>>]

\* Every metric of one execution.
ScoreCase(case, result, ks) ==
  CitationMetrics(result.citations, case.gold, case.complete)
  \union {Answerability(result.answered <=> case.answerable)}
  \union UNION {RetrievalMetrics(result.ranked[stage], case.gold, ks, stage, case.complete) :
                  stage \in DOMAIN result.ranked}

\* The micro-average: metrics of one key are added up over the cases that have
\* it, numerators and denominators apart.  scores is a sequence of sets.
AggregateMetrics(scores) ==
  LET keys == {Key(m) : m \in UNION ToSet(scores)}
      Of(key) == {x \in UNION {{n} \X scores[n] : n \in DOMAIN scores} : Key(x[2]) = key}
  IN  {Metric(key[1], key[2], key[3],
              SumFunction([x \in Of(key) |-> x[2].numerator]),
              SumFunction([x \in Of(key) |-> x[2].denominator])) : key \in keys}

=============================================================================
