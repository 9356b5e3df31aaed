--------------------------- MODULE ScoredPassages ---------------------------
(***************************************************************************)
(* The passages an index is built from, as an evaluation sees them: the    *)
(* chunker's offsets become source spans (application/evaluation/executor) *)
(* and are compared with spans an operator has labelled in the same text,  *)
(* whatever window and overlap the compared policies cut it with.          *)
(***************************************************************************)
EXTENDS ChunkEmbedding, CaseScoring

Original == 1   \* the version the text belongs to

\* A passage of a copy points back at the original version.  Its offsets are the
\* chunk's, counted from the beginning of the whole text.
Anchor(passage) == Span(Original, passage.page, passage.from, passage.to)

Anchors == [k \in DOMAIN passages |-> Anchor(passages[k])]

-----------------------------------------------------------------------------
(* Properties *)

\* Short labels: a phrase that is never divided, or an unbroken word of twice its
\* length, half of which is always in one passage.
LabelLimit == 2 * PhraseLimit

\* The n-th stretch of the text, by its beginning and then by its length; its
\* offsets are counted as the program counts those of a passage.
Stretch(n) ==
  LET from == (n - 1) \div LabelLimit
  IN  Span(Original, 1 + PagesBefore(from), from, from + 1 + ((n - 1) % LabelLimit))

\* Printed text of one page, which an operator may label.
IsLabel(span) ==
  /\ span.to <= Len(input.text)
  /\ \A i \in span.from + 1..span.to : input.text[i] # "formfeed"
  /\ input.text[span.from + 1] = "letter"
  /\ input.text[span.to] = "letter"
  /\ \/ span.to - span.from <= PhraseLimit
     \/ \A i \in span.from + 1..span.to : input.text[i] # "space"

Labels ==
  LET stretches == [n \in 1..Len(input.text) * LabelLimit |-> Stretch(n)]
  IN  InOrder(stretches, {n \in DOMAIN stretches : IsLabel(stretches[n])})

\* A case with all these labels, and what retrieves everything and cites it,
\* twice, or nothing at all.
LabelledCase == [gold |-> Labels, complete |-> TRUE, answerable |-> TRUE]

Everything ==
  CaseResult(<<Anchors>>, <<Reverse(Anchors)>>, Anchors, Reverse(Anchors), Anchors \o Anchors)

Nothing == CaseResult(<<>>, <<>>, <<>>, <<>>, <<>>)

\* However a policy cuts a text, it can be measured with labels in the offsets
\* that chunks are stored and cited with: a ranking with all its passages finds
\* every short label, so recall compares what retrieval does and not where
\* windows happen to end.  No metric exceeds one, although a label lies in
\* several overlapping passages and passages are cited twice; and a case that is
\* refused halves the recall of two cases, not their precision.
AbsoluteLabelsCanBeFound ==
  ChunkerDone /\ Labels # <<>> =>
    LET ks     == {1, Len(passages) + 1}
        found  == ScoreCase(LabelledCase, Everything, ks)
        missed == ScoreCase(LabelledCase, Nothing, ks)
        total  == AggregateMetrics(<<found, missed>>)
        Whole(m) == \/ m.name = "citation_recall"
                    \/ m.name = "recall" /\ m.k = Len(passages) + 1
    IN  /\ \A m \in total : m.denominator > 0 /\ m.numerator <= m.denominator
        /\ \A m \in found : Whole(m) => m.numerator = m.denominator
        /\ \A m \in total : Whole(m) /\ m.stage[2] = 0 => 2 * m.numerator = m.denominator
        /\ \A m \in total : m.name = "citation_precision" => m \in found

\* A label as the operators' guide has it written: its offsets are counted from
\* the beginning of its page.
PageLocal(label) ==
  LET before == SelectLastInSubSeq(input.text, 1, label.from, LAMBDA c : c = "formfeed")
  IN  [label EXCEPT !.from = @ - before, !.to = @ - before]

\* Said by docs/application/README.md:131 ("offsets are page-local") and by the
\* comment on SourceSpan (scoring.py:9, "A page-local span"), and not so: short
\* labels written like that are found by all the passages of the text together.
\* Passages are compared with the offsets of the whole text, which agree with
\* those of the page on the first page only.
PageLocalLabelsCanBeFound ==
  ChunkerDone =>
    LET labels == [n \in DOMAIN Labels |-> PageLocal(Labels[n])]
    IN  Found(Anchors, labels) = DOMAIN labels

=============================================================================
