-------------------------- MODULE MCChunkEmbedding --------------------------
(* Small instances of ChunkEmbedding for TLC. *)
EXTENDS ScoredPassages

CONSTANTS
  w1, w2,
  TextBound,     \* the longest text cut in every way
  WindowBound    \* the largest window

Texts == UNION {[1..n -> Characters] : n \in 0..TextBound}

\* Every short text under every window and overlap, with nobody to embed it.
Cuts ==
  {[text |-> t, maxChars |-> m, overlapChars |-> o, batchSize |-> 1, callers |-> {}] :
     t \in Texts, m \in 1..WindowBound, o \in 0..WindowBound - 1}

\* One long unbroken token, and words of two letters.
Token == [i \in 1..9 |-> "letter"]
Words == [i \in 1..9 |-> IF i % 3 = 0 THEN "space" ELSE "letter"]

LongCuts ==
  {[text |-> t, maxChars |-> m, overlapChars |-> o, batchSize |-> 1, callers |-> {}] :
     t \in {Token, Words}, m \in 1..6, o \in 0..5}

\* Every line of eight characters, under windows of five characters.
Lines ==
  {[text |-> t, maxChars |-> 5, overlapChars |-> o, batchSize |-> 1, callers |-> {}] :
     t \in [1..8 -> {"letter", "space"}], o \in 1..4}

\* No passage, one, and three, for two workers with batches of one and two.
Stored ==
  {[text |-> t, maxChars |-> 2, overlapChars |-> 0, batchSize |-> b, callers |-> {w1, w2}] :
     t \in {<<"space">>, <<"letter">>,
            <<"letter", "letter", "letter", "formfeed", "letter">>}, b \in 1..2}

Interactive ==
  {[text |-> <<>>, maxChars |-> 2, overlapChars |-> 0, batchSize |-> 1,
    callers |-> {Question, Completion}]}

MCInputs == {i \in Cuts \cup LongCuts \cup Lines \cup Stored \cup Interactive :
               i.overlapChars < i.maxChars}

=============================================================================
