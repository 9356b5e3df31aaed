--------------------------- MODULE ChunkEmbedding ---------------------------
(***************************************************************************)
(* The chunking and embedding stages of an ingestion attempt, down to the  *)
(* calls to the embedding provider: the passages cut by PageWindows become *)
(* the chunk rows of an index generation, and each gets the vector the     *)
(* provider returns for its text.  More than one worker may be at it (a    *)
(* job is delivered twice, or claimed again when its attempt is stale).    *)
(* The same adapter embeds an interactive question, with no retry, and the *)
(* same retry policy serves the completions of reranker and generator.     *)
(*                                                                         *)
(* A worker's chunker is deterministic: every attempt cuts the same        *)
(* passages, so PageWindows is run once.  A vector is known by the text it *)
(* was computed from and by the caller that asked for it.                  *)
(***************************************************************************)
EXTENDS PageWindows

CONSTANTS
  Workers,               \* the attempts that may run on the generation
  Question,              \* the caller that embeds a question
  Completion,            \* the caller that runs a structured completion
  MaxRateLimitAttempts   \* MAX_RATE_LIMIT_ATTEMPTS

\* input.callers: who is active on this input.  input.batchSize: of the profile.
ASSUME CallersAssumption ==
  /\ Question # Completion /\ Question \notin Workers /\ Completion \notin Workers
  /\ MaxRateLimitAttempts \in Nat \ {0}
  /\ \A i \in Inputs : /\ i.callers \subseteq Workers \cup {Question, Completion}
                       /\ i.batchSize \in Nat \ {0}

VARIABLES
  generation,  \* the index generation with its chunk and vector rows
  call         \* each caller's progress

vars == <<chunkerVars, generation, call>>

Callers == Workers \cup {Question, Completion}

\* retry_delay_seconds
RetryDelay(attempt) == 5 * 2 ^ attempt

\* The constructor's retry_rate_limits: the query service composes the question
\* embedder without it; completions always retry.
Limit(c) == IF c = Question THEN 1 ELSE MaxRateLimitAttempts

IdleCall == [step |-> "idle", todo |-> <<>>, vectors |-> <<>>,
             attempt |-> 0, slept |-> 0]

Init ==
  /\ ChunkerInit
  /\ generation = [chunked |-> FALSE, chunks |-> <<>>,
                   embedded |-> FALSE, vectors |-> <<>>]
  /\ call = [c \in Callers |-> IdleCall]

Go(c, step) == call' = [call EXCEPT ![c].step = step]

-----------------------------------------------------------------------------
(* The provider call: MistralTextEmbedder.embed, MistralAgents.complete *)

Batch(c) ==
  LET done == Len(call[c].vectors)
  IN  SubSeq(call[c].todo, done + 1,
             Lesser(done + input.batchSize, Len(call[c].todo)))

\* The items a provider may answer n texts with: an index, and what the vector
\* was computed from (0 if the index is of no text).
Answers(texts) ==
  LET Item(i) == [index |-> i, of |-> IF i < Len(texts) THEN texts[i + 1] ELSE 0]
  IN  UNION {[1..n -> {Item(i) : i \in 0..Len(texts)}] : n \in 0..Len(texts) + 1}

\* Sorted by index, the items must number the texts; each vector must be usable.
AcceptedMistake(items, texts) ==
  IF Len(items) = Len(texts) THEN {items} ELSE {}

Accepted(items, texts) ==
  {ordered \in [DOMAIN texts -> {items[i] : i \in DOMAIN items}] :
     /\ Len(items) = Len(texts)
     /\ \A i \in DOMAIN texts : ordered[i].index = i - 1}

Asking(c) == call[c].step = "asking" /\ Batch(c) # <<>>

AnswerUsable(c) ==
  /\ Asking(c)
  /\ \E items \in Answers(Batch(c)) : \E ordered \in Accepted(items, Batch(c)) :
       call' = [call EXCEPT
         ![c].vectors = @ \o [i \in 1..Len(ordered) |-> [of |-> ordered[i].of, by |-> c]],
         ![c].attempt = 0,
         ![c].slept = 0]
  /\ UNCHANGED <<chunkerVars, generation>>

\* A rejection, a transport error, an unreadable body, a missing, doubled or
\* unknown index, a vector of the wrong size, not finite or zero; or an output
\* that is not of the agent's type.
AnswerUnusable(c) ==
  /\ Asking(c)
  /\ Go(c, "failed")
  /\ UNCHANGED <<chunkerVars, generation>>

\* 429: sleep while another attempt remains, then give up.
RateLimitedMistake(c) ==
  /\ Asking(c)
  /\ IF call[c].attempt < Limit(c)
     THEN call' = [call EXCEPT ![c].step = "sleeping",
                               ![c].slept = @ + RetryDelay(call[c].attempt)]
     ELSE Go(c, "failed")
  /\ UNCHANGED <<chunkerVars, generation>>

RateLimited(c) ==
  /\ Asking(c)
  /\ IF call[c].attempt + 1 < Limit(c)
     THEN call' = [call EXCEPT ![c].step = "sleeping",
                               ![c].slept = @ + RetryDelay(call[c].attempt)]
     ELSE Go(c, "failed")
  /\ UNCHANGED <<chunkerVars, generation>>

Wake(c) ==
  /\ call[c].step = "sleeping"
  /\ call' = [call EXCEPT ![c].step = "asking", ![c].attempt = @ + 1]
  /\ UNCHANGED <<chunkerVars, generation>>

\* An interactive caller has one text to send.
AskInteractively(c) ==
  /\ c \in input.callers \cap {Question, Completion}
  /\ call[c].step = "idle"
  /\ call' = [call EXCEPT ![c].step = "asking", ![c].todo = <<1>>]
  /\ UNCHANGED <<chunkerVars, generation>>

ReturnAnswer(c) ==
  /\ c \in {Question, Completion}
  /\ call[c].step = "asking"
  /\ Batch(c) = <<>>
  /\ Go(c, "done")
  /\ UNCHANGED <<chunkerVars, generation>>

-----------------------------------------------------------------------------
(* The stages: ProcessingService._process_version *)

\* The generation is read once, before the stages.
StartStages(w) ==
  /\ w \in input.callers
  /\ call[w].step = "idle"
  /\ Go(w, IF ~generation.chunked THEN "chunking"
           ELSE IF ~generation.embedded THEN "listing" ELSE "done")
  /\ UNCHANGED <<chunkerVars, generation>>

\* Inside the transaction the checkpoint is read again, without a lock.
RecheckChunkedMistake(w) ==
  /\ call[w].step = "chunking"
  /\ ChunkerDone
  /\ ~generation.chunked
  /\ Go(w, "inserting")
  /\ UNCHANGED <<chunkerVars, generation>>

RecheckChunked(w) ==
  /\ call[w].step = "chunking"
  /\ ChunkerDone
  /\ Go(w, IF generation.chunked THEN "listing" ELSE "inserting")
  /\ UNCHANGED <<chunkerVars, generation>>

\* Rows with the same ordinal are refused: the whole transaction is undone.
InsertChunks(w) ==
  /\ call[w].step = "inserting"
  /\ IF generation.chunks # <<>> /\ passages # <<>>
     THEN Go(w, "failed") /\ UNCHANGED generation
     ELSE /\ generation' = [generation EXCEPT !.chunked = TRUE, !.chunks = passages]
          /\ Go(w, "listing")
  /\ UNCHANGED chunkerVars

ListChunks(w) ==
  /\ call[w].step = "listing"
  /\ call' = [call EXCEPT ![w].step = "asking",
                          ![w].todo = [i \in DOMAIN generation.chunks |-> i]]
  /\ UNCHANGED <<chunkerVars, generation>>

\* Every batch is answered.
RecheckEmbedded(w) ==
  /\ w \in Workers
  /\ call[w].step = "asking"
  /\ Batch(w) = <<>>
  /\ Go(w, IF generation.embedded THEN "done" ELSE "storing")
  /\ UNCHANGED <<chunkerVars, generation>>

\* Vectors that are there already are kept.
StoreVectorsMistake(w) ==
  /\ call[w].step = "storing"
  /\ generation' = [generation EXCEPT !.embedded = TRUE, !.vectors = call[w].vectors]
  /\ Go(w, "done")
  /\ UNCHANGED chunkerVars

StoreVectors(w) ==
  /\ call[w].step = "storing"
  /\ generation' = [generation EXCEPT
       !.embedded = TRUE,
       !.vectors = [i \in DOMAIN call[w].vectors |->
                      IF i \in DOMAIN @ THEN @[i] ELSE call[w].vectors[i]]]
  /\ Go(w, "done")
  /\ UNCHANGED chunkerVars

\* The worker dies or is stopped; what it has not committed is gone.
Crash(w) ==
  /\ w \in Workers
  /\ call[w].step \notin {"idle", "done", "failed"}
  /\ Go(w, "failed")
  /\ UNCHANGED <<chunkerVars, generation>>

Chunker ==
  /\ TakePage \/ CutWindow
  /\ UNCHANGED <<generation, call>>

Progress(c) ==
  \/ AnswerUsable(c) \/ AnswerUnusable(c) \/ RateLimited(c) \/ Wake(c)
  \/ AskInteractively(c) \/ ReturnAnswer(c)
  \/ c \in Workers /\ \/ StartStages(c) \/ RecheckChunked(c) \/ InsertChunks(c)
                      \/ ListChunks(c) \/ RecheckEmbedded(c) \/ StoreVectors(c)

Next ==
  \/ Chunker
  \/ \E c \in Callers : Progress(c) \/ Crash(c)

\* A called chunker runs on; a caller's coroutine is resumed, and the HTTP
\* client's timeout ends every request that is not answered.
Fairness ==
  /\ WF_vars(Chunker)
  /\ \A c \in Callers : WF_vars(Progress(c))

Spec == Init /\ [][Next]_vars /\ Fairness

-----------------------------------------------------------------------------
(* Properties *)

Steps == {"idle", "chunking", "inserting", "listing", "asking", "sleeping",
          "storing", "done", "failed"}

\* Every variable has its type.
TypeOK ==
  /\ ChunkerTypeOK
  /\ generation.chunked \in BOOLEAN
  /\ generation.embedded \in BOOLEAN
  /\ \A c \in Callers : call[c].step \in Steps /\ call[c].attempt \in 0..Limit(c) - 1

\* A generation is embedded all or not at all, each chunk with the vector of its
\* own text however the provider ordered its answer, and its chunks are the
\* passages of the text, once each, whoever wrote them.
VectorsMatchPassages ==
  /\ generation.chunked => generation.chunks = passages /\ ChunkerDone
  /\ generation.embedded => generation.chunked
  /\ DOMAIN generation.vectors = IF generation.embedded
                                 THEN DOMAIN generation.chunks ELSE {}
  /\ \A i \in DOMAIN generation.vectors : generation.vectors[i].of = i

\* What a query may already have read is not rewritten: chunk rows and vectors
\* stay as they were first committed.
IndexIsWrittenOnce ==
  [][/\ generation.chunked => generation'.chunks = generation.chunks
     /\ \A i \in DOMAIN generation.vectors :
          i \in DOMAIN generation'.vectors /\ generation'.vectors[i] = generation.vectors[i]]_vars

\* The sleeps of one request to the provider add up to at most 35 seconds with
\* four attempts, and an interactive question is not kept waiting at all.
BackpressureNotSleep ==
  \A c \in Callers :
    /\ call[c].slept <= 5 * (2 ^ (Limit(c) - 1) - 1)
    /\ c = Question => call[c].slept = 0 /\ call[c].step # "sleeping"

\* The chunker comes to the end of every text, and whoever asks the provider is
\* answered or fails.
EveryCallEnds ==
  /\ <>ChunkerDone
  /\ \A c \in Callers :
       call[c].step # "idle" ~> call[c].step \in {"done", "failed"}

=============================================================================
