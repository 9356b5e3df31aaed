---------------------------- MODULE IngestionRows ----------------------------
(***************************************************************************)
(* The committed rows of one upload and the repository operations on them: *)
(* processing_jobs, and document_versions together with the version's only *)
(* index generation and its stage checkpoints.                             *)
(*                                                                         *)
(* Timestamps are ages: "recent" until the ten-minute stale threshold has  *)
(* passed, "stale" after it.  A retry time is "due" as soon as it is set.  *)
(* Operators named ...Mistake are used by no specification: each is the    *)
(* operation after it with a plausible slip, to show that a property of    *)
(* the pipeline would notice.                                              *)
(***************************************************************************)
EXTENDS Naturals

CONSTANT MaxAttempts     \* RetryConfig.max_attempts

ASSUME AttemptsAssumption == MaxAttempts \in Nat \ {0}

Stages == {"parse", "ner", "chunk", "embed"}

Earlier(s) ==
  CASE s = "parse" -> {}
    [] s = "ner"   -> {"parse"}
    [] s = "chunk" -> {"parse", "ner"}
    [] s = "embed" -> {"parse", "ner", "chunk"}

Ages == {"null", "recent", "stale"}

JobRow ==
  [status     : {"absent", "queued", "processing", "ready", "failed"},
   attempts   : Nat,
   enqueuedAt : Ages,
   startedAt  : Ages,
   retryAt    : {"null", "due"},
   category   : {"null", "transient", "permanent"},
   error      : {"null", "stage", "exhausted"}]

NoRow == [status |-> "absent", attempts |-> 0, enqueuedAt |-> "null",
          startedAt |-> "null", retryAt |-> "null", category |-> "null",
          error |-> "null"]

VersionRow ==
  [status : {"absent", "stored", "processing", "ready", "failed"},
   index  : {"absent", "building", "ready"},
   done   : SUBSET Stages]

NoVersion == [status |-> "absent", index |-> "absent", done |-> {}]

-----------------------------------------------------------------------------
(* processing_jobs *)

CreateJob == [NoRow EXCEPT !.status = "queued"]

MarkEnqueued(row) == [row EXCEPT !.enqueuedAt = "recent"]

\* The stale threshold passes.
StartedBeforeCutoff(row) == [row EXCEPT !.startedAt = "stale"]

EnqueuedBeforeCutoff(row) == [row EXCEPT !.enqueuedAt = "stale"]

ClaimableMistake(row) == row.status \in {"queued", "processing"}

Claimable(row) == row.status = "queued"

ClaimJob(row) ==
  [row EXCEPT !.status = "processing", !.startedAt = "recent",
              !.retryAt = "null", !.attempts = @ + 1]

FailJob(row, code) ==
  [row EXCEPT !.status = "failed", !.category = "permanent", !.error = code]

MarkJobReady(row) == [row EXCEPT !.status = "ready", !.error = "null"]

RetryJob(row, attempts) ==
  [row EXCEPT !.status = "queued", !.attempts = attempts, !.retryAt = "due",
              !.category = "transient"]

PrepareForRequeue(row) ==
  [row EXCEPT !.status = "queued", !.enqueuedAt = "null", !.retryAt = "null"]

\* Forgets the attempt limit of a stale attempt.
UnlimitedRecoverableMistake(row) ==
  \/ /\ row.status = "queued"
     /\ row.enqueuedAt \in {"null", "stale"} \/ row.retryAt = "due"
  \/ row.status = "processing" /\ row.startedAt = "stale"

\* Trusts Redis to keep an id it once accepted.
TrustingRecoverableMistake(row) ==
  \/ row.status = "queued" /\ row.enqueuedAt = "null"
  \/ /\ row.status = "processing"
     /\ row.startedAt = "stale"
     /\ row.attempts < MaxAttempts

Recoverable(row) ==
  \/ /\ row.status = "queued"
     /\ row.enqueuedAt \in {"null", "stale"} \/ row.retryAt = "due"
  \/ /\ row.status = "processing"
     /\ row.startedAt = "stale"
     /\ row.attempts < MaxAttempts
  \/ /\ row.status = "failed"
     /\ row.category = "transient"
     /\ row.attempts < MaxAttempts

StaleExhausted(row) ==
  /\ row.status = "processing"
  /\ row.startedAt = "stale"
  /\ row.attempts >= MaxAttempts

\* What a recorded failure writes of its row: the times of the claim and of
\* the enqueueing are not among the columns of the statement.
WrittenColumns(row) == [row EXCEPT !.enqueuedAt = "null", !.startedAt = "null"]

IsRetryable(attempts) == attempts < MaxAttempts

\* The row PostgreSQL keeps when a worker's session is closed.  Nothing
\* commits the transaction that the failure paths begin implicitly, so
\* closing the session rolls it back.
RowAfterClose(row, unsaved) == row

-----------------------------------------------------------------------------
(* document_versions, index_generations and the stage checkpoints *)

CreateVersion == [status |-> "stored", index |-> "building", done |-> {}]

MarkProcessing(row) == [row EXCEPT !.status = "processing"]

MarkVersionFailedMistake(row) == row

MarkVersionFailed(row) == [row EXCEPT !.status = "failed"]

MarkVersionReady(row) == [row EXCEPT !.status = "ready", !.index = "ready"]

Checkpoint(row, s) == [row EXCEPT !.done = @ \union {s}]

\* Takes the NER checkpoint of an earlier attempt to cover embedding too.
RemainingMistake(row) ==
  IF "ner" \in row.done THEN {"chunk"} ELSE Stages \ row.done

\* The stages an attempt runs: those the claim did not see checkpointed.
Remaining(row) == Stages \ row.done

=============================================================================
