---------------------------- MODULE JobLifecycle ----------------------------
(***************************************************************************)
(* What a client of the ingestion pipeline may rely on, with no worker,    *)
(* queue or reconciler in sight: a submitted job is attempted a bounded    *)
(* number of times and settles once, as ready with a version that may be   *)
(* activated or as failed with none.  Only a job with an attempt that      *)
(* outlasted the stale threshold may be settled again, by that attempt.    *)
(***************************************************************************)
EXTENDS Naturals

CONSTANTS Jobs, MaxAttempts

VARIABLES
  status,       \* the status GET /jobs/{job_id} reports
  attempts,     \* the attempts it reports
  activatable,  \* jobs whose version and index generation are both ready
  outlasted     \* jobs with an attempt that recovery took for dead

vars == <<status, attempts, activatable, outlasted>>

Init ==
  /\ status = [j \in Jobs |-> "absent"]
  /\ attempts = [j \in Jobs |-> 0]
  /\ activatable = {}
  /\ outlasted = {}

Submit(j) ==
  /\ status[j] = "absent"
  /\ status' = [status EXCEPT ![j] = "queued"]
  /\ UNCHANGED <<attempts, activatable, outlasted>>

Attempt(j) ==
  /\ status[j] = "queued"
  /\ attempts[j] < MaxAttempts
  /\ status' = [status EXCEPT ![j] = "processing"]
  /\ attempts' = [attempts EXCEPT ![j] = @ + 1]
  /\ UNCHANGED <<activatable, outlasted>>

Requeue(j) ==
  /\ status[j] = "processing"
  /\ attempts[j] < MaxAttempts
  /\ status' = [status EXCEPT ![j] = "queued"]
  /\ UNCHANGED <<attempts, activatable, outlasted>>

Outlast(j) ==
  /\ status[j] = "processing"
  /\ outlasted' = outlasted \union {j}
  /\ UNCHANGED <<status, attempts, activatable>>

\* An attempt at j may be at work.
Attempted(j) ==
  \/ status[j] = "processing"
  \/ j \in outlasted /\ status[j] # "absent"

Succeed(j) ==
  /\ Attempted(j)
  /\ status' = [status EXCEPT ![j] = "ready"]
  /\ activatable' = activatable \union {j}
  /\ UNCHANGED <<attempts, outlasted>>

\* One recovery pass may give up on several jobs at once.
GiveUp(failed) ==
  /\ \A j \in failed : Attempted(j)
  /\ status' = [j \in Jobs |-> IF j \in failed THEN "failed" ELSE status[j]]
  /\ activatable' = activatable \ failed
  /\ UNCHANGED <<attempts, outlasted>>

Next ==
  \/ \E j \in Jobs :
       Submit(j) \/ Attempt(j) \/ Requeue(j) \/ Outlast(j) \/ Succeed(j)
  \/ \E failed \in SUBSET Jobs : GiveUp(failed)

Spec == Init /\ [][Next]_vars

=============================================================================
