---------------------------- MODULE ProfileActivation ----------------------------
(***************************************************************************)
(* The switching of active profile pointers.  Operators, at the Admin      *)
(* Panel or the private CLI, activate ingestion and query bundles for the  *)
(* platform and select an ingestion bundle for the evaluation tenant, each *)
(* in a transaction that locks pointer rows, checks, and writes the pointer *)
(* and an audit record.  Meanwhile uploads read the pointers without a     *)
(* lock, their generations become ready, and evaluations are launched and  *)
(* approved.                                                               *)
(*                                                                         *)
(* An operator's transaction sees what others have committed (READ         *)
(* COMMITTED).  Bundles whose capabilities are not validated are refused   *)
(* by every action and left out.                                           *)
(***************************************************************************)
EXTENDS ProfileBundles, Naturals, FiniteSets

CONSTANTS
  Operators,          \* concurrent operator sessions
  NoOperator,         \* the holder of a free row lock
  Uploads,            \* uploads that make one index generation each
  EvaluationUploads,  \* those of the evaluation tenant
  MaxRevision,        \* bound: the last revision a pointer may reach
  MaxComparisons      \* bound: evaluations launched

ASSUME ActivationAssumption ==
  /\ NoOperator \notin Operators
  /\ EvaluationUploads \subseteq Uploads
  /\ MaxRevision \in Nat
  /\ MaxComparisons \in Nat

VARIABLES
  pointer,     \* committed active_profiles rows; revision 0 is no row
  lock,        \* who has locked each row
  operator,    \* the operator sessions
  audit,       \* committed profile_activations rows
  launched,    \* evaluation runs
  approved,    \* those completed and approved
  generation   \* the index generation of each upload

vars == <<pointer, lock, operator, audit, launched, approved, generation>>

-----------------------------------------------------------------------------
\* The two platform pointers and the override of the evaluation tenant.
Rows == {"ingestion", "query", "evaluation"}

Profiles == IngestionProfiles \union QueryProfiles

Selection == [profile : Profiles \union {NoProfile}, revision : Nat]

IdleOperator ==
  [pc |-> "idle", kind |-> "show", target |-> NoProfile, expected |-> 0,
   current |-> [profile |-> NoProfile, revision |-> 0]]

Session ==
  [pc       : {"idle", "begun", "first", "locked", "found", "absent",
               "inserting", "cleared"},
   kind     : Rows \union {"show"},
   target   : Profiles \union {NoProfile},
   expected : Nat,        \* the revision the operator has reviewed
   current  : Selection]  \* the pointer as the transaction locked it

Activation ==
  [kind : Rows, previous : Profiles, new : Profiles, revision : Nat,
   actor : Operators]

Generation ==
  [status  : {"absent", "resolved", "building", "ready"},
   profile : IngestionProfiles \union {NoProfile}]

TypeOK ==
  /\ pointer \in [Rows -> Selection]
  /\ lock \in [Rows -> Operators \union {NoOperator}]
  /\ operator \in [Operators -> Session]
  /\ audit \subseteq Activation
  /\ approved \subseteq launched
  /\ launched \subseteq Comparisons
  /\ generation \in [Uploads -> Generation]

\* The migrations seed both platform pointers, with audit records of their own
\* that are left out.
Init ==
  /\ \E q \in QueryProfiles : \E i \in Reads[q] :
       pointer = [r \in Rows |->
                    CASE r = "ingestion" -> [profile |-> i, revision |-> 1]
                      [] r = "query" -> [profile |-> q, revision |-> 1]
                      [] OTHER -> [profile |-> NoProfile, revision |-> 0]]
  /\ lock = [r \in Rows |-> NoOperator]
  /\ operator = [o \in Operators |-> IdleOperator]
  /\ audit = {}
  /\ launched = {}
  /\ approved = {}
  /\ generation = [u \in Uploads |-> [status |-> "absent", profile |-> NoProfile]]

-----------------------------------------------------------------------------
(* Row locks: SELECT ... FOR UPDATE, released when the transaction ends. *)

\* Locks only the pointer that is going to be switched.
AcquireMistake(o, row) ==
  IF operator[o].kind \in {row, "evaluation"}
  THEN lock[row] = NoOperator /\ lock' = [lock EXCEPT ![row] = o]
  ELSE UNCHANGED lock

\* Reads the row without locking it.
NoAcquireMistake(o, row) == UNCHANGED lock

Acquire(o, row) ==
  /\ lock[row] = NoOperator
  /\ lock' = [lock EXCEPT ![row] = o]

EndTransaction(o) ==
  /\ lock' = [r \in Rows |-> IF lock[r] = o THEN NoOperator ELSE lock[r]]
  /\ operator' = [operator EXCEPT ![o] = IdleOperator]

\* Locks the pointer to be switched before the other one.
FirstRowMistake(kind) == IF kind = "query" THEN "query" ELSE "ingestion"

\* Both platform pointers are locked, in one order for every transaction.
FirstRow(kind) == "ingestion"

SecondRow(kind) == IF FirstRow(kind) = "ingestion" THEN "query" ELSE "ingestion"

-----------------------------------------------------------------------------
(* A platform activation. *)

\* An operator reviewed the pointer and submits a bundle for it.
Propose(o, kind, target) ==
  /\ operator[o].pc = "idle"
  /\ target \in IF kind = "query" THEN QueryProfiles ELSE IngestionProfiles
  /\ pointer[kind].revision < MaxRevision
  /\ operator' = [operator EXCEPT ![o] =
       [pc |-> "begun", kind |-> kind, target |-> target,
        expected |-> pointer[kind].revision,
        current |-> [profile |-> NoProfile, revision |-> 0]]]
  /\ UNCHANGED <<pointer, lock, audit, launched, approved, generation>>

\* show-active locks both pointers as well.
Inspect(o) ==
  /\ operator[o].pc = "idle"
  /\ operator' = [operator EXCEPT ![o].pc = "begun", ![o].kind = "show"]
  /\ UNCHANGED <<pointer, lock, audit, launched, approved, generation>>

LockFirst(o) ==
  /\ operator[o].pc = "begun"
  /\ operator[o].kind # "evaluation"
  /\ Acquire(o, FirstRow(operator[o].kind))
  /\ operator' = [operator EXCEPT ![o].pc = "first"]
  /\ UNCHANGED <<pointer, audit, launched, approved, generation>>

LockSecond(o) ==
  /\ operator[o].pc = "first"
  /\ Acquire(o, SecondRow(operator[o].kind))
  /\ operator' = [operator EXCEPT ![o] =
       [@ EXCEPT !.pc = "locked",
                 !.current = IF operator[o].kind = "show" THEN operator[o].current
                             ELSE pointer[operator[o].kind]]]
  /\ UNCHANGED <<pointer, audit, launched, approved, generation>>

\* Looks for an evaluation of the candidate and not for its review.
HasApprovalMistake(kind, current, target) ==
  IF kind = "query" THEN QueryComparison(current, target) \in launched
  ELSE IngestionComparison(current, target, pointer["query"].profile) \in launched

\* A completed run with an approving review compares the candidate with the
\* policy it is to replace; for ingestion also under the active query policy.
HasApproval(kind, current, target) ==
  IF kind = "query" THEN QueryComparison(current, target) \in approved
  ELSE IngestionComparison(current, target, pointer["query"].profile) \in approved

\* Profiles of ready generations, of every tenant and version.
ReferencedProfiles ==
  {generation[u].profile : u \in {v \in Uploads : generation[v].status = "ready"}}

\* The cohorts of a query bundle include those of every ingestion bundle that
\* is active or referenced; a new ingestion bundle is read by the active one.
HasCohorts(kind, target) ==
  IF kind = "query"
  THEN ReferencedProfiles \union {pointer["ingestion"].profile} \subseteq Reads[target]
  ELSE target \in Reads[pointer["query"].profile]

\* All checks of an activation, under its locks: any of them may refuse it.
Review(o) ==
  LET s == operator[o] IN
  /\ s.pc = "locked"
  /\ s.kind \in {"ingestion", "query"}
  /\ IF /\ s.current.revision = s.expected
        /\ s.current.profile # s.target
        /\ HasApproval(s.kind, s.current.profile, s.target)
        /\ HasCohorts(s.kind, s.target)
     THEN /\ operator' = [operator EXCEPT ![o].pc = "cleared"]
          /\ UNCHANGED lock
     ELSE EndTransaction(o)
  /\ UNCHANGED <<pointer, audit, launched, approved, generation>>

\* UPDATE ... WHERE revision = the revision the transaction has read.
SwitchPointer(row, current, target) ==
  IF pointer[row].revision = current.revision
  THEN [pointer EXCEPT ![row] = [profile |-> target,
                                 revision |-> current.revision + 1]]
  ELSE pointer

Record(o, previous, revision) ==
  audit \union {[kind |-> operator[o].kind, previous |-> previous,
                 new |-> operator[o].target, revision |-> revision,
                 actor |-> o]}

\* The pointer and its audit record are committed together.
CommitActivation(o) ==
  LET s == operator[o] IN
  /\ s.pc = "cleared"
  /\ pointer' = SwitchPointer(s.kind, s.current, s.target)
  /\ audit' = Record(o, s.current.profile, s.current.revision + 1)
  /\ EndTransaction(o)
  /\ UNCHANGED <<launched, approved, generation>>

EndInspection(o) ==
  /\ operator[o].pc = "locked"
  /\ operator[o].kind = "show"
  /\ EndTransaction(o)
  /\ UNCHANGED <<pointer, audit, launched, approved, generation>>

-----------------------------------------------------------------------------
(* The selection of an ingestion bundle for the evaluation tenant. *)

\* A missing row cannot be locked.
FindSelection(o) ==
  LET s == operator[o] IN
  /\ s.pc = "begun"
  /\ s.kind = "evaluation"
  /\ IF pointer["evaluation"].revision = 0
     THEN /\ operator' = [operator EXCEPT ![o].pc = "absent"]
          /\ UNCHANGED lock
     ELSE /\ Acquire(o, "evaluation")
          /\ operator' = [operator EXCEPT ![o] =
               [@ EXCEPT !.pc = "found", !.current = pointer["evaluation"]]]
  /\ UNCHANGED <<pointer, audit, launched, approved, generation>>

CheckSelection(o) ==
  LET s == operator[o] IN
  /\ s.pc = "found"
  /\ IF s.current.revision = s.expected /\ s.current.profile # s.target
     THEN /\ operator' = [operator EXCEPT ![o].pc = "cleared"]
          /\ UNCHANGED lock
     ELSE EndTransaction(o)
  /\ UNCHANGED <<pointer, audit, launched, approved, generation>>

\* Without a row the audit starts from the platform's bundle.
LockBaseline(o) ==
  LET s == operator[o] IN
  /\ s.pc = "absent"
  /\ IF s.expected = 0
     THEN /\ Acquire(o, "ingestion")
          /\ operator' = [operator EXCEPT ![o] =
               [@ EXCEPT !.pc = "inserting", !.current = pointer["ingestion"]]]
     ELSE EndTransaction(o)
  /\ UNCHANGED <<pointer, audit, launched, approved, generation>>

\* Takes a second selection for an update of the first.
InsertSelectionMistake(o) ==
  LET s == operator[o] IN
  /\ s.pc = "inserting"
  /\ pointer' = [pointer EXCEPT !["evaluation"] =
                   [profile |-> s.target, revision |-> 1]]
  /\ audit' = Record(o, s.current.profile, 1)
  /\ EndTransaction(o)
  /\ UNCHANGED <<launched, approved, generation>>

\* The unique constraint on scope and kind refuses a second row.
InsertSelection(o) ==
  LET s == operator[o] IN
  /\ s.pc = "inserting"
  /\ IF pointer["evaluation"].revision = 0
     THEN /\ pointer' = [pointer EXCEPT !["evaluation"] =
                           [profile |-> s.target, revision |-> 1]]
          /\ audit' = Record(o, s.current.profile, 1)
     ELSE UNCHANGED <<pointer, audit>>
  /\ EndTransaction(o)
  /\ UNCHANGED <<launched, approved, generation>>

\* The session dies or the database refuses a statement.
Abort(o) ==
  /\ operator[o].pc # "idle"
  /\ EndTransaction(o)
  /\ UNCHANGED <<pointer, audit, launched, approved, generation>>

-----------------------------------------------------------------------------
(* Evaluations and uploads. *)

AuditOf(row) == {a \in audit : a.kind = row}

\* The bundles a platform pointer holds or has held.
EverActive(row) == {pointer[row].profile} \union {a.previous : a \in AuditOf(row)}

\* The panel compares with the policies it found active; by the time the run is
\* committed they may have been replaced.
Launch(c) ==
  /\ c \notin launched
  /\ Cardinality(launched) < MaxComparisons
  /\ c.baseline # c.candidate
  /\ IF c.mode = "query" THEN c.baseline \in EverActive("query")
     ELSE /\ c.baseline \in EverActive("ingestion")
          /\ c.query \in EverActive("query")
          /\ {c.baseline, c.candidate} \subseteq Reads[c.query]
  /\ launched' = launched \union {c}
  /\ UNCHANGED <<pointer, lock, operator, audit, approved, generation>>

\* The run has completed and a reviewer approves it.
Approve(c) ==
  /\ c \in launched
  /\ approved' = approved \union {c}
  /\ UNCHANGED <<pointer, lock, operator, audit, launched, generation>>

IngestionFor(u) ==
  IF u \in EvaluationUploads /\ pointer["evaluation"].revision > 0
  THEN pointer["evaluation"].profile
  ELSE pointer["ingestion"].profile

\* The upload's transaction reads the pointers without locking them ...
ResolveUpload(u) ==
  /\ generation[u].status = "absent"
  /\ generation' = [generation EXCEPT ![u] =
       [status |-> "resolved", profile |-> IngestionFor(u)]]
  /\ UNCHANGED <<pointer, lock, operator, audit, launched, approved>>

\* ... and commits a generation that keeps the bundle it has read.
CommitUpload(u) ==
  /\ generation[u].status = "resolved"
  /\ generation' = [generation EXCEPT ![u].status = "building"]
  /\ UNCHANGED <<pointer, lock, operator, audit, launched, approved>>

FinishIndexing(u) ==
  /\ generation[u].status = "building"
  /\ generation' = [generation EXCEPT ![u].status = "ready"]
  /\ UNCHANGED <<pointer, lock, operator, audit, launched, approved>>

-----------------------------------------------------------------------------
Continue(o) ==
  \/ LockFirst(o)
  \/ LockSecond(o)
  \/ Review(o)
  \/ CommitActivation(o)
  \/ EndInspection(o)
  \/ FindSelection(o)
  \/ CheckSelection(o)
  \/ LockBaseline(o)
  \/ InsertSelection(o)

Next ==
  \/ \E o \in Operators, kind \in Rows, p \in Profiles : Propose(o, kind, p)
  \/ \E o \in Operators : Inspect(o) \/ Continue(o) \/ Abort(o)
  \/ \E c \in Comparisons : Launch(c) \/ Approve(c)
  \/ \E u \in Uploads : ResolveUpload(u) \/ CommitUpload(u) \/ FinishIndexing(u)

Spec == Init /\ [][Next]_vars

-----------------------------------------------------------------------------
\* The active query bundle reads the cohorts that new uploads are given, also
\* when the two pointers are switched at the same time and each switch is
\* checked against the other's pointer.
ActiveIngestionIsRead ==
  pointer["ingestion"].profile \in Reads[pointer["query"].profile]

\* The audit records of a pointer are the chain of its values: one record for
\* every revision, each starting from the value the one before it set, the
\* last of them at the committed pointer.  Concurrent operators neither lose
\* a switch nor record one that did not happen.
AuditIsChain ==
  \A row \in Rows :
    /\ \A a, b \in AuditOf(row) :
         /\ a.revision = b.revision => a = b
         /\ b.revision = a.revision + 1 => b.previous = a.new
    /\ \A a \in AuditOf(row) :
         /\ a.revision <= pointer[row].revision
         /\ a.revision = pointer[row].revision => a.new = pointer[row].profile
    /\ \A n \in (IF row = "evaluation" THEN 1 ELSE 2)..pointer[row].revision :
         \E a \in AuditOf(row) : a.revision = n

\* What an operator selects for the evaluation tenant reaches no other
\* tenant: its uploads get bundles that were active for the platform.
OverrideIsIsolated ==
  \A u \in Uploads \ EvaluationUploads :
    generation[u].status # "absent" =>
      generation[u].profile \in EverActive("ingestion")

\* The row that an operator's next statement locks, if it locks one.
Wanted(o) ==
  CASE operator[o].pc = "begun" /\ operator[o].kind # "evaluation" ->
         {FirstRow(operator[o].kind)}
    [] operator[o].pc = "begun" /\ operator[o].kind = "evaluation" ->
         {row \in {"evaluation"} : pointer[row].revision > 0}
    [] operator[o].pc = "first" -> {SecondRow(operator[o].kind)}
    [] operator[o].pc = "absent" -> {"ingestion"}
    [] OTHER -> {}

\* No operators wait for each other's rows in a circle: among any of them,
\* however their transactions mix, somebody does not wait for another of them.
NoCircularWait ==
  \A S \in (SUBSET Operators) \ {{}} : \E o \in S :
    \A row \in Wanted(o) : lock[row] \notin S

-----------------------------------------------------------------------------
Policy ==
  INSTANCE PlatformPolicy WITH
    ingestion <- pointer["ingestion"].profile,
    query     <- pointer["query"].profile

\* Seen from outside, a policy is replaced in one step, by a candidate whose
\* approved evaluation is against the policies of that very moment.
PolicySpec == Policy!Spec

=============================================================================
