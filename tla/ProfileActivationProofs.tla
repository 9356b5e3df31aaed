------------------------ MODULE ProfileActivationProofs ------------------------
(***************************************************************************)
(* Theorems about ProfileActivation for every set of bundles, operators    *)
(* and uploads, and every bound.                                           *)
(*                                                                         *)
(* The argument is about locks: what a transaction has checked stays true  *)
(* until it commits, because it holds the rows it has checked and nobody   *)
(* else writes them.                                                       *)
(***************************************************************************)
EXTENDS ProfileActivation, TLAPS

BundlesOf(row) == IF row = "query" THEN QueryProfiles ELSE IngestionProfiles

\* Every pointer row that exists selects a bundle of its kind, the platform's
\* exist, and only a row that exists is locked.
PointersInv ==
  /\ \A row \in Rows :
       pointer[row].revision # 0 => pointer[row].profile \in BundlesOf(row)
  /\ pointer["ingestion"].revision # 0
  /\ pointer["query"].revision # 0
  /\ lock["evaluation"] # NoOperator => pointer["evaluation"].revision # 0

\* The cohort check of an activation, without the ready generations.
Fits(kind, target) ==
  IF kind = "query" THEN pointer["ingestion"].profile \in Reads[target]
  ELSE target \in Reads[pointer["query"].profile]

HoldsBoth(o) == lock["ingestion"] = o /\ lock["query"] = o

\* What a session knows, by how far it has come.
SessionInv(o) ==
  LET s == operator[o] IN
  /\ s.pc # "idle" /\ s.kind # "show" => s.target \in BundlesOf(s.kind)
  /\ s.pc \in {"found", "absent", "inserting"} => s.kind = "evaluation"
  /\ s.pc = "first" => s.kind # "evaluation" /\ lock["ingestion"] = o
  /\ s.pc = "locked" =>
       /\ s.kind # "evaluation"
       /\ HoldsBoth(o)
       /\ s.kind # "show" => s.current = pointer[s.kind]
  /\ s.pc = "found" =>
       lock["evaluation"] = o /\ s.current = pointer["evaluation"]
  /\ s.pc = "inserting" =>
       lock["ingestion"] = o /\ s.current = pointer["ingestion"]
  /\ s.pc = "cleared" =>
       /\ s.kind # "show"
       /\ lock[s.kind] = o
       /\ s.current = pointer[s.kind]
       /\ s.kind # "evaluation" =>
            /\ HoldsBoth(o)
            /\ HasApproval(s.kind, s.current.profile, s.target)
            /\ Fits(s.kind, s.target)

GateInv ==
  /\ TypeOK
  /\ PointersInv
  /\ \A o \in Operators : SessionInv(o)
  /\ ActiveIngestionIsRead

-----------------------------------------------------------------------------
(* Facts about records and rows. *)

LEMMA Typing ==
  ASSUME TypeOK, NEW o \in Operators
  PROVE  /\ operator[o] \in Session
         /\ \A row \in Rows : /\ pointer[row] \in Selection
                              /\ pointer[row].profile \in Profiles \union {NoProfile}
                              /\ pointer[row].revision \in Nat
         /\ operator[o].current \in Selection
         /\ operator[o].current.revision \in Nat
         /\ operator[o].current.revision + 1 \in Nat
         /\ operator[o].target \in Profiles \union {NoProfile}
<1>1. /\ operator[o] \in Session
      /\ \A row \in Rows : pointer[row] \in Selection
  BY DEF TypeOK
<1>2. /\ operator[o].current \in Selection
      /\ operator[o].target \in Profiles \union {NoProfile}
  BY <1>1 DEF Session
<1>3. /\ operator[o].current.revision \in Nat
      /\ \A row \in Rows : /\ pointer[row].profile \in Profiles \union {NoProfile}
                           /\ pointer[row].revision \in Nat
  BY <1>1, <1>2 DEF Selection
<1>4. operator[o].current.revision + 1 \in Nat
  BY <1>3
<1> QED BY <1>1, <1>2, <1>3, <1>4

LEMMA Bundles ==
  /\ \A row \in Rows : BundlesOf(row) \subseteq Profiles
  /\ \A q \in QueryProfiles : Reads[q] \subseteq IngestionProfiles
  /\ NoProfile \notin Profiles
BY BundlesAssumption DEF BundlesOf, Profiles, Rows

LEMMA IdleIsSession == IdleOperator \in Session
BY DEF IdleOperator, Session, Selection, Rows

\* A transaction that ends frees its rows and keeps the types.
LEMMA EndTransactionType ==
  ASSUME TypeOK, NEW o \in Operators, EndTransaction(o)
  PROVE  /\ lock' \in [Rows -> Operators \union {NoOperator}]
         /\ operator' \in [Operators -> Session]
BY IdleIsSession DEF TypeOK, EndTransaction

LEMMA AcquireType ==
  ASSUME TypeOK, NEW o \in Operators, NEW row \in Rows, Acquire(o, row)
  PROVE  lock' \in [Rows -> Operators \union {NoOperator}]
BY DEF TypeOK, Acquire

\* The record a transaction adds is well formed, and so is the pointer it sets.
LEMMA WriteTypes ==
  ASSUME TypeOK, NEW o \in Operators, NEW r \in Nat, NEW previous \in Profiles,
         operator[o].kind \in Rows, operator[o].target \in Profiles
  PROVE  /\ Record(o, previous, r) \subseteq Activation
         /\ [profile |-> operator[o].target, revision |-> r] \in Selection
<1>1. audit \subseteq Activation
  BY DEF TypeOK
<1>2. [kind |-> operator[o].kind, previous |-> previous,
       new |-> operator[o].target, revision |-> r, actor |-> o] \in Activation
  BY DEF Activation
<1> QED BY <1>1, <1>2 DEF Record, Selection

-----------------------------------------------------------------------------
(* What a step of one session leaves to the others. *)

\* The other sessions keep their state, their rows and the values in them, and
\* no approval is withdrawn.
KeepsOthers(o) ==
  /\ approved \subseteq approved'
  /\ \A p \in Operators \ {o} :
       /\ operator'[p] = operator[p]
       /\ \A row \in Rows :
            lock[row] = p => lock'[row] = p /\ pointer'[row] = pointer[row]

\* What a session knows is about rows it holds.
LEMMA Frame ==
  ASSUME NEW o \in Operators, NEW p \in Operators \ {o},
         TypeOK, SessionInv(p), KeepsOthers(o)
  PROVE  SessionInv(p)'
<1>1. operator'[p] = operator[p] /\ approved \subseteq approved'
  BY DEF KeepsOthers
<1>2. \A row \in Rows :
        lock[row] = p => lock'[row] = p /\ pointer'[row] = pointer[row]
  BY DEF KeepsOthers
<1>3. operator[p].kind \in Rows \union {"show"}
  BY DEF TypeOK, Session
<1>4. CASE operator[p].pc = "cleared"
  BY <1>1, <1>2, <1>3, <1>4
  DEF SessionInv, HoldsBoth, Fits, HasApproval, Rows
<1>5. CASE operator[p].pc # "cleared"
  BY <1>1, <1>2, <1>3, <1>5 DEF SessionInv, HoldsBoth, Rows
<1> QED BY <1>4, <1>5

LEMMA EndKeepsOthers ==
  ASSUME TypeOK, NEW o \in Operators, EndTransaction(o),
         UNCHANGED <<pointer, approved>>
  PROVE  KeepsOthers(o)
BY DEF TypeOK, EndTransaction, KeepsOthers

LEMMA AcquireKeepsOthers ==
  ASSUME TypeOK, NEW o \in Operators, NEW row \in Rows, Acquire(o, row),
         UNCHANGED <<pointer, approved>>,
         \A p \in Operators \ {o} : operator'[p] = operator[p]
  PROVE  KeepsOthers(o)
BY ActivationAssumption DEF TypeOK, Acquire, KeepsOthers

LEMMA IdleInv ==
  ASSUME TypeOK, NEW o \in Operators, EndTransaction(o) PROVE SessionInv(o)'
<1>1. operator'[o] = IdleOperator
  BY DEF TypeOK, EndTransaction
<1> QED BY <1>1 DEF IdleOperator, SessionInv

\* Only rows that exist stay locked when a transaction ends.
LEMMA EndKeepsPointers ==
  ASSUME GateInv, NEW o \in Operators, EndTransaction(o), UNCHANGED pointer
  PROVE  PointersInv'
BY DEF GateInv, PointersInv, EndTransaction, TypeOK, Rows, BundlesOf

\* A transaction that ends without writing.
LEMMA EndStep ==
  ASSUME GateInv, NEW o \in Operators, EndTransaction(o),
         UNCHANGED <<pointer, audit, launched, approved, generation>>
  PROVE  GateInv'
<1>1. TypeOK'
  BY EndTransactionType DEF GateInv, TypeOK
<1>2. \A p \in Operators : SessionInv(p)'
  BY EndKeepsOthers, Frame, IdleInv DEF GateInv
<1>3. PointersInv'
  BY EndKeepsPointers
<1> QED BY <1>1, <1>2, <1>3 DEF GateInv, ActiveIngestionIsRead

\* A step of one session that writes no pointer and ends no transaction.
LEMMA SessionStep ==
  ASSUME GateInv, NEW o \in Operators, TypeOK', SessionInv(o)',
         KeepsOthers(o), UNCHANGED pointer,
         \/ lock' = lock
         \/ Acquire(o, "ingestion")
         \/ Acquire(o, "query")
         \/ Acquire(o, "evaluation") /\ pointer["evaluation"].revision # 0
  PROVE  GateInv'
<1>1. \A p \in Operators : SessionInv(p)'
  BY Frame DEF GateInv
<1>2. lock'["evaluation"] # lock["evaluation"] => pointer["evaluation"].revision # 0
  BY DEF Acquire, GateInv, TypeOK, Rows
<1>3. PointersInv'
  BY <1>2 DEF GateInv, PointersInv, BundlesOf
<1> QED BY <1>1, <1>3 DEF GateInv, ActiveIngestionIsRead

-----------------------------------------------------------------------------
(* The steps of a session. *)

LEMMA BeginSteps ==
  ASSUME GateInv, NEW o \in Operators,
         \/ \E kind \in Rows, t \in Profiles : Propose(o, kind, t)
         \/ Inspect(o)
  PROVE  GateInv'
<1>1. CASE \E kind \in Rows, t \in Profiles : Propose(o, kind, t)
  <2>1. PICK kind \in Rows, t \in Profiles : Propose(o, kind, t)
    BY <1>1
  <2>2. pointer[kind].revision \in Nat
    BY Typing DEF GateInv
  <2>3. [pc |-> "begun", kind |-> kind, target |-> t,
         expected |-> pointer[kind].revision,
         current |-> [profile |-> NoProfile, revision |-> 0]] \in Session
    BY <2>2 DEF Session, Selection
  <2>4. TypeOK'
    BY <2>1, <2>3 DEF Propose, GateInv, TypeOK
  <2>5. SessionInv(o)'
    BY <2>1 DEF Propose, GateInv, TypeOK, SessionInv, BundlesOf
  <2>6. KeepsOthers(o)
    BY <2>1 DEF Propose, KeepsOthers, GateInv, TypeOK
  <2> QED BY <2>1, <2>4, <2>5, <2>6, SessionStep DEF Propose
<1>2. CASE Inspect(o)
  <2> DEFINE inspection == [operator[o] EXCEPT !.pc = "begun", !.kind = "show"]
  <2>1. operator[o] \in Session
    BY Typing DEF GateInv
  <2>2. /\ inspection \in Session
        /\ operator' = [operator EXCEPT ![o] = inspection]
    BY <1>2, <2>1 DEF Inspect, GateInv, TypeOK, Session
  <2>3. inspection.pc = "begun" /\ inspection.kind = "show"
    BY <2>1 DEF Session
  <2> HIDE DEF inspection
  <2>4. TypeOK'
    BY <1>2, <2>2 DEF Inspect, GateInv, TypeOK
  <2>5. SessionInv(o)'
    BY <2>2, <2>3 DEF SessionInv, GateInv, TypeOK
  <2>6. KeepsOthers(o)
    BY <1>2 DEF Inspect, KeepsOthers, GateInv, TypeOK
  <2> QED BY <1>2, <2>4, <2>5, <2>6, SessionStep DEF Inspect
<1> QED BY <1>1, <1>2

LEMMA LockSteps ==
  ASSUME GateInv, NEW o \in Operators, LockFirst(o) \/ LockSecond(o)
  PROVE  GateInv'
<1> USE DEF FirstRow, SecondRow
<1>1. CASE LockFirst(o)
  <2>1. Acquire(o, "ingestion") /\ operator' = [operator EXCEPT ![o].pc = "first"]
    BY <1>1 DEF LockFirst
  <2>2. TypeOK'
    BY <1>1, <2>1, AcquireType DEF LockFirst, GateInv, TypeOK, Session, Rows
  <2>3. SessionInv(o)'
    BY <1>1, <2>1 DEF LockFirst, GateInv, TypeOK, SessionInv, Acquire, Rows
  <2>4. KeepsOthers(o)
    BY <1>1, <2>1, AcquireKeepsOthers DEF LockFirst, GateInv, TypeOK, Rows
  <2> QED BY <1>1, <2>1, <2>2, <2>3, <2>4, SessionStep DEF LockFirst
<1>2. CASE LockSecond(o)
  <2> DEFINE read == IF operator[o].kind = "show" THEN operator[o].current
                     ELSE pointer[operator[o].kind]
  <2>1. /\ Acquire(o, "query")
        /\ operator' = [operator EXCEPT ![o] =
             [@ EXCEPT !.pc = "locked", !.current = read]]
    BY <1>2 DEF LockSecond
  <2>2. operator[o] \in Session /\ read \in Selection
    BY Typing DEF GateInv, Session
  <2> HIDE DEF read
  <2>3. [operator[o] EXCEPT !.pc = "locked", !.current = read] \in Session
    BY <2>2 DEF Session
  <2>4. TypeOK'
    BY <1>2, <2>1, <2>3, AcquireType DEF LockSecond, GateInv, TypeOK, Rows
  <2> USE DEF read
  <2>5. SessionInv(o)'
    BY <1>2, <2>1, <2>2
    DEF LockSecond, GateInv, TypeOK, SessionInv, HoldsBoth, Acquire, Rows, Session
  <2>6. KeepsOthers(o)
    BY <1>2, <2>1, AcquireKeepsOthers DEF LockSecond, GateInv, TypeOK, Rows
  <2> QED BY <1>2, <2>1, <2>4, <2>5, <2>6, SessionStep DEF LockSecond
<1> QED BY <1>1, <1>2

\* A session that passes its checks under the locks it holds.
LEMMA ReviewStep ==
  ASSUME GateInv, NEW o \in Operators, Review(o) PROVE GateInv'
<1>1. CASE EndTransaction(o)
  BY <1>1, EndStep DEF Review
<1>2. CASE ~EndTransaction(o)
  <2>1. /\ operator[o].pc = "locked"
        /\ operator[o].kind \in {"ingestion", "query"}
        /\ HasApproval(operator[o].kind, operator[o].current.profile,
                       operator[o].target)
        /\ HasCohorts(operator[o].kind, operator[o].target)
        /\ operator' = [operator EXCEPT ![o].pc = "cleared"]
        /\ UNCHANGED <<pointer, lock, audit, launched, approved, generation>>
    BY <1>2 DEF Review
  <2>2. Fits(operator[o].kind, operator[o].target)
    BY <2>1 DEF HasCohorts, Fits
  <2>3. TypeOK'
    BY <2>1 DEF GateInv, TypeOK, Session
  <2>4. SessionInv(o)'
    BY <2>1, <2>2
    DEF GateInv, TypeOK, SessionInv, HoldsBoth, Fits, HasApproval, Session
  <2>5. KeepsOthers(o)
    BY <2>1 DEF KeepsOthers, GateInv, TypeOK
  <2> QED BY <2>1, <2>3, <2>4, <2>5, SessionStep
<1> QED BY <1>1, <1>2

LEMMA SelectionSteps ==
  ASSUME GateInv, NEW o \in Operators,
         FindSelection(o) \/ CheckSelection(o) \/ LockBaseline(o)
  PROVE  GateInv'
<1>1. CASE EndTransaction(o) /\ UNCHANGED <<pointer, audit, launched, approved, generation>>
  BY <1>1, EndStep
<1>2. CASE FindSelection(o) /\ pointer["evaluation"].revision = 0
  <2>1. /\ operator[o].kind = "evaluation"
        /\ operator' = [operator EXCEPT ![o].pc = "absent"]
        /\ UNCHANGED <<pointer, lock, audit, launched, approved, generation>>
    BY <1>2 DEF FindSelection
  <2>2. TypeOK'
    BY <2>1 DEF GateInv, TypeOK, Session
  <2>3. SessionInv(o)'
    BY <1>2, <2>1 DEF FindSelection, GateInv, TypeOK, SessionInv
  <2>4. KeepsOthers(o)
    BY <2>1 DEF KeepsOthers, GateInv, TypeOK
  <2> QED BY <2>1, <2>2, <2>3, <2>4, SessionStep
<1>3. CASE FindSelection(o) /\ pointer["evaluation"].revision # 0
  <2>1. /\ Acquire(o, "evaluation")
        /\ operator[o].pc = "begun" /\ operator[o].kind = "evaluation"
        /\ operator' = [operator EXCEPT ![o] =
             [@ EXCEPT !.pc = "found", !.current = pointer["evaluation"]]]
        /\ UNCHANGED <<pointer, audit, launched, approved, generation>>
    BY <1>3 DEF FindSelection
  <2>2. pointer["evaluation"] \in Selection /\ operator[o] \in Session
    BY Typing DEF GateInv, Rows
  <2>3. TypeOK'
    BY <2>1, <2>2, AcquireType DEF GateInv, TypeOK, Session, Rows
  <2>4. SessionInv(o)'
    BY <2>1, <2>2 DEF GateInv, TypeOK, SessionInv, Acquire, Rows, Session
  <2>5. KeepsOthers(o)
    BY <2>1, AcquireKeepsOthers DEF GateInv, TypeOK, Rows
  <2> QED BY <1>3, <2>1, <2>3, <2>4, <2>5, SessionStep
<1>4. CASE CheckSelection(o) /\ ~EndTransaction(o)
  <2>1. /\ operator[o].pc = "found"
        /\ operator' = [operator EXCEPT ![o].pc = "cleared"]
        /\ UNCHANGED <<pointer, lock, audit, launched, approved, generation>>
    BY <1>4 DEF CheckSelection
  <2>2. TypeOK'
    BY <2>1 DEF GateInv, TypeOK, Session
  <2>3. SessionInv(o)'
    BY <2>1 DEF GateInv, TypeOK, SessionInv
  <2>4. KeepsOthers(o)
    BY <2>1 DEF KeepsOthers, GateInv, TypeOK
  <2> QED BY <2>1, <2>2, <2>3, <2>4, SessionStep
<1>5. CASE LockBaseline(o) /\ ~EndTransaction(o)
  <2>1. /\ Acquire(o, "ingestion")
        /\ operator[o].pc = "absent"
        /\ operator' = [operator EXCEPT ![o] =
             [@ EXCEPT !.pc = "inserting", !.current = pointer["ingestion"]]]
        /\ UNCHANGED <<pointer, audit, launched, approved, generation>>
    BY <1>5 DEF LockBaseline
  <2>2. pointer["ingestion"] \in Selection /\ operator[o] \in Session
    BY Typing DEF GateInv, Rows
  <2>3. TypeOK'
    BY <2>1, <2>2, AcquireType DEF GateInv, TypeOK, Session, Rows
  <2>4. SessionInv(o)'
    BY <2>1, <2>2 DEF GateInv, TypeOK, SessionInv, Acquire, Rows, Session
  <2>5. KeepsOthers(o)
    BY <2>1, AcquireKeepsOthers DEF GateInv, TypeOK, Rows
  <2> QED BY <2>1, <2>3, <2>4, <2>5, SessionStep
<1> QED BY <1>1, <1>2, <1>3, <1>4, <1>5
  DEF FindSelection, CheckSelection, LockBaseline

-----------------------------------------------------------------------------
(* The steps that write. *)

LEMMA CommitFacts ==
  ASSUME GateInv, NEW o \in Operators, CommitActivation(o)
  PROVE  /\ operator[o].kind \in Rows
         /\ operator[o].target \in BundlesOf(operator[o].kind)
         /\ operator[o].target \in Profiles
         /\ operator[o].current = pointer[operator[o].kind]
         /\ operator[o].current.profile \in Profiles
         /\ lock[operator[o].kind] = o
         /\ EndTransaction(o)
         /\ pointer' = [pointer EXCEPT ![operator[o].kind] =
                          [profile |-> operator[o].target,
                           revision |-> operator[o].current.revision + 1]]
         /\ audit' = Record(o, operator[o].current.profile,
                            operator[o].current.revision + 1)
         /\ UNCHANGED <<launched, approved, generation>>
<1>1. /\ operator[o].pc = "cleared"
      /\ EndTransaction(o)
      /\ pointer' = SwitchPointer(operator[o].kind, operator[o].current,
                                  operator[o].target)
      /\ audit' = Record(o, operator[o].current.profile,
                         operator[o].current.revision + 1)
      /\ UNCHANGED <<launched, approved, generation>>
  BY DEF CommitActivation
<1>2. operator[o].kind \in Rows
  BY <1>1, Typing DEF GateInv, SessionInv, Session
<1>3. /\ operator[o].target \in BundlesOf(operator[o].kind)
      /\ operator[o].current = pointer[operator[o].kind]
      /\ lock[operator[o].kind] = o
  BY <1>1, <1>2 DEF GateInv, SessionInv, Rows
<1>4. pointer[operator[o].kind].revision # 0
  BY <1>2, <1>3, ActivationAssumption DEF GateInv, PointersInv, Rows
<1>5. operator[o].current.profile \in Profiles
  BY <1>2, <1>3, <1>4, Bundles DEF GateInv, PointersInv
<1>6. pointer' = [pointer EXCEPT ![operator[o].kind] =
                    [profile |-> operator[o].target,
                     revision |-> operator[o].current.revision + 1]]
  BY <1>1, <1>3 DEF SwitchPointer
<1> QED BY <1>1, <1>2, <1>3, <1>5, <1>6, Bundles

LEMMA CommitStep ==
  ASSUME GateInv, NEW o \in Operators, CommitActivation(o) PROVE GateInv'
<1> DEFINE kind == operator[o].kind
           target == operator[o].target
           next == operator[o].current.revision + 1
<1>1. next \in Nat /\ next # 0
  BY Typing DEF GateInv
<1> HIDE DEF next
<1>2. /\ kind \in Rows
      /\ target \in BundlesOf(kind)
      /\ target \in Profiles
      /\ lock[kind] = o
      /\ EndTransaction(o)
      /\ pointer' = [pointer EXCEPT ![kind] = [profile |-> target, revision |-> next]]
      /\ audit' = Record(o, operator[o].current.profile, next)
      /\ operator[o].current.profile \in Profiles
      /\ UNCHANGED <<launched, approved, generation>>
  BY CommitFacts DEF next
<1>3. TypeOK'
  <2>1. Record(o, operator[o].current.profile, next) \subseteq Activation
    BY <1>1, <1>2, WriteTypes DEF GateInv
  <2>2. [profile |-> target, revision |-> next] \in Selection
    BY <1>1, <1>2, WriteTypes DEF GateInv
  <2>3. pointer' \in [Rows -> Selection]
    BY <1>2, <2>2 DEF GateInv, TypeOK
  <2> QED BY <1>2, <2>1, <2>3, EndTransactionType DEF GateInv, TypeOK
<1>4. KeepsOthers(o)
  BY <1>2 DEF GateInv, TypeOK, EndTransaction, KeepsOthers
<1>5. \A p \in Operators : SessionInv(p)'
  BY <1>2, <1>4, Frame, IdleInv DEF GateInv
<1>6. PointersInv'
  BY <1>1, <1>2 DEF GateInv, PointersInv, EndTransaction, TypeOK, Rows, BundlesOf
<1>7. ActiveIngestionIsRead'
  <2>1. kind # "evaluation" => Fits(kind, target)
    BY DEF CommitActivation, GateInv, SessionInv
  <2>2. /\ pointer["ingestion"]' = IF kind = "ingestion"
             THEN [profile |-> target, revision |-> next] ELSE pointer["ingestion"]
        /\ pointer["query"]' = IF kind = "query"
             THEN [profile |-> target, revision |-> next] ELSE pointer["query"]
    BY <1>2 DEF GateInv, TypeOK, Rows
  <2> QED BY <1>2, <2>1, <2>2 DEF GateInv, ActiveIngestionIsRead, Fits, Rows
<1> QED BY <1>3, <1>5, <1>6, <1>7 DEF GateInv

LEMMA InsertFacts ==
  ASSUME GateInv, NEW o \in Operators, InsertSelection(o)
  PROVE  /\ operator[o].kind = "evaluation"
         /\ operator[o].target \in IngestionProfiles
         /\ operator[o].target \in Profiles
         /\ operator[o].current = pointer["ingestion"]
         /\ operator[o].current.profile \in Profiles
         /\ EndTransaction(o)
         /\ UNCHANGED <<launched, approved, generation>>
<1>1. /\ operator[o].kind = "evaluation"
      /\ operator[o].target \in IngestionProfiles
      /\ operator[o].current = pointer["ingestion"]
  BY DEF InsertSelection, GateInv, SessionInv, BundlesOf
<1>2. operator[o].current.profile \in Profiles
  BY <1>1, Bundles DEF GateInv, PointersInv, Rows
<1> QED BY <1>1, <1>2 DEF InsertSelection, Profiles

LEMMA InsertStep ==
  ASSUME GateInv, NEW o \in Operators, InsertSelection(o) PROVE GateInv'
<1>1. CASE UNCHANGED <<pointer, audit>>
  BY <1>1, InsertFacts, EndStep
<1>2. CASE ~UNCHANGED <<pointer, audit>>
  <2> DEFINE target == operator[o].target
  <2>1. /\ pointer["evaluation"].revision = 0
        /\ pointer' = [pointer EXCEPT !["evaluation"] =
                         [profile |-> target, revision |-> 1]]
        /\ audit' = Record(o, operator[o].current.profile, 1)
    BY <1>2 DEF InsertSelection
  <2>2. TypeOK'
    <3>1. Record(o, operator[o].current.profile, 1) \subseteq Activation
      BY InsertFacts, WriteTypes DEF GateInv, Rows
    <3>2. [profile |-> target, revision |-> 1] \in Selection
      BY InsertFacts DEF Selection
    <3>3. pointer' \in [Rows -> Selection]
      BY <2>1, <3>2 DEF GateInv, TypeOK
    <3> QED BY <2>1, <3>1, <3>3, InsertFacts, EndTransactionType DEF GateInv, TypeOK
  <2>3. lock["evaluation"] = NoOperator
    BY <2>1 DEF GateInv, PointersInv
  <2>4. KeepsOthers(o)
    BY <2>1, <2>3, InsertFacts, ActivationAssumption
    DEF GateInv, TypeOK, EndTransaction, KeepsOthers
  <2>5. \A p \in Operators : SessionInv(p)'
    BY <2>4, InsertFacts, Frame, IdleInv DEF GateInv
  <2>6. PointersInv'
    BY <2>1, InsertFacts
    DEF GateInv, PointersInv, EndTransaction, TypeOK, Rows, BundlesOf
  <2>7. ActiveIngestionIsRead'
    BY <2>1 DEF GateInv, ActiveIngestionIsRead, TypeOK, Rows
  <2> QED BY <2>2, <2>5, <2>6, <2>7 DEF GateInv
<1> QED BY <1>1, <1>2

-----------------------------------------------------------------------------
(* The steps of evaluations and uploads. *)

LEMMA EvaluationSteps ==
  ASSUME GateInv, NEW c \in Comparisons, Launch(c) \/ Approve(c) PROVE GateInv'
<1>1. TypeOK'
  BY DEF Launch, Approve, GateInv, TypeOK
<1>2. \A o \in Operators : SessionInv(o)'
  BY DEF Launch, Approve, GateInv, SessionInv, HoldsBoth, Fits, HasApproval
<1> QED BY <1>1, <1>2
  DEF Launch, Approve, GateInv, PointersInv, ActiveIngestionIsRead, BundlesOf

LEMMA UploadSteps ==
  ASSUME GateInv, NEW u \in Uploads,
         ResolveUpload(u) \/ CommitUpload(u) \/ FinishIndexing(u)
  PROVE  GateInv'
<1>1. IngestionFor(u) \in IngestionProfiles
  BY Typing DEF GateInv, PointersInv, BundlesOf, IngestionFor, Rows, TypeOK, Selection
<1>2. TypeOK'
  BY <1>1 DEF ResolveUpload, CommitUpload, FinishIndexing, GateInv, TypeOK, Generation
<1>3. UNCHANGED <<pointer, lock, operator, approved>>
  BY DEF ResolveUpload, CommitUpload, FinishIndexing
<1>4. \A o \in Operators : SessionInv(o)'
  BY <1>3 DEF GateInv, SessionInv, HoldsBoth, Fits, HasApproval
<1> QED BY <1>2, <1>3, <1>4
  DEF GateInv, PointersInv, ActiveIngestionIsRead, BundlesOf

LEMMA InitHolds == Init => GateInv
<1> SUFFICES ASSUME Init PROVE GateInv
  OBVIOUS
<1>1. PICK q \in QueryProfiles : \E i \in Reads[q] :
        pointer = [r \in Rows |->
                     CASE r = "ingestion" -> [profile |-> i, revision |-> 1]
                       [] r = "query" -> [profile |-> q, revision |-> 1]
                       [] OTHER -> [profile |-> NoProfile, revision |-> 0]]
  BY DEF Init
<1>2. PICK i \in Reads[q] :
        pointer = [r \in Rows |->
                     CASE r = "ingestion" -> [profile |-> i, revision |-> 1]
                       [] r = "query" -> [profile |-> q, revision |-> 1]
                       [] OTHER -> [profile |-> NoProfile, revision |-> 0]]
  BY <1>1
<1>3. i \in IngestionProfiles
  BY Bundles
<1>4. pointer \in [Rows -> Selection]
  BY <1>2, <1>3 DEF Selection, Profiles, Rows
<1>5. TypeOK
  BY <1>4, IdleIsSession DEF Init, TypeOK, Generation
<1>6. PointersInv /\ ActiveIngestionIsRead
  BY <1>2, <1>3, ActivationAssumption
  DEF Init, PointersInv, ActiveIngestionIsRead, BundlesOf, Rows
<1>7. \A o \in Operators : SessionInv(o)
  BY DEF Init, SessionInv, IdleOperator
<1> QED BY <1>5, <1>6, <1>7 DEF GateInv

LEMMA StepHolds == GateInv /\ [Next]_vars => GateInv'
<1> SUFFICES ASSUME GateInv, [Next]_vars PROVE GateInv'
  OBVIOUS
<1>1. ASSUME NEW o \in Operators, NEW kind \in Rows, NEW p \in Profiles,
             Propose(o, kind, p)
      PROVE  GateInv'
  BY <1>1, BeginSteps
<1>2. ASSUME NEW o \in Operators, Inspect(o) \/ Continue(o) \/ Abort(o)
      PROVE  GateInv'
  <2>1. CASE Inspect(o)
    BY <2>1, BeginSteps
  <2>2. CASE LockFirst(o) \/ LockSecond(o)
    BY <2>2, LockSteps
  <2>3. CASE Review(o)
    BY <2>3, ReviewStep
  <2>4. CASE CommitActivation(o)
    BY <2>4, CommitStep
  <2>5. CASE EndInspection(o) \/ Abort(o)
    BY <2>5, EndStep DEF EndInspection, Abort
  <2>6. CASE FindSelection(o) \/ CheckSelection(o) \/ LockBaseline(o)
    BY <2>6, SelectionSteps
  <2>7. CASE InsertSelection(o)
    BY <2>7, InsertStep
  <2> QED BY <1>2, <2>1, <2>2, <2>3, <2>4, <2>5, <2>6, <2>7 DEF Continue
<1>3. ASSUME NEW c \in Comparisons, Launch(c) \/ Approve(c) PROVE GateInv'
  BY <1>3, EvaluationSteps
<1>4. ASSUME NEW u \in Uploads,
             ResolveUpload(u) \/ CommitUpload(u) \/ FinishIndexing(u)
      PROVE  GateInv'
  BY <1>4, UploadSteps
<1>5. CASE UNCHANGED vars
  BY <1>5 DEF vars, GateInv, TypeOK, PointersInv, SessionInv, HoldsBoth, Fits,
              HasApproval, ActiveIngestionIsRead, BundlesOf
<1> QED BY <1>1, <1>2, <1>3, <1>4, <1>5 DEF Next

LEMMA GateInvariant == Spec => []GateInv
BY InitHolds, StepHolds, PTL DEF Spec

\* Rows, sessions, audit records and generations keep their shape.
THEOREM TypeCorrect == Spec => []TypeOK
BY GateInvariant, PTL DEF GateInv

\* The active query bundle always reads what new uploads are indexed with,
\* however the switches of the two pointers interleave.
THEOREM NewUploadsAreRead == Spec => []ActiveIngestionIsRead
BY GateInvariant, PTL DEF GateInv

-----------------------------------------------------------------------------
(* The audit records. *)

\* An override has an audit record only once its row exists.
AuditInv ==
  /\ AuditIsChain
  /\ \A a \in AuditOf("evaluation") : a.revision # 0

\* A record of the next revision, written together with the pointer, extends
\* the chain of that pointer and of no other.
LEMMA ChainStep ==
  ASSUME TypeOK, AuditInv, NEW row \in Rows, NEW target, NEW actor,
         NEW next \in Nat, next = pointer[row].revision + 1, NEW previous,
         AuditOf(row) = {} \/ previous = pointer[row].profile,
         row # "evaluation" => pointer[row].revision # 0,
         pointer' = [pointer EXCEPT ![row] = [profile |-> target, revision |-> next]],
         audit' = audit \union {[kind |-> row, previous |-> previous, new |-> target,
                                 revision |-> next, actor |-> actor]}
  PROVE  AuditInv'
<1> DEFINE entry == [kind |-> row, previous |-> previous, new |-> target,
                     revision |-> next, actor |-> actor]
           First(r) == IF r = "evaluation" THEN 1 ELSE 2
<1>1. /\ \A a \in audit : a.revision \in Nat
      /\ \A r \in Rows : pointer[r].revision \in Nat
  BY DEF TypeOK, Activation, Selection
<1>2. /\ \A r \in Rows \ {row} : /\ AuditOf(r)' = AuditOf(r)
                                 /\ pointer'[r] = pointer[r]
      /\ AuditOf(row)' = AuditOf(row) \union {entry}
      /\ pointer'[row] = [profile |-> target, revision |-> next]
  BY DEF AuditOf, TypeOK
<1>3. /\ entry.kind = row /\ entry.previous = previous /\ entry.new = target
      /\ entry.revision = next
  OBVIOUS
<1> HIDE DEF entry
<1>4. \A a \in AuditOf(row) :
        /\ a.revision \in Nat
        /\ a.revision <= pointer[row].revision
        /\ a.revision = pointer[row].revision => a.new = pointer[row].profile
  BY <1>1 DEF AuditInv, AuditIsChain, AuditOf
<1>5. \A a, b \in AuditOf(row) \union {entry} :
        /\ a.revision = b.revision => a = b
        /\ b.revision = a.revision + 1 => b.previous = a.new
  <2>1. \A a, b \in AuditOf(row) :
          /\ a.revision = b.revision => a = b
          /\ b.revision = a.revision + 1 => b.previous = a.new
    BY DEF AuditInv, AuditIsChain
  <2>2. \A a \in AuditOf(row) :
          /\ a.revision # next
          /\ a.revision # next + 1
          /\ next = a.revision + 1 => previous = a.new
    BY <1>1, <1>4
  <2> QED BY <1>3, <2>1, <2>2
<1>6. \A a \in AuditOf(row) \union {entry} :
        /\ a.revision <= next
        /\ a.revision = next => a.new = target
  BY <1>1, <1>3, <1>4
<1>7. \A n \in First(row)..next :
        \E a \in AuditOf(row) \union {entry} : a.revision = n
  <2> SUFFICES ASSUME NEW n \in First(row)..next
               PROVE  \E a \in AuditOf(row) \union {entry} : a.revision = n
    OBVIOUS
  <2>1. CASE n = next
    BY <1>3, <2>1
  <2>2. CASE n # next
    <3>1. n \in First(row)..pointer[row].revision
      BY <1>1, <2>2
    <3> QED BY <3>1 DEF AuditInv, AuditIsChain
  <2> QED BY <2>1, <2>2
<1>8. AuditIsChain'
  <2> SUFFICES ASSUME NEW r \in Rows
               PROVE /\ \A a, b \in AuditOf(r)' :
                          /\ a.revision = b.revision => a = b
                          /\ b.revision = a.revision + 1 => b.previous = a.new
                     /\ \A a \in AuditOf(r)' :
                          /\ a.revision <= pointer'[r].revision
                          /\ a.revision = pointer'[r].revision =>
                               a.new = pointer'[r].profile
                     /\ \A n \in First(r)..pointer'[r].revision :
                          \E a \in AuditOf(r)' : a.revision = n
    BY DEF AuditIsChain
  <2>1. CASE r = row
    BY <1>2, <1>5, <1>6, <1>7, <2>1
  <2>2. CASE r # row
    BY <1>2, <2>2 DEF AuditInv, AuditIsChain
  <2> QED BY <2>1, <2>2
<1>9. \A a \in AuditOf("evaluation")' : a.revision # 0
  <2>1. next # 0
    BY <1>1
  <2> QED BY <1>2, <1>3, <2>1 DEF AuditInv, Rows
<1> QED BY <1>8, <1>9 DEF AuditInv

LEMMA AuditUnchanged ==
  ASSUME AuditInv, UNCHANGED <<pointer, audit>> PROVE AuditInv'
BY DEF AuditInv, AuditIsChain, AuditOf

\* Only the two writing steps touch the pointers and the audit records.
LEMMA Writers ==
  ASSUME [Next]_vars
  PROVE  \/ UNCHANGED <<pointer, audit>>
         \/ \E o \in Operators : CommitActivation(o) \/ InsertSelection(o)
BY DEF Next, vars, Propose, Inspect, Continue, Abort, LockFirst, LockSecond, Review,
       EndInspection, FindSelection, CheckSelection, LockBaseline, Launch, Approve,
       ResolveUpload, CommitUpload, FinishIndexing

\* Concurrent operators neither lose a switch nor record one that did not
\* happen.
THEOREM AuditChain == Spec => []AuditIsChain
<1>1. Init => AuditInv
  BY DEF Init, AuditInv, AuditIsChain, AuditOf, Rows
<1>2. GateInv /\ AuditInv /\ [Next]_vars => AuditInv'
  <2> SUFFICES ASSUME GateInv, AuditInv, [Next]_vars PROVE AuditInv'
    OBVIOUS
  <2>1. CASE UNCHANGED <<pointer, audit>>
    BY <2>1, AuditUnchanged
  <2>2. ASSUME NEW o \in Operators, CommitActivation(o) PROVE AuditInv'
    <3> DEFINE row == operator[o].kind
               target == operator[o].target
               previous == operator[o].current.profile
               next == operator[o].current.revision + 1
    <3>1. /\ row \in Rows
          /\ next \in Nat
          /\ next = pointer[row].revision + 1
          /\ previous = pointer[row].profile
      BY <2>2, Typing, CommitFacts DEF GateInv
    <3>2. row # "evaluation" => pointer[row].revision # 0
      BY <3>1 DEF GateInv, PointersInv, Rows
    <3>3. /\ pointer' = [pointer EXCEPT ![row] = [profile |-> target, revision |-> next]]
          /\ audit' = audit \union {[kind |-> row, previous |-> previous,
                                     new |-> target, revision |-> next, actor |-> o]}
      BY <2>2, CommitFacts DEF Record
    <3> HIDE DEF row, target, previous, next
    <3> QED BY <3>1, <3>2, <3>3, ChainStep DEF GateInv
  <2>3. ASSUME NEW o \in Operators, InsertSelection(o), ~UNCHANGED <<pointer, audit>>
        PROVE  AuditInv'
    <3> DEFINE target == operator[o].target
               previous == operator[o].current.profile
    <3>1. /\ pointer["evaluation"].revision = 0
          /\ pointer' = [pointer EXCEPT !["evaluation"] =
                           [profile |-> target, revision |-> 1]]
          /\ audit' = Record(o, previous, 1)
      BY <2>3 DEF InsertSelection
    <3>2. AuditOf("evaluation") = {}
      BY <3>1 DEF AuditInv, AuditIsChain, GateInv, TypeOK, Activation, AuditOf, Rows
    <3>3. audit' = audit \union {[kind |-> "evaluation", previous |-> previous,
                                  new |-> target, revision |-> 1, actor |-> o]}
      BY <2>3, <3>1, InsertFacts DEF Record
    <3>4. "evaluation" \in Rows /\ 1 \in Nat /\ 1 = pointer["evaluation"].revision + 1
      BY <3>1 DEF Rows
    <3> HIDE DEF target, previous
    <3> QED BY <3>1, <3>2, <3>3, <3>4, ChainStep DEF GateInv
  <2> QED BY <2>1, <2>2, <2>3, Writers
<1> QED BY <1>1, <1>2, GateInvariant, PTL DEF Spec, AuditInv

-----------------------------------------------------------------------------
(* Uploads and the published policy. *)

\* A bundle that a platform pointer gives up stays on record.
LEMMA EverActiveGrows ==
  ASSUME GateInv, [Next]_vars
  PROVE  EverActive("ingestion") \subseteq EverActive("ingestion")'
<1>1. CASE UNCHANGED <<pointer, audit>>
  BY <1>1 DEF EverActive, AuditOf
<1>2. ASSUME NEW o \in Operators, CommitActivation(o)
      PROVE  EverActive("ingestion") \subseteq EverActive("ingestion")'
  <2>1. audit \subseteq audit'
    BY <1>2, CommitFacts DEF Record
  <2>2. CASE operator[o].kind = "ingestion"
    <3> DEFINE next == operator[o].current.revision + 1
               entry == [kind |-> operator[o].kind,
                         previous |-> operator[o].current.profile,
                         new |-> operator[o].target, revision |-> next, actor |-> o]
    <3> HIDE DEF next
    <3>1. entry \in audit'
      BY <1>2, CommitFacts DEF Record, next
    <3>2. entry.kind = "ingestion" /\ entry.previous = pointer["ingestion"].profile
      BY <1>2, <2>2, CommitFacts
    <3> QED BY <2>1, <3>1, <3>2 DEF EverActive, AuditOf
  <2>3. CASE operator[o].kind # "ingestion"
    <3> DEFINE selection == [profile |-> operator[o].target,
                             revision |-> operator[o].current.revision + 1]
    <3>1. pointer' = [pointer EXCEPT ![operator[o].kind] = selection]
      BY <1>2, CommitFacts
    <3> HIDE DEF selection
    <3>2. pointer'["ingestion"] = pointer["ingestion"]
      BY <2>3, <3>1 DEF GateInv, TypeOK, Rows
    <3> QED BY <2>1, <3>2 DEF EverActive, AuditOf
  <2> QED BY <2>2, <2>3
<1>3. ASSUME NEW o \in Operators, InsertSelection(o)
      PROVE  EverActive("ingestion") \subseteq EverActive("ingestion")'
  <2>1. audit \subseteq audit' /\ pointer'["ingestion"] = pointer["ingestion"]
    BY <1>3 DEF InsertSelection, Record, GateInv, TypeOK, Rows
  <2> QED BY <2>1 DEF EverActive, AuditOf
<1> QED BY <1>1, <1>2, <1>3, Writers

\* The selection for the evaluation tenant reaches no other tenant's uploads.
THEOREM OverrideStaysIsolated == Spec => []OverrideIsIsolated
<1>1. Init => OverrideIsIsolated
  BY DEF Init, OverrideIsIsolated
<1>2. GateInv /\ OverrideIsIsolated /\ [Next]_vars => OverrideIsIsolated'
  <2> SUFFICES ASSUME GateInv, OverrideIsIsolated, [Next]_vars,
                      NEW u \in Uploads \ EvaluationUploads,
                      generation'[u].status # "absent"
               PROVE  generation'[u].profile \in EverActive("ingestion")'
    BY DEF OverrideIsIsolated
  <2>1. CASE generation'[u].profile = generation[u].profile
             /\ generation[u].status # "absent"
    BY <2>1, EverActiveGrows DEF OverrideIsIsolated
  <2>2. CASE ResolveUpload(u)
    BY <2>2 DEF ResolveUpload, IngestionFor, EverActive, AuditOf, GateInv, TypeOK,
                Generation
  <2>3. CASE \E v \in Uploads :
               ResolveUpload(v) \/ CommitUpload(v) \/ FinishIndexing(v)
    <3>1. PICK v \in Uploads : ResolveUpload(v) \/ CommitUpload(v) \/ FinishIndexing(v)
      BY <2>3
    <3>2. CASE u = v
      <4>1. CASE ResolveUpload(v)
        BY <2>2, <3>2, <4>1
      <4>2. CASE CommitUpload(v) \/ FinishIndexing(v)
        BY <2>1, <3>2, <4>2 DEF CommitUpload, FinishIndexing, GateInv, TypeOK, Generation
      <4> QED BY <3>1, <4>1, <4>2
    <3>3. CASE u # v
      BY <2>1, <3>1, <3>3 DEF ResolveUpload, CommitUpload, FinishIndexing, GateInv, TypeOK
    <3> QED BY <3>2, <3>3
  <2>4. CASE UNCHANGED generation
    BY <2>1, <2>4
  <2>5. \/ UNCHANGED generation
        \/ \E v \in Uploads : ResolveUpload(v) \/ CommitUpload(v) \/ FinishIndexing(v)
    BY DEF Next, vars, Propose, Inspect, Continue, Abort, LockFirst, LockSecond,
           Review, CommitActivation, EndInspection, FindSelection, CheckSelection,
           LockBaseline, InsertSelection, Launch, Approve
  <2> QED BY <2>3, <2>4, <2>5
<1> QED BY <1>1, <1>2, GateInvariant, PTL DEF Spec

\* A committed activation is one switch of the published policy, with its
\* approval and its cohorts still in place.
LEMMA CommitIsSwitch ==
  ASSUME GateInv, NEW o \in Operators, CommitActivation(o)
  PROVE  Policy!Next \/ UNCHANGED Policy!vars
<1> DEFINE kind == operator[o].kind
           target == operator[o].target
           next == operator[o].current.revision + 1
<1>1. /\ pointer' = [pointer EXCEPT ![kind] = [profile |-> target, revision |-> next]]
      /\ operator[o].current = pointer[kind]
      /\ target \in BundlesOf(kind)
      /\ kind \in Rows
      /\ approved' = approved
  BY CommitFacts
<1>2. kind # "evaluation" =>
        HasApproval(kind, operator[o].current.profile, target) /\ Fits(kind, target)
  BY DEF CommitActivation, GateInv, SessionInv
<1> HIDE DEF next, kind, target
<1>3. /\ pointer["ingestion"]' = IF kind = "ingestion"
           THEN [profile |-> target, revision |-> next] ELSE pointer["ingestion"]
      /\ pointer["query"]' = IF kind = "query"
           THEN [profile |-> target, revision |-> next] ELSE pointer["query"]
  BY <1>1 DEF GateInv, TypeOK, Rows
<1>4. CASE kind = "ingestion"
  <2>1. Policy!SwitchIngestion(target)
    BY <1>1, <1>2, <1>3, <1>4 DEF Policy!SwitchIngestion, HasApproval, Fits,
       IngestionComparison, Policy!IngestionComparison
  <2> QED BY <1>1, <1>4, <2>1 DEF Policy!Next, BundlesOf
<1>5. CASE kind = "query"
  <2>1. Policy!SwitchQuery(target)
    BY <1>1, <1>2, <1>3, <1>5 DEF Policy!SwitchQuery, HasApproval, Fits,
       QueryComparison, Policy!QueryComparison
  <2> QED BY <1>1, <1>5, <2>1 DEF Policy!Next, BundlesOf
<1>6. CASE kind = "evaluation"
  BY <1>1, <1>3, <1>6 DEF Policy!vars
<1> QED BY <1>1, <1>4, <1>5, <1>6 DEF Rows

\* The activations implement the published policy: a pointer is replaced in one
\* step, by a candidate approved against the policies of that very moment.
THEOREM PolicyImplementation == Spec => PolicySpec
<1>1. Init => Policy!Init
  <2> SUFFICES ASSUME Init PROVE Policy!Init
    OBVIOUS
  <2>1. GateInv /\ approved = {}
    BY InitHolds DEF Init
  <2> QED BY <2>1 DEF Policy!Init, GateInv, PointersInv, ActiveIngestionIsRead,
                      BundlesOf, Rows
<1>2. GateInv /\ [Next]_vars => [Policy!Next]_(Policy!vars)
  <2> SUFFICES ASSUME GateInv, [Next]_vars
               PROVE  Policy!Next \/ UNCHANGED Policy!vars
    OBVIOUS
  <2>1. ASSUME NEW o \in Operators, CommitActivation(o)
        PROVE  Policy!Next \/ UNCHANGED Policy!vars
    BY <2>1, CommitIsSwitch
  <2>2. ASSUME NEW o \in Operators, InsertSelection(o) PROVE UNCHANGED Policy!vars
    BY <2>2 DEF InsertSelection, Policy!vars, GateInv, TypeOK, Rows
  <2>3. ASSUME NEW c \in Comparisons, Approve(c) PROVE Policy!Next
    BY <2>3 DEF Approve, Policy!Approve, Policy!Next, Policy!Comparisons, Comparisons,
       QueryComparison, Policy!QueryComparison, IngestionComparison,
       Policy!IngestionComparison
  <2>4. \/ \E o \in Operators : CommitActivation(o) \/ InsertSelection(o)
        \/ \E c \in Comparisons : Approve(c)
        \/ UNCHANGED <<pointer, approved>>
    BY DEF Next, vars, Propose, Inspect, Continue, Abort, LockFirst, LockSecond,
           Review, EndInspection, FindSelection, CheckSelection, LockBaseline,
           Launch, ResolveUpload, CommitUpload, FinishIndexing
  <2> QED BY <2>1, <2>2, <2>3, <2>4 DEF Policy!vars
<1> QED BY <1>1, <1>2, GateInvariant, PTL DEF Spec, PolicySpec, Policy!Spec

-----------------------------------------------------------------------------
(* Waiting for rows. *)

\* How far a session that holds a row has come.
HeldAt(row) ==
  CASE row = "ingestion" -> {"first", "locked", "cleared", "inserting"}
    [] row = "query" -> {"locked", "cleared"}
    [] OTHER -> {"found", "cleared"}

HolderInv ==
  \A o \in Operators, row \in Rows : lock[row] = o => operator[o].pc \in HeldAt(row)

\* A session that goes on keeps to HeldAt, if what it holds allows its next
\* place and the row it takes does.
LEMMA HolderStep ==
  ASSUME TypeOK, HolderInv, NEW o \in Operators, NEW taken \in SUBSET Rows,
         \A p \in Operators \ {o} : operator'[p] = operator[p],
         \A row \in Rows : lock'[row] = IF row \in taken THEN o ELSE lock[row],
         \A row \in Rows : lock[row] = o \/ row \in taken =>
           operator'[o].pc \in HeldAt(row)
  PROVE  HolderInv'
BY DEF HolderInv, HeldAt

LEMMA HolderEnd ==
  ASSUME TypeOK, HolderInv, NEW o \in Operators, EndTransaction(o)
  PROVE  HolderInv'
BY ActivationAssumption DEF TypeOK, HolderInv, HeldAt, EndTransaction

LEMMA HolderContinues ==
  ASSUME TypeOK, HolderInv, NEW o \in Operators, Continue(o), ~EndTransaction(o)
  PROVE  HolderInv'
<1> DEFINE Moves(taken, pc) ==
      /\ \A p \in Operators \ {o} : operator'[p] = operator[p]
      /\ operator'[o].pc = pc
      /\ \A row \in Rows : lock'[row] = IF row \in taken THEN o ELSE lock[row]
<1>1. CASE LockFirst(o)
  <2>1. operator[o].pc = "begun" /\ Moves({"ingestion"}, "first")
    BY <1>1 DEF LockFirst, FirstRow, Acquire, TypeOK, Rows
  <2> QED BY <2>1, HolderStep DEF HolderInv, HeldAt, Rows
<1>2. CASE LockSecond(o)
  <2> DEFINE read == IF operator[o].kind = "show" THEN operator[o].current
                     ELSE pointer[operator[o].kind]
  <2>1. /\ operator[o].pc = "first"
        /\ operator' = [operator EXCEPT ![o] =
             [@ EXCEPT !.pc = "locked", !.current = read]]
        /\ Acquire(o, "query")
    BY <1>2 DEF LockSecond, FirstRow, SecondRow
  <2>2. operator[o] \in Session
    BY Typing
  <2> HIDE DEF read
  <2>3. Moves({"query"}, "locked")
    BY <2>1, <2>2 DEF Acquire, TypeOK, Rows, Session
  <2> QED BY <2>1, <2>3, HolderStep DEF HolderInv, HeldAt, Rows
<1>3. CASE Review(o)
  <2>1. operator[o].pc = "locked" /\ Moves({}, "cleared")
    BY <1>3 DEF Review, TypeOK, Session
  <2> QED BY <2>1, HolderStep DEF HolderInv, HeldAt, Rows
<1>4. CASE FindSelection(o)
  <2>1. CASE pointer["evaluation"].revision = 0
    <3>1. operator[o].pc = "begun" /\ Moves({}, "absent")
      BY <1>4, <2>1 DEF FindSelection, TypeOK, Session
    <3> QED BY <3>1, HolderStep DEF HolderInv, HeldAt, Rows
  <2>2. CASE pointer["evaluation"].revision # 0
    <3>1. /\ operator[o].pc = "begun"
          /\ operator' = [operator EXCEPT ![o] =
               [@ EXCEPT !.pc = "found", !.current = pointer["evaluation"]]]
          /\ Acquire(o, "evaluation")
      BY <1>4, <2>2 DEF FindSelection
    <3>2. operator[o] \in Session
      BY Typing
    <3>3. Moves({"evaluation"}, "found")
      BY <3>1, <3>2 DEF Acquire, TypeOK, Rows, Session
    <3> QED BY <3>1, <3>3, HolderStep DEF HolderInv, HeldAt, Rows
  <2> QED BY <2>1, <2>2
<1>5. CASE CheckSelection(o)
  <2>1. operator[o].pc = "found" /\ Moves({}, "cleared")
    BY <1>5 DEF CheckSelection, TypeOK, Session
  <2> QED BY <2>1, HolderStep DEF HolderInv, HeldAt, Rows
<1>6. CASE LockBaseline(o)
  <2>1. /\ operator[o].pc = "absent"
        /\ operator' = [operator EXCEPT ![o] =
             [@ EXCEPT !.pc = "inserting", !.current = pointer["ingestion"]]]
        /\ Acquire(o, "ingestion")
    BY <1>6 DEF LockBaseline
  <2>2. operator[o] \in Session
    BY Typing
  <2>3. Moves({"ingestion"}, "inserting")
    BY <2>1, <2>2 DEF Acquire, TypeOK, Rows, Session
  <2> QED BY <2>1, <2>3, HolderStep DEF HolderInv, HeldAt, Rows
<1> QED BY <1>1, <1>2, <1>3, <1>4, <1>5, <1>6
  DEF Continue, CommitActivation, EndInspection, InsertSelection

\* Who holds the query row or the override's waits for nobody, who holds the
\* ingestion row waits for the query row at most: there is no circle.
LEMMA HoldersDoNotWait ==
  ASSUME HolderInv, NEW o \in Operators
  PROVE  /\ lock["query"] = o \/ lock["evaluation"] = o => Wanted(o) = {}
         /\ lock["ingestion"] = o => Wanted(o) \subseteq {"query"}
         /\ Wanted(o) \subseteq Rows
BY DEF HolderInv, HeldAt, Wanted, FirstRow, SecondRow, Rows

\* However many operators there are, their row locks never deadlock.
THEOREM NoDeadlock == Spec => []NoCircularWait
<1>1. Init => HolderInv
  BY ActivationAssumption DEF Init, HolderInv
<1>2. GateInv /\ HolderInv /\ [Next]_vars => HolderInv'
  <2> SUFFICES ASSUME TypeOK, HolderInv, [Next]_vars PROVE HolderInv'
    BY DEF GateInv
  <2>1. CASE UNCHANGED <<lock, operator>>
    BY <2>1 DEF HolderInv
  <2>2. ASSUME NEW o \in Operators, EndTransaction(o) PROVE HolderInv'
    BY <2>2, HolderEnd
  <2>3. ASSUME NEW o \in Operators, Continue(o) PROVE HolderInv'
    BY <2>2, <2>3, HolderContinues
  <2>4. ASSUME NEW o \in Operators, operator[o].pc = "idle", lock' = lock,
               \A p \in Operators \ {o} : operator'[p] = operator[p]
        PROVE  HolderInv'
    BY <2>4 DEF HolderInv, HeldAt
  <2>5. \/ UNCHANGED <<lock, operator>>
        \/ \E o \in Operators : EndTransaction(o) \/ Continue(o)
        \/ \E o \in Operators : Inspect(o)
        \/ \E o \in Operators, kind \in Rows, p \in Profiles : Propose(o, kind, p)
    BY DEF Next, vars, Abort, Launch, Approve, ResolveUpload, CommitUpload,
           FinishIndexing
  <2>6. ASSUME NEW o \in Operators, Inspect(o) PROVE HolderInv'
    BY <2>4, <2>6 DEF Inspect, TypeOK
  <2>7. ASSUME NEW o \in Operators, NEW kind \in Rows, NEW p \in Profiles,
               Propose(o, kind, p)
        PROVE  HolderInv'
    BY <2>4, <2>7 DEF Propose, TypeOK
  <2> QED BY <2>1, <2>2, <2>3, <2>5, <2>6, <2>7
<1>3. HolderInv => NoCircularWait
  <2> SUFFICES ASSUME HolderInv, NEW S \in (SUBSET Operators) \ {{}}
               PROVE  \E o \in S : \A row \in Wanted(o) : lock[row] \notin S
    BY DEF NoCircularWait
  <2>1. CASE lock["query"] \in S
    BY <2>1, HoldersDoNotWait
  <2>2. CASE lock["evaluation"] \in S
    BY <2>2, HoldersDoNotWait
  <2>3. CASE lock["query"] \notin S /\ lock["evaluation"] \notin S
    <3>1. CASE lock["ingestion"] \in S
      BY <2>3, <3>1, HoldersDoNotWait
    <3>2. CASE lock["ingestion"] \notin S
      <4>1. PICK o \in S : TRUE
        OBVIOUS
      <4> QED BY <2>3, <3>2, <4>1, HoldersDoNotWait DEF Rows
    <3> QED BY <3>1, <3>2
  <2> QED BY <2>1, <2>2, <2>3
<1> QED BY <1>1, <1>2, <1>3, GateInvariant, PTL DEF Spec

=============================================================================
