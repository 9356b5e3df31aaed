---------------------------- MODULE SuiteRevisions ----------------------------
(***************************************************************************)
(* Evaluation suites.  A suite is a name in a tenant; saving it, new or    *)
(* edited, adds a numbered revision that is never changed.  An edit names  *)
(* the revision it started from, which must still be the latest when the   *)
(* request looks; the number is read and the row inserted in a later       *)
(* transaction.                                                            *)
(***************************************************************************)
EXTENDS PanelRequests, Sequences, FiniteSets

CONSTANTS
  Suites,    \* suites: a name and a tenant each
  Versions,  \* document versions a suite may name as its corpus
  Cases      \* the labelled questions operators write, one per suite

\* A case says whether the corpus answers it, names the versions with relevant
\* passages, and whether these are all.
ASSUME CasesAssumption ==
  Cases \subseteq [answerable : BOOLEAN, relevant : SUBSET Versions, complete : BOOLEAN]

VARIABLE revision  \* evaluation_suite_revisions in the order of creation

Revision ==
  [suite  : Suites,
   number : Nat,
   base   : Nat,               \* the revision it is an edit of, or 0
   corpus : SUBSET Versions,
   case   : Cases]

SuitesTypeOK == revision \in Seq(Revision)

SuitesInit == revision = <<>>

NumbersOf(suite) ==
  {revision[r].number : r \in {x \in DOMAIN revision : revision[x].suite = suite}}

LatestNumber(suite) ==
  IF NumbersOf(suite) = {} THEN 0
  ELSE CHOOSE n \in NumbersOf(suite) : \A k \in NumbersOf(suite) : k <= n

WellLabelled(case, corpus) ==
  /\ case.relevant \subseteq corpus
  /\ ~case.answerable => case.relevant = {}
  /\ case.answerable /\ case.complete => case.relevant # {}

Save(o, suite, base, corpus, case) ==
  /\ corpus # {}
  /\ WellLabelled(case, corpus)
  /\ Submit(o, [pc |-> "number", suite |-> suite, base |-> base,
                corpus |-> corpus, case |-> case])
  /\ UNCHANGED revision

\* A suite is submitted, under a name that may already have revisions.
SubmitSuite(o, suite, corpus, case) == Save(o, suite, 0, corpus, case)

\* An edit of some revision is submitted; a later revision refuses it.
SubmitEdit(o, base, corpus, case) ==
  /\ revision[base].number = LatestNumber(revision[base].suite)
  /\ Save(o, revision[base].suite, base, corpus, case)

\* The transaction that saves the suite reads the latest number.
ReadNumber(o) ==
  LET s == session[o] IN
  /\ s.pc = "number"
  /\ Proceed(o, [pc |-> "insert", suite |-> s.suite, base |-> s.base,
                 corpus |-> s.corpus, case |-> s.case,
                 number |-> LatestNumber(s.suite) + 1])
  /\ UNCHANGED revision

\* Any number is taken.
FreeMistake(suite, number) == TRUE

\* The unique constraint on tenant, name and number.
Free(suite, number) == number \notin NumbersOf(suite)

\* Saves the revision, unless another request has committed its number.
InsertRevision(o) ==
  LET s == session[o] IN
  /\ s.pc = "insert"
  /\ Free(s.suite, s.number)
  /\ revision' = Append(revision, [suite |-> s.suite, number |-> s.number,
                                   base |-> s.base, corpus |-> s.corpus,
                                   case |-> s.case])
  /\ Respond(o)

SaveSuite(o) ==
  \/ /\ MaySubmit(o)
     /\ \E corpus \in SUBSET Versions, case \in Cases :
          \/ \E s \in Suites : SubmitSuite(o, s, corpus, case)
          \/ \E b \in DOMAIN revision : SubmitEdit(o, b, corpus, case)
  \/ ReadNumber(o)
  \/ InsertRevision(o)

-----------------------------------------------------------------------------
\* The revisions of every suite are numbered in the order they were saved,
\* from 1 and without gaps, and an edit is numbered after the revision it
\* started from, although the number is read without a lock.
RevisionsNumbered ==
  \A r \in DOMAIN revision :
    /\ revision[r].number =
         Cardinality({x \in 1..r : revision[x].suite = revision[r].suite})
    /\ revision[r].base # 0 =>
         /\ revision[revision[r].base].suite = revision[r].suite
         /\ revision[revision[r].base].number < revision[r].number

=============================================================================
