------------------------ MODULE EvaluationPreparation ------------------------
(***************************************************************************)
(* From staged policies to a measured comparison, in the evaluation        *)
(* tenant.  Operators stage policies, upload documents and copies of them  *)
(* under a candidate ingestion policy, save suites, switch the platform's  *)
(* active policies and launch runs, all at the same time.  A worker        *)
(* validates the corpus of a run once and then measures both sides.        *)
(*                                                                         *)
(* Left out here: the gate and the locks of a switch (ProfileActivation),  *)
(* claims, heartbeats and reviews of runs (EvaluationRuns), the ingestion  *)
(* of an upload (IngestionPipeline), suites of other tenants.  An upload   *)
(* may be indexed under any bundle, since the tenant's selection may be    *)
(* changed to any.                                                         *)
(***************************************************************************)
EXTENDS ProfileStaging, SuiteRevisions, Functions

CONSTANT Texts  \* contents of documents

VARIABLES
  active,   \* the platform's active bundle of each kind
  version,  \* document versions, each of a document of its own
  run       \* evaluation_runs in the order of creation

vars == <<panelVars, stagingVars, revision, active, version, run>>

-----------------------------------------------------------------------------
Modes == {"query", "ingestion"}

Unknown == [status |-> "unknown"]

Version ==
  {Unknown} \union
  [status : {"current", "replaced"}, text : Texts, ingestion : DOMAIN ingestion]

\* A run names bundles by position and records what they said at its launch;
\* source maps the versions of its candidate corpus to the versions of the
\* suite.  Measured are the versions a side found to search, missed those it
\* did not because another version was activated in their place.
Run ==
  [suite : DOMAIN revision, mode : Modes,
   baseline : DOMAIN query, candidate : DOMAIN query,
   baselineIngestion : DOMAIN ingestion \union {0},
   candidateIngestion : DOMAIN ingestion \union {0},
   source : UNION {[c -> Versions] : c \in SUBSET Versions},
   fingerprints : [baseline : SUBSET Snapshot, candidate : SUBSET Snapshot,
                   baselineIngestion : SUBSET Snapshot,
                   candidateIngestion : SUBSET Snapshot],
   status : {"pending", "validated", "baseline", "completed", "failed"},
   measured : SUBSET Versions, missed : SUBSET Versions]

TypeOK ==
  /\ StagingTypeOK
  /\ SuitesTypeOK
  /\ active \in [ingestion : DOMAIN ingestion, query : DOMAIN query]
  /\ version \in [Versions -> Version]
  /\ run \in Seq(Run)
  /\ requests \in 0..MaxRequests

\* What the migrations leave active.
Init ==
  /\ NoRequests
  /\ StagingInit
  /\ SuitesInit
  /\ active = [ingestion |-> 1, query |-> 2]
  /\ version = [v \in Versions |-> Unknown]
  /\ run = <<>>

-----------------------------------------------------------------------------
(* Documents of the evaluation tenant and the active policies. *)

\* Every capability of the bundle is validated and supported.
SupportedIngestion(i) ==
  \A c \in IngestionCapabilities : ingestion[i][c] \in Validated(c)

\* What the evaluation tenant may select for its next upload.
IngestionSelections == {i \in DOMAIN ingestion : SupportedIngestion(i)}

Upload(o, v, text, i) ==
  /\ version[v] = Unknown
  /\ i \in IngestionSelections
  /\ version' = [version EXCEPT ![v] = [status |-> "current", text |-> text,
                                        ingestion |-> i]]
  /\ Handle(o)
  /\ UNCHANGED <<stagingVars, revision, active, run>>

\* Another version of the document is activated.
Replace(o, v) ==
  /\ version[v].status = "current"
  /\ version' = [version EXCEPT ![v].status = "replaced"]
  /\ Handle(o)
  /\ UNCHANGED <<stagingVars, revision, active, run>>

\* ... and this one again.
Restore(o, v) ==
  /\ version[v].status = "replaced"
  /\ version' = [version EXCEPT ![v].status = "current"]
  /\ Handle(o)
  /\ UNCHANGED <<stagingVars, revision, active, run>>

Supported(q) ==
  /\ query[q].lexical \subseteq Validated("lexical")
  /\ query[q].embedding \subseteq Validated("embedding")
  /\ query[q].reranking \in Validated("reranking")
  /\ query[q].generation \in Validated("generation")
  /\ snapshot[query[q].retrieval].capability = "retrieval"

SwitchIngestion(o, i) ==
  /\ i # active.ingestion
  /\ SupportedIngestion(i)
  /\ Supported(active.query)
  /\ ReadsCohort(active.query, i)
  /\ active' = [active EXCEPT !.ingestion = i]
  /\ Handle(o)
  /\ UNCHANGED <<stagingVars, revision, version, run>>

\* The bundles of ready index generations, and the active one.
Referenced ==
  {active.ingestion} \union
  {version[v].ingestion : v \in {w \in Versions : version[w] # Unknown}}

SwitchQuery(o, q) ==
  /\ q # active.query
  /\ Supported(q)
  /\ \A i \in Referenced : SupportedIngestion(i) /\ ReadsCohort(q, i)
  /\ active' = [active EXCEPT !.query = q]
  /\ Handle(o)
  /\ UNCHANGED <<stagingVars, revision, version, run>>

-----------------------------------------------------------------------------
(* Launching a run: the suite and the lists of bundles are read, then each *)
(* of the two active policies; only then is the manifest checked.          *)

Identity(corpus) == [v \in corpus |-> v]

\* Offers every bundle.
LaunchQueryMistake(o, s, q) ==
  /\ Submit(o, [pc |-> "ingestion", mode |-> "query", suite |-> s, query |-> q,
                ingestion |-> 0, source |-> Identity(revision[s].corpus),
                copies |-> Cardinality(revision[s].corpus)])
  /\ UNCHANGED <<stagingVars, revision, active, version, run>>

LaunchQuery(o, s, q) ==
  /\ q \in Selectable
  /\ Submit(o, [pc |-> "ingestion", mode |-> "query", suite |-> s, query |-> q,
                ingestion |-> 0, source |-> Identity(revision[s].corpus),
                copies |-> Cardinality(revision[s].corpus)])
  /\ UNCHANGED <<stagingVars, revision, active, version, run>>

\* The form maps versions, those of the suite or not, to their copies, and the
\* panel inverts the map: of two versions with one copy only one remains.
LaunchIngestion(o, s, q, i, copy) ==
  /\ q \in Selectable
  /\ \E source \in [Range(copy) -> DOMAIN copy] :
       /\ \A c \in Range(copy) : copy[source[c]] = c
       /\ Submit(o, [pc |-> "ingestion", mode |-> "ingestion", suite |-> s,
                     query |-> q, ingestion |-> i, source |-> source,
                     copies |-> Cardinality(DOMAIN copy)])
  /\ UNCHANGED <<stagingVars, revision, active, version, run>>

ReadActiveIngestion(o) ==
  LET s == session[o] IN
  /\ s.pc = "ingestion"
  /\ Proceed(o, [pc |-> "launch", mode |-> s.mode, suite |-> s.suite,
                 query |-> s.query, ingestion |-> s.ingestion, source |-> s.source,
                 copies |-> s.copies,
                 baselineIngestion |-> IF s.mode = "query" THEN 0
                                       ELSE active.ingestion])
  /\ UNCHANGED <<stagingVars, revision, active, version, run>>

\* Compares the corpora as sets, whatever versions they share.
CorporaPairedMistake(corpus, source, copies) == Range(source) = corpus

\* One copy of each version of the suite, none of them in the suite.  The map
\* must have as many entries as the suite has versions.
CorporaPaired(corpus, source, copies) ==
  /\ Range(source) = corpus
  /\ copies = Cardinality(corpus)
  /\ DOMAIN source \intersect corpus = {}

ReadsBoth(q, baseline, candidate) ==
  /\ ReadsCohort(q, baseline)
  /\ ReadsCohort(q, candidate)

\* What the configurations of a bundle say, its fingerprint.
QueryFingerprint(q) ==
  {snapshot[profile[p].snapshot] :
     p \in query[q].lexical \union query[q].embedding
          \union {query[q].reranking, query[q].generation}}
  \union {snapshot[query[q].retrieval]}

IngestionFingerprint(i) ==
  IF i = 0 THEN {}
  ELSE {snapshot[profile[ingestion[i][c]].snapshot] : c \in IngestionCapabilities}

Fingerprints(baseline, candidate, i, j) ==
  [baseline |-> QueryFingerprint(baseline), candidate |-> QueryFingerprint(candidate),
   baselineIngestion |-> IngestionFingerprint(i),
   candidateIngestion |-> IngestionFingerprint(j)]

\* Reads the active query policy, checks the manifest and inserts the run.
InsertRun(o) ==
  LET s == session[o] IN
  /\ s.pc = "launch"
  /\ s.mode = "query" => s.query # active.query
  /\ s.mode = "ingestion" =>
       /\ s.query = active.query
       /\ s.ingestion # s.baselineIngestion
       /\ CorporaPaired(revision[s.suite].corpus, s.source, s.copies)
       /\ ReadsBoth(s.query, s.baselineIngestion, s.ingestion)
  /\ run' = Append(run, [suite |-> s.suite, mode |-> s.mode,
                         baseline |-> active.query, candidate |-> s.query,
                         baselineIngestion |-> s.baselineIngestion,
                         candidateIngestion |-> s.ingestion,
                         source |-> s.source,
                         fingerprints |-> Fingerprints(active.query, s.query,
                                            s.baselineIngestion, s.ingestion),
                         status |-> "pending",
                         measured |-> {}, missed |-> {}])
  /\ Respond(o)
  /\ UNCHANGED <<stagingVars, revision, active, version>>

\* The request is refused by a check or by the database, or the panel dies.
Refuse(o) ==
  /\ RollBack(o)
  /\ UNCHANGED <<revision, active, version, run>>

-----------------------------------------------------------------------------
(* The evaluation worker. *)

Originals(r) == revision[run[r].suite].corpus

\* Ready, activated, and indexed under the bundle the run declares.
Indexed(v, i) ==
  /\ version[v].status = "current"
  /\ i # 0 => version[v].ingestion = i

\* Trusts the operator's map.
SameTextMistake(v, w) == TRUE

SameText(v, w) == version[v].text = version[w].text

CorpusIsValid(r) ==
  /\ \A v \in Originals(r) : Indexed(v, run[r].baselineIngestion)
  /\ \A v \in DOMAIN run[r].source :
       /\ Indexed(v, run[r].candidateIngestion)
       /\ SameText(v, run[r].source[v])

\* Only a resolvable bundle has a configuration to search with.
Searchable(q, v) ==
  /\ version[v].status = "current"
  /\ ReadsCohort(q, version[v].ingestion)

Measure(r, corpus, q, status) ==
  /\ QueryResolves(q)
  /\ run' = [run EXCEPT
       ![r].status = status,
       ![r].measured = @ \union {v \in corpus : Searchable(q, v)},
       ![r].missed = @ \union {v \in corpus : version[v].status = "replaced"}]

ValidateCorpus(r) ==
  /\ run[r].status = "pending"
  /\ CorpusIsValid(r)
  /\ run' = [run EXCEPT ![r].status = "validated"]

MeasureBaseline(r) ==
  /\ run[r].status = "validated"
  /\ Measure(r, Originals(r), run[r].baseline, "baseline")

MeasureCandidate(r) ==
  /\ run[r].status = "baseline"
  /\ Measure(r, DOMAIN run[r].source, run[r].candidate, "completed")

\* Any error on the way fails the run.
FailRun(r) ==
  /\ run[r].status \in {"pending", "validated", "baseline"}
  /\ run' = [run EXCEPT ![r].status = "failed"]

Evaluate(r) ==
  /\ \/ ValidateCorpus(r)
     \/ MeasureBaseline(r)
     \/ MeasureCandidate(r)
     \/ FailRun(r)
  /\ UNCHANGED <<panelVars, stagingVars, revision, active, version>>

-----------------------------------------------------------------------------
SubmitLaunch(o, s, q) ==
  \/ LaunchQuery(o, s, q)
  \/ \E i \in DOMAIN ingestion, copied \in SUBSET Versions \ {{}} :
       \E copy \in [copied -> Versions] : LaunchIngestion(o, s, q, i, copy)

Operate(o) ==
  \/ Stage(o) /\ UNCHANGED <<revision, active, version, run>>
  \/ SaveSuite(o) /\ UNCHANGED <<stagingVars, active, version, run>>
  \/ /\ MaySubmit(o)
     /\ \/ \E v \in Versions, t \in Texts, i \in DOMAIN ingestion : Upload(o, v, t, i)
        \/ \E v \in Versions : Replace(o, v) \/ Restore(o, v)
        \/ \E i \in DOMAIN ingestion : SwitchIngestion(o, i)
        \/ \E q \in DOMAIN query : SwitchQuery(o, q)
        \/ \E s \in DOMAIN revision, q \in DOMAIN query : SubmitLaunch(o, s, q)
  \/ ReadActiveIngestion(o)
  \/ InsertRun(o)
  \/ Refuse(o)

Next ==
  \/ \E o \in Operators : Operate(o)
  \/ \E r \in DOMAIN run : Evaluate(r)

Spec == Init /\ [][Next]_vars

-----------------------------------------------------------------------------
(* Properties. *)

\* A run is never committed with a query bundle that its worker cannot resolve,
\* although launching looks at no schema, and its fingerprints stay those of the
\* configurations its bundles resolve to.
LaunchedRunsResolve ==
  \A r \in DOMAIN run :
    /\ QueryResolves(run[r].baseline)
    /\ QueryResolves(run[r].candidate)
    /\ run[r].fingerprints =
         Fingerprints(run[r].baseline, run[r].candidate,
                      run[r].baselineIngestion, run[r].candidateIngestion)

\* An ingestion comparison pairs every version of its suite with a copy of its
\* own that is no version of the suite, and one query bundle reads both sides,
\* although the active policies were read one after the other.
ComparisonsArePaired ==
  \A r \in DOMAIN run : run[r].mode = "ingestion" =>
    /\ \A v \in Originals(r) : \E w \in DOMAIN run[r].source :
         \A x \in DOMAIN run[r].source : run[r].source[x] = v <=> x = w
    /\ DOMAIN run[r].source \intersect Originals(r) = {}
    /\ run[r].baseline = run[r].candidate
    /\ ReadsCohort(run[r].candidate, run[r].baselineIngestion)
    /\ ReadsCohort(run[r].candidate, run[r].candidateIngestion)

\* What a completed ingestion comparison measured differs in the ingestion
\* policy alone: copies have the text of their originals, each side is indexed
\* under its own bundle, every labelled version is there on both sides, and one
\* escaped the search only because another was activated in its place after the
\* corpus was validated.
ComparedLikeWithLike ==
  \A r \in DOMAIN run :
    run[r].mode = "ingestion" /\ run[r].status = "completed" =>
      /\ \A w \in DOMAIN run[r].source :
           /\ version[w].text = version[run[r].source[w]].text
           /\ version[w].ingestion = run[r].candidateIngestion
      /\ \A v \in Originals(r) : version[v].ingestion = run[r].baselineIngestion
      /\ Originals(r) \union DOMAIN run[r].source = run[r].measured \union run[r].missed
      /\ run[r].measured \intersect run[r].missed = {}
      /\ \A v \in revision[run[r].suite].case.relevant :
           /\ v \in run[r].measured \union run[r].missed
           /\ \E w \in run[r].measured \union run[r].missed :
                w \in DOMAIN run[r].source /\ run[r].source[w] = v

=============================================================================
