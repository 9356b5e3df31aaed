---------------------- MODULE EvaluationPreparationProofs ----------------------
(***************************************************************************)
(* Theorems about EvaluationPreparation for every set of operators,        *)
(* proposals, suites and versions, and any number of requests.             *)
(*                                                                         *)
(* Tables only grow (Grows): what a request or a run has read of a row     *)
(* stays true, so an invariant about rows that exist is not disturbed by   *)
(* other requests (the lemmas named Frame), and each action has to account *)
(* for the row it adds.                                                    *)
(***************************************************************************)
EXTENDS EvaluationPreparation, FiniteSetTheorems, TLAPS

\* A validated profile of capability c.
IsMember(p, c) ==
  /\ p \in DOMAIN profile
  /\ profile[p].capability = c
  /\ profile[p].status = "validated"

\* A profile fits its snapshot; who is not retired fits today's schema, and who
\* is validated fits the deployment.
ProfilesInv ==
  \A p \in DOMAIN profile :
    /\ snapshot[profile[p].snapshot].capability = profile[p].capability
    /\ profile[p].status # "retired" => WellFormed(profile[p].capability, ContentOf(p))
    /\ profile[p].status = "validated" /\ MistralAvailable =>
         Deployed(profile[p].capability, ContentOf(p))

SnapshotsDiffer ==
  \A s, t \in DOMAIN snapshot : snapshot[s] = snapshot[t] => s = t

QueryInv(q) ==
  /\ query[q].lexical # {}
  /\ query[q].embedding # {}
  /\ \A p \in query[q].lexical : IsMember(p, "lexical")
  /\ \A p \in query[q].embedding : IsMember(p, "embedding")
  /\ profile[query[q].reranking].capability = "reranking"
  /\ profile[query[q].reranking].status # "draft"
  /\ profile[query[q].generation].capability = "generation"
  /\ profile[query[q].generation].status # "draft"
  /\ snapshot[query[q].retrieval].capability = "retrieval"

BundlesInv ==
  /\ \A i \in DOMAIN ingestion : \A c \in IngestionCapabilities : IsMember(ingestion[i][c], c)
  /\ \A q \in DOMAIN query : QueryInv(q)

\* What a request that stages something has read.
StagingSession(s) ==
  /\ s.pc = "draft" =>
       /\ s.capability \in Capabilities
       /\ s.content \in Contents
       /\ WellFormed(s.capability, s.content)
       /\ \A x \in s.found : x \in DOMAIN snapshot
            /\ snapshot[x] = [capability |-> s.capability, content |-> s.content]
  /\ s.pc = "query" =>
       /\ s.lexical # {}
       /\ s.embedding # {}
       /\ \A p \in s.lexical : IsMember(p, "lexical")
       /\ \A p \in s.embedding : IsMember(p, "embedding")
       /\ IsMember(s.reranking, "reranking")
       /\ IsMember(s.generation, "generation")
       /\ s.content \in Contents
       /\ \A x \in s.found : x \in DOMAIN snapshot
            /\ snapshot[x] = [capability |-> "retrieval", content |-> s.content]

-----------------------------------------------------------------------------
(* Sequences that grow. *)

LEMMA Appended ==
  ASSUME NEW S, NEW s \in Seq(S), NEW e \in S
  PROVE  /\ Append(s, e) \in Seq(S)
         /\ Len(s) \in Nat
         /\ Len(Append(s, e)) = Len(s) + 1
         /\ DOMAIN s = 1..Len(s)
         /\ DOMAIN Append(s, e) = 1..Len(s) + 1
         /\ DOMAIN Append(s, e) = DOMAIN s \union {Len(s) + 1}
         /\ Len(s) + 1 \notin DOMAIN s
         /\ \A i \in DOMAIN s : Append(s, e)[i] = s[i]
         /\ Append(s, e)[Len(s) + 1] = e
OBVIOUS

LEMMA Widened ==
  ASSUME NEW S, NEW T, S \subseteq T, NEW s \in Seq(S)
  PROVE  s \in Seq(T)
OBVIOUS

LEMMA Indexed1 ==
  ASSUME NEW S, NEW s \in Seq(S)
  PROVE  \A i \in DOMAIN s : s[i] \in S
OBVIOUS

\* Rows are never removed or changed, but for the approval of a draft.
StagingGrows ==
  /\ \A s \in DOMAIN snapshot : s \in DOMAIN snapshot' /\ snapshot'[s] = snapshot[s]
  /\ \A p \in DOMAIN profile :
       /\ p \in DOMAIN profile'
       /\ profile'[p].capability = profile[p].capability
       /\ profile'[p].snapshot = profile[p].snapshot
       /\ profile[p].status # "draft" => profile'[p].status = profile[p].status
  /\ \A i \in DOMAIN ingestion : i \in DOMAIN ingestion' /\ ingestion'[i] = ingestion[i]
  /\ \A q \in DOMAIN query : q \in DOMAIN query' /\ query'[q] = query[q]

LEMMA MemberFrame ==
  ASSUME StagingGrows, NEW p, NEW c, IsMember(p, c)
  PROVE  IsMember(p, c)'
BY DEF StagingGrows, IsMember

LEMMA QueryTypes ==
  ASSUME StagingTypeOK, NEW q \in DOMAIN query
  PROVE  /\ query[q].lexical \in SUBSET DOMAIN profile
         /\ query[q].embedding \in SUBSET DOMAIN profile
         /\ query[q].reranking \in DOMAIN profile
         /\ query[q].generation \in DOMAIN profile
         /\ query[q].retrieval \in DOMAIN snapshot
<1>1. query[q] \in QueryBundle(DOMAIN profile, DOMAIN snapshot)
  BY Indexed1 DEF StagingTypeOK
<1> QED BY <1>1 DEF QueryBundle

LEMMA ProfileTypes ==
  ASSUME StagingTypeOK, NEW p \in DOMAIN profile
  PROVE  /\ profile[p].capability \in Capabilities
         /\ profile[p].snapshot \in DOMAIN snapshot
         /\ profile[p].status \in {"draft", "validated", "retired"}
         /\ snapshot[profile[p].snapshot] \in Snapshot
<1>1. profile[p] \in Profile(DOMAIN snapshot)
  BY Indexed1 DEF StagingTypeOK
<1>2. profile[p].snapshot \in DOMAIN snapshot
  BY <1>1 DEF Profile
<1>3. snapshot[profile[p].snapshot] \in Snapshot
  BY <1>2, Indexed1 DEF StagingTypeOK
<1> QED BY <1>1, <1>3 DEF Profile

LEMMA QueryFrame ==
  ASSUME StagingTypeOK, StagingGrows, NEW q \in DOMAIN query, QueryInv(q)
  PROVE  QueryInv(q)'
<1>1. query'[q] = query[q]
  BY DEF StagingGrows
<1>2. /\ \A p \in query[q].lexical : IsMember(p, "lexical")'
      /\ \A p \in query[q].embedding : IsMember(p, "embedding")'
  BY MemberFrame DEF QueryInv
<1> QED BY <1>1, <1>2, QueryTypes DEF QueryInv, StagingGrows

LEMMA StagingSessionFrame ==
  ASSUME StagingGrows, NEW s, StagingSession(s)
  PROVE  StagingSession(s)'
<1>1. s.pc = "draft" => \A x \in s.found :
        x \in DOMAIN snapshot'
        /\ snapshot'[x] = [capability |-> s.capability, content |-> s.content]
  BY DEF StagingSession, StagingGrows
<1>2. s.pc = "query" => \A x \in s.found :
        x \in DOMAIN snapshot'
        /\ snapshot'[x] = [capability |-> "retrieval", content |-> s.content]
  BY DEF StagingSession, StagingGrows
<1>3. s.pc = "query" =>
        /\ \A p \in s.lexical : IsMember(p, "lexical")'
        /\ \A p \in s.embedding : IsMember(p, "embedding")'
        /\ IsMember(s.reranking, "reranking")'
        /\ IsMember(s.generation, "generation")'
  BY MemberFrame DEF StagingSession
<1> QED BY <1>1, <1>2, <1>3 DEF StagingSession

-----------------------------------------------------------------------------
(* Staging. *)

LEMMA SnapshotStep ==
  ASSUME StagingTypeOK, SnapshotsDiffer, NEW capability, NEW content, NEW found,
         [capability |-> capability, content |-> content] \in Snapshot,
         \A x \in found : x \in DOMAIN snapshot
           /\ snapshot[x] = [capability |-> capability, content |-> content],
         UseSnapshot(found, capability, content)
  PROVE  /\ snapshot' \in Seq(Snapshot)
         /\ \A s \in DOMAIN snapshot : s \in DOMAIN snapshot' /\ snapshot'[s] = snapshot[s]
         /\ SnapshotsDiffer'
         /\ SnapshotUsed(found) \in DOMAIN snapshot'
         /\ snapshot'[SnapshotUsed(found)]
              = [capability |-> capability, content |-> content]
<1> DEFINE row == [capability |-> capability, content |-> content]
<1>0. snapshot \in Seq(Snapshot)
  BY DEF StagingTypeOK
<1>1. CASE found = {}
  <2>1. /\ \A s \in DOMAIN snapshot : snapshot[s] # row
        /\ snapshot' = Append(snapshot, row)
    BY <1>1 DEF UseSnapshot, AddSnapshot, SnapshotsOf
  <2>2. SnapshotUsed(found) = Len(snapshot) + 1
    BY <1>1 DEF SnapshotUsed
  <2>3. row \in Snapshot
    OBVIOUS
  <2> HIDE DEF row
  <2>4. /\ snapshot' \in Seq(Snapshot)
        /\ DOMAIN snapshot' = DOMAIN snapshot \union {Len(snapshot) + 1}
        /\ Len(snapshot) + 1 \notin DOMAIN snapshot
        /\ \A i \in DOMAIN snapshot : snapshot'[i] = snapshot[i]
        /\ snapshot'[Len(snapshot) + 1] = row
    BY <1>0, <2>1, <2>3, Appended
  <2>5. SnapshotsDiffer'
    BY <2>1, <2>4 DEF SnapshotsDiffer
  <2> QED BY <2>2, <2>4, <2>5 DEF row
<1>2. CASE found # {}
  <2>1. snapshot' = snapshot
    BY <1>2 DEF UseSnapshot
  <2>2. SnapshotUsed(found) \in found
    BY <1>2 DEF SnapshotUsed
  <2> QED BY <1>0, <2>1, <2>2 DEF SnapshotsDiffer
<1> QED BY <1>1, <1>2

StagingInv ==
  /\ StagingTypeOK
  /\ SnapshotsDiffer
  /\ ProfilesInv
  /\ BundlesInv

\* Profiles that keep their approval, in tables that grow.
LEMMA ProfileFrame ==
  ASSUME StagingTypeOK, StagingGrows, ProfilesInv, NEW p \in DOMAIN profile,
         profile'[p].status = profile[p].status
  PROVE  /\ snapshot'[profile'[p].snapshot].capability = profile'[p].capability
         /\ profile'[p].status # "retired" =>
              WellFormed(profile'[p].capability, ContentOf(p)')
         /\ profile'[p].status = "validated" /\ MistralAvailable =>
              Deployed(profile'[p].capability, ContentOf(p)')
<1>1. ContentOf(p)' = ContentOf(p)
  BY ProfileTypes DEF ContentOf, StagingGrows
<1>2. /\ profile'[p].capability = profile[p].capability
      /\ snapshot'[profile'[p].snapshot] = snapshot[profile[p].snapshot]
  BY ProfileTypes DEF StagingGrows
<1> QED BY <1>1, <1>2 DEF ProfilesInv

LEMMA BundlesFrame ==
  ASSUME StagingTypeOK, StagingGrows, BundlesInv
  PROVE  /\ \A i \in DOMAIN ingestion : \A c \in IngestionCapabilities :
              IsMember(ingestion[i][c], c)'
         /\ \A q \in DOMAIN query : QueryInv(q)'
<1>1. ASSUME NEW i \in DOMAIN ingestion, NEW c \in IngestionCapabilities
      PROVE  IsMember(ingestion[i][c], c)'
  <2>1. PICK p : p = ingestion[i][c] /\ IsMember(p, c)
    BY DEF BundlesInv
  <2>2. IsMember(p, c)'
    BY <2>1, MemberFrame
  <2>3. ingestion'[i] = ingestion[i]
    BY DEF StagingGrows
  <2> QED BY <2>1, <2>2, <2>3 DEF IsMember
<1>2. ASSUME NEW q \in DOMAIN query PROVE QueryInv(q)'
  BY QueryFrame DEF BundlesInv
<1> QED BY <1>1, <1>2

\* What a validated profile may be bundled for.
LEMMA ValidatedIsMember ==
  ASSUME NEW c, NEW p \in Validated(c)
  PROVE  IsMember(p, c)
BY DEF Validated, IsMember

LEMMA DraftStep ==
  ASSUME StagingInv, NEW o \in Operators, NEW capability \in Capabilities,
         NEW content \in Contents, Draft(o, capability, content)
  PROVE  \E r : /\ session' = [session EXCEPT ![o] = r]
                /\ r.pc \in {"draft", "query"}
                /\ StagingSession(r)'
<1> DEFINE r == [pc |-> "draft", capability |-> capability, content |-> content,
                 found |-> SnapshotsOf(capability, content)]
<1>1. session' = [session EXCEPT ![o] = r] /\ WellFormed(capability, content)
  BY DEF Draft, Submit
<1>2. StagingSession(r) /\ r.pc = "draft"
  BY <1>1 DEF StagingSession, SnapshotsOf
<1>3. StagingGrows
  BY DEF Draft, stagingVars, StagingGrows
<1> HIDE DEF r
<1>4. PICK x : x = r
  OBVIOUS
<1>5. StagingSession(x)'
  BY <1>2, <1>3, <1>4, StagingSessionFrame
<1> QED BY <1>1, <1>2, <1>4, <1>5

LEMMA QuerySubmitStep ==
  ASSUME StagingInv, NEW o \in Operators, NEW l \in SUBSET Validated("lexical"),
         NEW e \in SUBSET Validated("embedding"), NEW k, NEW g,
         NEW content \in Retrievals, BundleQuery(o, l, e, k, g, content)
  PROVE  \E r : /\ session' = [session EXCEPT ![o] = r]
                /\ r.pc \in {"draft", "query"}
                /\ StagingSession(r)'
<1> DEFINE r == [pc |-> "query", lexical |-> l, embedding |-> e, reranking |-> k,
                 generation |-> g, content |-> content,
                 found |-> SnapshotsOf("retrieval", content)]
<1>1. /\ session' = [session EXCEPT ![o] = r]
      /\ l # {} /\ e # {}
      /\ k \in Validated("reranking") /\ g \in Validated("generation")
  BY DEF BundleQuery, Submit
<1>2. /\ IsMember(k, "reranking") /\ IsMember(g, "generation")
      /\ \A p \in l : IsMember(p, "lexical")
      /\ \A p \in e : IsMember(p, "embedding")
  BY <1>1, ValidatedIsMember
<1>3. StagingSession(r) /\ r.pc = "query"
  BY <1>1, <1>2, StagingAssumption DEF StagingSession, SnapshotsOf, Contents
<1>4. StagingGrows
  BY DEF BundleQuery, stagingVars, StagingGrows
<1> HIDE DEF r
<1>5. PICK x : x = r
  OBVIOUS
<1>6. StagingSession(x)'
  BY <1>3, <1>4, <1>5, StagingSessionFrame
<1> QED BY <1>1, <1>3, <1>5, <1>6

\* Types of tables that are referred to by tables that do not change.
LEMMA TypesFrame ==
  ASSUME StagingTypeOK, snapshot' \in Seq(Snapshot),
         \A s \in DOMAIN snapshot : s \in DOMAIN snapshot',
         profile' \in Seq(Profile(DOMAIN snapshot')),
         \A p \in DOMAIN profile : p \in DOMAIN profile',
         ingestion' \in Seq(Bundle(DOMAIN profile')),
         query' \in Seq(QueryBundle(DOMAIN profile', DOMAIN snapshot'))
  PROVE  StagingTypeOK'
BY DEF StagingTypeOK

LEMMA ProfilesWidened ==
  ASSUME StagingTypeOK, NEW S, DOMAIN snapshot \subseteq S
  PROVE  profile \in Seq(Profile(S))
<1>1. Profile(DOMAIN snapshot) \subseteq Profile(S)
  BY DEF Profile
<1> QED BY <1>1, Widened DEF StagingTypeOK

LEMMA IngestionsWidened ==
  ASSUME StagingTypeOK, NEW P, DOMAIN profile \subseteq P
  PROVE  ingestion \in Seq(Bundle(P))
<1>1. Bundle(DOMAIN profile) \subseteq Bundle(P)
  BY DEF Bundle
<1> QED BY <1>1, Widened DEF StagingTypeOK

LEMMA QueriesWidened ==
  ASSUME StagingTypeOK, NEW P, NEW S, DOMAIN profile \subseteq P, DOMAIN snapshot \subseteq S
  PROVE  query \in Seq(QueryBundle(P, S))
<1>1. QueryBundle(DOMAIN profile, DOMAIN snapshot) \subseteq QueryBundle(P, S)
  BY DEF QueryBundle
<1> QED BY <1>1, Widened DEF StagingTypeOK

LEMMA InsertDraftStep ==
  ASSUME StagingInv, NEW o \in Operators, StagingSession(session[o]), InsertDraft(o)
  PROVE  StagingInv' /\ StagingGrows /\ session' = [session EXCEPT ![o] = Idle]
<1> DEFINE found == session[o].found
<1>1. PICK capability \in Capabilities, content \in Contents :
        /\ capability = session[o].capability /\ content = session[o].content
        /\ WellFormed(capability, content)
        /\ \A x \in found : x \in DOMAIN snapshot
             /\ snapshot[x] = [capability |-> capability, content |-> content]
  BY DEF InsertDraft, StagingSession
<1>2. /\ UseSnapshot(found, capability, content)
      /\ profile' = Append(profile, [capability |-> capability,
                                     snapshot |-> SnapshotUsed(found),
                                     status |-> "draft"])
      /\ UNCHANGED <<ingestion, query>>
      /\ session' = [session EXCEPT ![o] = Idle]
  BY <1>1 DEF InsertDraft, Respond, Proceed
<1>3. [capability |-> capability, content |-> content] \in Snapshot
  BY DEF Snapshot
<1>4. PICK used : used = SnapshotUsed(found)
  OBVIOUS
<1> HIDE DEF found
<1>5. /\ snapshot' \in Seq(Snapshot)
      /\ \A s \in DOMAIN snapshot : s \in DOMAIN snapshot' /\ snapshot'[s] = snapshot[s]
      /\ SnapshotsDiffer'
      /\ used \in DOMAIN snapshot'
      /\ snapshot'[used] = [capability |-> capability, content |-> content]
  BY <1>1, <1>2, <1>3, <1>4, SnapshotStep DEF StagingInv
<1> DEFINE row == [capability |-> capability, snapshot |-> used, status |-> "draft"]
<1> PICK n : n = Len(profile) + 1
  OBVIOUS
<1>6. row \in Profile(DOMAIN snapshot')
  BY <1>5 DEF Profile
<1>7. profile \in Seq(Profile(DOMAIN snapshot'))
  BY <1>5, ProfilesWidened DEF StagingInv
<1>8. /\ profile' \in Seq(Profile(DOMAIN snapshot'))
      /\ DOMAIN profile' = DOMAIN profile \union {n}
      /\ n \notin DOMAIN profile
      /\ \A p \in DOMAIN profile : profile'[p] = profile[p]
      /\ profile'[n] = row
  <2> HIDE DEF row
  <2>1. profile' = Append(profile, row)
    BY <1>2, <1>4 DEF row
  <2> QED BY <1>6, <1>7, <2>1, Appended
<1>9. StagingGrows
  BY <1>2, <1>5, <1>8 DEF StagingGrows
<1>10. StagingTypeOK'
  <2>1. ingestion' \in Seq(Bundle(DOMAIN profile'))
    BY <1>2, <1>8, IngestionsWidened DEF StagingInv
  <2>2. query' \in Seq(QueryBundle(DOMAIN profile', DOMAIN snapshot'))
    BY <1>2, <1>5, <1>8, QueriesWidened DEF StagingInv
  <2> QED BY <1>5, <1>8, <2>1, <2>2, TypesFrame DEF StagingInv
<1>11. ProfilesInv'
  <2>1. ASSUME NEW p \in DOMAIN profile
        PROVE  /\ snapshot'[profile'[p].snapshot].capability = profile'[p].capability
               /\ profile'[p].status # "retired" =>
                    WellFormed(profile'[p].capability, ContentOf(p)')
               /\ profile'[p].status = "validated" /\ MistralAvailable =>
                    Deployed(profile'[p].capability, ContentOf(p)')
    BY <1>8, <1>9, ProfileFrame DEF StagingInv
  <2>2. /\ snapshot'[profile'[n].snapshot].capability = profile'[n].capability
        /\ ContentOf(n)' = content
        /\ profile'[n].capability = capability
        /\ profile'[n].status = "draft"
    BY <1>5, <1>8 DEF ContentOf
  <2> QED BY <1>1, <1>8, <2>1, <2>2 DEF ProfilesInv
<1>12. BundlesInv'
  BY <1>2, <1>9, BundlesFrame DEF StagingInv, BundlesInv
<1> QED BY <1>2, <1>5, <1>9, <1>10, <1>11, <1>12 DEF StagingInv

LEMMA ValidateStep ==
  ASSUME StagingInv, NEW o \in Operators, NEW p \in DOMAIN profile, Validate(o, p)
  PROVE  StagingInv' /\ StagingGrows /\ session' = [session EXCEPT ![o] = Idle]
<1> DEFINE row == [profile[p] EXCEPT !.status = "validated"]
<1>1. /\ profile[p].status = "draft"
      /\ WellFormed(profile[p].capability, ContentOf(p))
      /\ Deployed(profile[p].capability, ContentOf(p))
      /\ profile' = [profile EXCEPT ![p] = row]
      /\ UNCHANGED <<snapshot, ingestion, query>>
      /\ session' = [session EXCEPT ![o] = Idle]
  BY DEF Validate, Handle, Submit
<1>2. profile \in Seq(Profile(DOMAIN snapshot)) /\ profile[p] \in Profile(DOMAIN snapshot)
  BY Indexed1 DEF StagingInv, StagingTypeOK
<1>3. /\ row \in Profile(DOMAIN snapshot)
      /\ row.status = "validated"
      /\ row.capability = profile[p].capability
      /\ row.snapshot = profile[p].snapshot
  BY <1>2 DEF Profile
<1> HIDE DEF row
<1>4. /\ profile' \in Seq(Profile(DOMAIN snapshot))
      /\ DOMAIN profile' = DOMAIN profile
      /\ profile'[p] = row
      /\ \A x \in DOMAIN profile \ {p} : profile'[x] = profile[x]
  BY <1>1, <1>2, <1>3
<1>5. StagingGrows
  BY <1>1, <1>3, <1>4 DEF StagingGrows
<1>6. StagingTypeOK'
  BY <1>1, <1>4 DEF StagingInv, StagingTypeOK
<1>7. ProfilesInv'
  <2>1. ASSUME NEW x \in DOMAIN profile \ {p}
        PROVE  /\ snapshot'[profile'[x].snapshot].capability = profile'[x].capability
               /\ profile'[x].status # "retired" =>
                    WellFormed(profile'[x].capability, ContentOf(x)')
               /\ profile'[x].status = "validated" /\ MistralAvailable =>
                    Deployed(profile'[x].capability, ContentOf(x)')
    BY <1>4, <1>5, ProfileFrame DEF StagingInv
  <2>2. /\ snapshot'[profile'[p].snapshot].capability = profile'[p].capability
        /\ ContentOf(p)' = ContentOf(p)
        /\ profile'[p].capability = profile[p].capability
    BY <1>1, <1>3, <1>4 DEF ContentOf, StagingInv, ProfilesInv
  <2> QED BY <1>1, <1>4, <2>1, <2>2 DEF ProfilesInv
<1>8. BundlesInv'
  BY <1>1, <1>5, BundlesFrame DEF StagingInv, BundlesInv
<1> QED BY <1>1, <1>5, <1>6, <1>7, <1>8 DEF StagingInv, SnapshotsDiffer

LEMMA BundleIngestionStep ==
  ASSUME StagingInv, NEW o \in Operators, NEW n \in Validated("ner"),
         NEW c \in Validated("chunking"), NEW l \in Validated("lexical"),
         NEW e \in Validated("embedding"),
         BundleIngestion(o, [ner |-> n, chunking |-> c, lexical |-> l, embedding |-> e])
  PROVE  StagingInv' /\ StagingGrows /\ session' = [session EXCEPT ![o] = Idle]
<1> DEFINE row == [ner |-> n, chunking |-> c, lexical |-> l, embedding |-> e]
<1> PICK k : k = Len(ingestion) + 1
  OBVIOUS
<1>1. /\ ingestion' = Append(ingestion, row)
      /\ UNCHANGED <<snapshot, profile, query>>
      /\ session' = [session EXCEPT ![o] = Idle]
  BY DEF BundleIngestion, Handle, Submit
<1>2. \A x \in IngestionCapabilities : IsMember(row[x], x)
  BY ValidatedIsMember DEF IngestionCapabilities
<1>3. row \in Bundle(DOMAIN profile)
  BY <1>2 DEF Bundle, IngestionCapabilities, IsMember
<1> HIDE DEF row
<1>4. /\ ingestion' \in Seq(Bundle(DOMAIN profile))
      /\ DOMAIN ingestion' = DOMAIN ingestion \union {k}
      /\ \A i \in DOMAIN ingestion : ingestion'[i] = ingestion[i]
      /\ ingestion'[k] = row
  BY <1>1, <1>3, Appended DEF StagingInv, StagingTypeOK
<1>5. StagingGrows
  BY <1>1, <1>4 DEF StagingGrows
<1>6. StagingTypeOK'
  BY <1>1, <1>4 DEF StagingInv, StagingTypeOK
<1>7. ProfilesInv'
  BY <1>1 DEF StagingInv, ProfilesInv, ContentOf
<1>8. BundlesInv'
  <2>1. ASSUME NEW i \in DOMAIN ingestion, NEW x \in IngestionCapabilities
        PROVE  IsMember(ingestion[i][x], x)'
    BY <1>5, BundlesFrame DEF StagingInv
  <2>2. ASSUME NEW x \in IngestionCapabilities
        PROVE  IsMember(ingestion[k][x], x)'
    BY <1>1, <1>2, <1>4 DEF IsMember
  <2>3. \A q \in DOMAIN query' : QueryInv(q)'
    BY <1>1, <1>5, BundlesFrame DEF StagingInv
  <2> QED BY <1>4, <2>1, <2>2, <2>3 DEF BundlesInv
<1> QED BY <1>1, <1>5, <1>6, <1>7, <1>8 DEF StagingInv, SnapshotsDiffer

LEMMA InsertQueryStep ==
  ASSUME StagingInv, NEW o \in Operators, StagingSession(session[o]), InsertQuery(o)
  PROVE  StagingInv' /\ StagingGrows /\ session' = [session EXCEPT ![o] = Idle]
<1> DEFINE s == session[o]
           found == s.found
<1>1. /\ s.lexical # {} /\ s.embedding # {}
      /\ \A p \in s.lexical : IsMember(p, "lexical")
      /\ \A p \in s.embedding : IsMember(p, "embedding")
      /\ IsMember(s.reranking, "reranking")
      /\ IsMember(s.generation, "generation")
      /\ s.content \in Contents
      /\ \A x \in found : x \in DOMAIN snapshot
           /\ snapshot[x] = [capability |-> "retrieval", content |-> s.content]
      /\ UseSnapshot(found, "retrieval", s.content)
      /\ query' = Append(query, [lexical |-> s.lexical, embedding |-> s.embedding,
                                 reranking |-> s.reranking, generation |-> s.generation,
                                 retrieval |-> SnapshotUsed(found)])
      /\ UNCHANGED <<profile, ingestion>>
      /\ session' = [session EXCEPT ![o] = Idle]
  BY DEF InsertQuery, StagingSession, Respond, Proceed
<1>2. [capability |-> "retrieval", content |-> s.content] \in Snapshot
  BY <1>1 DEF Snapshot
<1>3. PICK used, l, e, k, g :
        /\ used = SnapshotUsed(found) /\ l = s.lexical /\ e = s.embedding
        /\ k = s.reranking /\ g = s.generation
  OBVIOUS
<1> HIDE DEF found
<1>4. /\ snapshot' \in Seq(Snapshot)
      /\ \A x \in DOMAIN snapshot : x \in DOMAIN snapshot' /\ snapshot'[x] = snapshot[x]
      /\ SnapshotsDiffer'
      /\ used \in DOMAIN snapshot'
      /\ snapshot'[used].capability = "retrieval"
  <2>1. snapshot'[used] = [capability |-> "retrieval", content |-> s.content]
    BY <1>1, <1>2, <1>3, SnapshotStep DEF StagingInv
  <2> QED BY <1>1, <1>2, <1>3, <2>1, SnapshotStep DEF StagingInv
<1> DEFINE row == [lexical |-> l, embedding |-> e, reranking |-> k, generation |-> g,
                   retrieval |-> used]
<1> PICK n : n = Len(query) + 1
  OBVIOUS
<1>5. row \in QueryBundle(DOMAIN profile, DOMAIN snapshot')
  BY <1>1, <1>3, <1>4 DEF QueryBundle, IsMember
<1>6. query \in Seq(QueryBundle(DOMAIN profile, DOMAIN snapshot'))
  BY <1>4, QueriesWidened DEF StagingInv
<1>7. /\ query' \in Seq(QueryBundle(DOMAIN profile, DOMAIN snapshot'))
      /\ DOMAIN query' = DOMAIN query \union {n}
      /\ \A q \in DOMAIN query : query'[q] = query[q]
      /\ query'[n] = row
  <2> HIDE DEF row
  <2>1. query' = Append(query, row)
    BY <1>1, <1>3 DEF row
  <2> QED BY <1>5, <1>6, <2>1, Appended
<1>8. StagingGrows
  BY <1>1, <1>4, <1>7 DEF StagingGrows
<1>9. StagingTypeOK'
  <2>1. profile' \in Seq(Profile(DOMAIN snapshot'))
    BY <1>1, <1>4, ProfilesWidened DEF StagingInv
  <2>2. ingestion' \in Seq(Bundle(DOMAIN profile'))
    BY <1>1 DEF StagingInv, StagingTypeOK
  <2> QED BY <1>1, <1>4, <1>7, <2>1, <2>2, TypesFrame DEF StagingInv
<1>10. ProfilesInv'
  <2>1. ASSUME NEW p \in DOMAIN profile
        PROVE  /\ snapshot'[profile'[p].snapshot].capability = profile'[p].capability
               /\ profile'[p].status # "retired" =>
                    WellFormed(profile'[p].capability, ContentOf(p)')
               /\ profile'[p].status = "validated" /\ MistralAvailable =>
                    Deployed(profile'[p].capability, ContentOf(p)')
    BY <1>1, <1>8, ProfileFrame DEF StagingInv
  <2> QED BY <1>1, <2>1 DEF ProfilesInv
<1>11. BundlesInv'
  <2>1. \A q \in DOMAIN query : QueryInv(q)'
    BY <1>8, BundlesFrame DEF StagingInv
  <2>2. QueryInv(n)'
    <3>1. /\ \A p \in l : IsMember(p, "lexical")'
          /\ \A p \in e : IsMember(p, "embedding")'
          /\ IsMember(k, "reranking")' /\ IsMember(g, "generation")'
      BY <1>1, <1>3, <1>8, MemberFrame
    <3> QED BY <1>1, <1>3, <1>4, <1>7, <3>1 DEF QueryInv, IsMember
  <2>3. \A i \in DOMAIN ingestion' : \A c \in IngestionCapabilities :
          IsMember(ingestion[i][c], c)'
    BY <1>1, <1>8, BundlesFrame DEF StagingInv
  <2> QED BY <1>7, <2>1, <2>2, <2>3 DEF BundlesInv
<1> QED BY <1>1, <1>4, <1>8, <1>9, <1>10, <1>11 DEF StagingInv

LEMMA StageStep ==
  ASSUME StagingInv, NEW o \in Operators, StagingSession(session[o]), Stage(o)
  PROVE  /\ StagingInv'
         /\ StagingGrows
         /\ \E r : /\ session' = [session EXCEPT ![o] = r]
                   /\ r.pc \in {"idle", "draft", "query"}
                   /\ StagingSession(r)'
<1>2. Idle.pc = "idle" /\ StagingSession(Idle)'
  BY DEF Idle, StagingSession
<1>3. UNCHANGED stagingVars => StagingInv' /\ StagingGrows
  BY DEF stagingVars, StagingGrows, StagingInv, StagingTypeOK, SnapshotsDiffer,
         ProfilesInv, BundlesInv, QueryInv, IsMember, ContentOf
<1>4. CASE \E p \in Proposals : Draft(o, p[1], p[2])
  <2>1. PICK capability \in Capabilities, content \in Contents :
          Draft(o, capability, content)
    BY <1>4, StagingAssumption
  <2>2. UNCHANGED stagingVars
    BY <2>1 DEF Draft
  <2> QED BY <1>3, <2>1, <2>2, DraftStep
<1>5. CASE InsertDraft(o)
  BY <1>2, <1>5, InsertDraftStep
<1>6. CASE \E p \in DOMAIN profile : Validate(o, p)
  BY <1>2, <1>6, ValidateStep
<1>7. CASE SubmitBundle(o)
  <2>1. CASE \E n \in Validated("ner"), c \in Validated("chunking"),
               l \in Validated("lexical"), e \in Validated("embedding") :
               BundleIngestion(o, [ner |-> n, chunking |-> c, lexical |-> l,
                                   embedding |-> e])
    BY <1>2, <2>1, BundleIngestionStep
  <2>2. CASE \E l \in SUBSET Validated("lexical"), e \in SUBSET Validated("embedding"),
               r \in Validated("reranking"), g \in Validated("generation"),
               content \in Retrievals : BundleQuery(o, l, e, r, g, content)
    <3>1. PICK l \in SUBSET Validated("lexical"), e \in SUBSET Validated("embedding"),
               r \in Validated("reranking"), g \in Validated("generation"),
               content \in Retrievals : BundleQuery(o, l, e, r, g, content)
      BY <2>2
    <3>2. UNCHANGED stagingVars
      BY <3>1 DEF BundleQuery
    <3> QED BY <1>3, <3>1, <3>2, QuerySubmitStep
  <2> QED BY <1>7, <2>1, <2>2 DEF SubmitBundle
<1>8. CASE InsertQuery(o)
  BY <1>2, <1>8, InsertQueryStep
<1> QED BY <1>4, <1>5, <1>6, <1>7, <1>8 DEF Stage

LEMMA Concatenated ==
  ASSUME NEW S, NEW s \in Seq(S), NEW t \in Seq(S)
  PROVE  /\ s \o t \in Seq(S)
         /\ Len(s \o t) = Len(s) + Len(t)
         /\ \A i \in 1..Len(s) : (s \o t)[i] = s[i]
         /\ \A i \in Len(s) + 1..Len(s) + Len(t) : (s \o t)[i] = t[i - Len(s)]
OBVIOUS

\* What the migrations seed.
LEMMA SeededSnapshotRows ==
  /\ SeededSnapshots \in Seq(Snapshot)
  /\ Len(SeededSnapshots) = 9
  /\ \A i \in 1..4 : SeededSnapshots[i] = BaselineSnapshots[i]
  /\ \A i \in 5..7 : SeededSnapshots[i] = PromptlessSnapshots[i - 4]
  /\ \A i \in 8..9 : SeededSnapshots[i] = PromptedSnapshots[i - 7]
<1>1. BaselineSnapshots \in Seq(Snapshot) /\ Len(BaselineSnapshots) = 4
  BY DEF BaselineSnapshots, Snapshot, Capabilities, IngestionCapabilities, Contents
<1>2. PromptlessSnapshots \in Seq(Snapshot) /\ Len(PromptlessSnapshots) = 3
  BY DEF PromptlessSnapshots, Snapshot, Capabilities, IngestionCapabilities, Contents
<1>3. PromptedSnapshots \in Seq(Snapshot) /\ Len(PromptedSnapshots) = 2
  BY DEF PromptedSnapshots, Snapshot, Capabilities, IngestionCapabilities, Contents
<1>4. PICK a, b, c : a = BaselineSnapshots /\ b = PromptlessSnapshots /\ c = PromptedSnapshots
  OBVIOUS
<1>5. PICK first : first = a \o b
  OBVIOUS
<1>6. /\ a \in Seq(Snapshot) /\ b \in Seq(Snapshot) /\ c \in Seq(Snapshot)
      /\ Len(a) = 4 /\ Len(b) = 3 /\ Len(c) = 2
  BY <1>1, <1>2, <1>3, <1>4
<1>7. /\ first \in Seq(Snapshot)
      /\ Len(first) = 7
      /\ \A i \in 1..4 : first[i] = a[i]
      /\ \A i \in 5..7 : first[i] = b[i - 4]
  <2>1. /\ first \in Seq(Snapshot)
        /\ Len(first) = Len(a) + Len(b)
        /\ \A i \in 1..Len(a) : first[i] = a[i]
        /\ \A i \in Len(a) + 1..Len(a) + Len(b) : first[i] = b[i - Len(a)]
    BY <1>5, <1>6, Concatenated
  <2> QED BY <1>6, <2>1
<1>8. SeededSnapshots = first \o c
  BY <1>4, <1>5, <1>6, Concatenated DEF SeededSnapshots
<1>9. /\ SeededSnapshots \in Seq(Snapshot)
      /\ Len(SeededSnapshots) = 9
      /\ \A i \in 1..7 : SeededSnapshots[i] = first[i]
      /\ \A i \in 8..9 : SeededSnapshots[i] = c[i - 7]
  <2>1. /\ SeededSnapshots \in Seq(Snapshot)
        /\ Len(SeededSnapshots) = Len(first) + Len(c)
        /\ \A i \in 1..Len(first) : SeededSnapshots[i] = first[i]
        /\ \A i \in Len(first) + 1..Len(first) + Len(c) :
             SeededSnapshots[i] = c[i - Len(first)]
    <3>1. first \in Seq(Snapshot) /\ c \in Seq(Snapshot)
      BY <1>6, <1>7
    <3> QED BY <3>1, <1>8, Concatenated
  <2> QED BY <1>6, <1>7, <2>1
<1> QED BY <1>4, <1>7, <1>9

LEMMA StagingStarts ==
  ASSUME StagingInit
  PROVE  StagingInv /\ QueryResolves(2) /\ DOMAIN ingestion = {1} /\ DOMAIN query = {1, 2}
<1>1. /\ snapshot \in Seq(Snapshot)
      /\ DOMAIN snapshot = 1..9
      /\ snapshot[1] = [capability |-> "ner", content |-> "seeded"]
      /\ snapshot[2] = [capability |-> "chunking", content |-> "seeded"]
      /\ snapshot[3] = [capability |-> "lexical", content |-> "seeded"]
      /\ snapshot[4] = [capability |-> "embedding", content |-> "seeded"]
      /\ snapshot[5] = [capability |-> "reranking", content |-> "promptless"]
      /\ snapshot[6] = [capability |-> "generation", content |-> "promptless"]
      /\ snapshot[7] = [capability |-> "retrieval", content |-> "seeded"]
      /\ snapshot[8] = [capability |-> "reranking", content |-> "seeded"]
      /\ snapshot[9] = [capability |-> "generation", content |-> "seeded"]
  BY SeededSnapshotRows DEF StagingInit, BaselineSnapshots, PromptlessSnapshots,
                            PromptedSnapshots
<1>2. /\ DOMAIN profile = 1..8
      /\ profile[1] = [capability |-> "ner", snapshot |-> 1, status |-> "validated"]
      /\ profile[2] = [capability |-> "chunking", snapshot |-> 2, status |-> "validated"]
      /\ profile[3] = [capability |-> "lexical", snapshot |-> 3, status |-> "validated"]
      /\ profile[4] = [capability |-> "embedding", snapshot |-> 4, status |-> "validated"]
      /\ profile[5] = [capability |-> "reranking", snapshot |-> 5, status |-> "retired"]
      /\ profile[6] = [capability |-> "generation", snapshot |-> 6, status |-> "retired"]
      /\ profile[7] = [capability |-> "reranking", snapshot |-> 8, status |-> "validated"]
      /\ profile[8] = [capability |-> "generation", snapshot |-> 9, status |-> "validated"]
  BY <1>1 DEF StagingInit, SeededProfiles
<1>3. /\ DOMAIN ingestion = {1}
      /\ ingestion[1] = [ner |-> 1, chunking |-> 2, lexical |-> 3, embedding |-> 4]
  BY DEF StagingInit, SeededIngestions
<1>4. /\ DOMAIN query = {1, 2}
      /\ query[1] = [lexical |-> {3}, embedding |-> {4}, reranking |-> 5,
                     generation |-> 6, retrieval |-> 7]
      /\ query[2] = [lexical |-> {3}, embedding |-> {4}, reranking |-> 7,
                     generation |-> 8, retrieval |-> 7]
  BY DEF StagingInit, SeededQueries
<1>5. StagingTypeOK
  <2>1. profile \in Seq(Profile(DOMAIN snapshot))
    <3>1. \A p \in 1..8 : profile[p] \in Profile(DOMAIN snapshot)
      BY <1>1, <1>2 DEF Profile, Capabilities, IngestionCapabilities
    <3>2. profile = [i \in 1..8 |-> profile[i]]
      BY <1>2 DEF StagingInit, SeededProfiles
    <3> QED BY <3>1, <3>2
  <2>2. ingestion \in Seq(Bundle(DOMAIN profile))
    BY <1>2, <1>3 DEF StagingInit, SeededIngestions, Bundle, IngestionCapabilities
  <2>3. query \in Seq(QueryBundle(DOMAIN profile, DOMAIN snapshot))
    BY <1>1, <1>2, <1>4 DEF StagingInit, SeededQueries, QueryBundle
  <2> QED BY <1>1, <2>1, <2>2, <2>3 DEF StagingTypeOK
<1>6. SnapshotsDiffer
  BY <1>1 DEF SnapshotsDiffer
<1>7. ProfilesInv
  <2>1. ASSUME NEW p \in {1, 2, 3, 4, 7, 8}
        PROVE  /\ snapshot[profile[p].snapshot].capability = profile[p].capability
               /\ ContentOf(p) = "seeded"
    BY <1>1, <1>2 DEF ContentOf
  <2>2. ASSUME NEW p \in {5, 6}
        PROVE  /\ snapshot[profile[p].snapshot].capability = profile[p].capability
               /\ profile[p].status = "retired"
    BY <1>1, <1>2
  <2>3. \A p \in DOMAIN profile : p \in {1, 2, 3, 4, 7, 8} \/ p \in {5, 6}
    BY <1>2
  <2> QED BY <2>1, <2>2, <2>3 DEF ProfilesInv, WellFormed, Deployed
<1>8. BundlesInv
  <2>1. /\ IsMember(1, "ner") /\ IsMember(2, "chunking")
        /\ IsMember(3, "lexical") /\ IsMember(4, "embedding")
    BY <1>2 DEF IsMember
  <2>2. \A c \in IngestionCapabilities : IsMember(ingestion[1][c], c)
    BY <1>3, <2>1 DEF IngestionCapabilities
  <2>3. QueryInv(1)
    BY <1>1, <1>2, <1>4, <2>1 DEF QueryInv
  <2>4. QueryInv(2)
    BY <1>1, <1>2, <1>4, <2>1 DEF QueryInv
  <2> QED BY <1>3, <1>4, <2>2, <2>3, <2>4 DEF BundlesInv
<1>9. QueryResolves(2)
  <2>1. /\ Resolves(4, "embedding")
        /\ Resolves(7, "reranking")
        /\ Resolves(8, "generation")
    BY <1>1, <1>2 DEF Resolves, WellFormed, ContentOf
  <2> QED BY <1>1, <1>4, <2>1 DEF QueryResolves
<1> QED BY <1>3, <1>4, <1>5, <1>6, <1>7, <1>8, <1>9 DEF StagingInv

-----------------------------------------------------------------------------
(* Suites. *)

RowsOf(suite) == {x \in DOMAIN revision : revision[x].suite = suite}

CountOf(suite) == Cardinality(RowsOf(suite))

\* Strengthens RevisionsNumbered by what the unique constraint sees.
SuitesInv ==
  /\ SuitesTypeOK
  /\ \A r \in DOMAIN revision : WellLabelled(revision[r].case, revision[r].corpus)
  /\ \A suite \in Suites : NumbersOf(suite) = 1..CountOf(suite)
  /\ \A r \in DOMAIN revision :
       revision[r].base # 0 => revision[r].base \in DOMAIN revision
  /\ RevisionsNumbered

\* What a request that saves a suite has read.
SuiteSession(s) ==
  s.pc \in {"number", "insert"} =>
    /\ s.suite \in Suites
    /\ s.base \in Nat
    /\ s.corpus \in SUBSET Versions
    /\ s.case \in Cases
    /\ WellLabelled(s.case, s.corpus)
    /\ s.base # 0 => s.base \in DOMAIN revision /\ revision[s.base].suite = s.suite
    /\ s.pc = "insert" =>
         /\ s.number \in 1..CountOf(s.suite) + 1
         /\ s.base # 0 => revision[s.base].number < s.number

RevisionsGrow ==
  \A r \in DOMAIN revision : r \in DOMAIN revision' /\ revision'[r] = revision[r]

LEMMA RevisionTypes ==
  ASSUME SuitesTypeOK, NEW r \in DOMAIN revision
  PROVE  /\ r \in Nat /\ r # 0
         /\ revision[r].suite \in Suites
         /\ revision[r].number \in Nat
         /\ revision[r].base \in Nat
         /\ revision[r].corpus \in SUBSET Versions
         /\ revision[r].case \in Cases
<1>1. revision[r] \in Revision
  BY Indexed1 DEF SuitesTypeOK
<1>2. r \in Nat /\ r # 0
  BY DEF SuitesTypeOK
<1> QED BY <1>1, <1>2 DEF Revision

LEMMA RowsFinite ==
  ASSUME SuitesTypeOK, NEW suite
  PROVE  IsFiniteSet(RowsOf(suite)) /\ CountOf(suite) \in Nat
<1>1. IsFiniteSet(1..Len(revision)) /\ DOMAIN revision = 1..Len(revision)
  BY FS_Interval DEF SuitesTypeOK
<1>2. RowsOf(suite) \subseteq DOMAIN revision
  BY DEF RowsOf
<1> QED BY <1>1, <1>2, FS_Subset, FS_CardinalityType DEF CountOf

LEMMA SuiteSessionFrame ==
  ASSUME SuitesTypeOK, SuitesTypeOK', RevisionsGrow, NEW s, SuiteSession(s)
  PROVE  SuiteSession(s)'
<1>1. CASE s.pc \in {"number", "insert"}
  <2> PICK suite : suite = s.suite
    OBVIOUS
  <2>1. RowsOf(suite) \subseteq RowsOf(suite)'
    BY DEF RowsOf, RevisionsGrow
  <2>2. IsFiniteSet(RowsOf(suite)') /\ CountOf(suite)' \in Nat
    <3>1. IsFiniteSet(1..Len(revision')) /\ DOMAIN revision' = 1..Len(revision')
      BY FS_Interval DEF SuitesTypeOK
    <3>2. RowsOf(suite)' \subseteq DOMAIN revision'
      BY DEF RowsOf
    <3> QED BY <3>1, <3>2, FS_Subset, FS_CardinalityType DEF CountOf
  <2>3. CountOf(suite) <= CountOf(suite)'
    BY <2>1, <2>2, FS_Subset DEF CountOf
  <2>4. s.pc = "insert" => s.number \in 1..CountOf(suite)' + 1
    BY <1>1, <2>2, <2>3, RowsFinite DEF SuiteSession
  <2> QED BY <1>1, <2>4 DEF SuiteSession, RevisionsGrow
<1>2. CASE s.pc \notin {"number", "insert"}
  BY <1>2 DEF SuiteSession
<1> QED BY <1>1, <1>2

LEMMA LatestIsCount ==
  ASSUME SuitesInv, NEW suite \in Suites
  PROVE  LatestNumber(suite) = CountOf(suite)
<1>1. NumbersOf(suite) = 1..CountOf(suite) /\ CountOf(suite) \in Nat
  BY RowsFinite DEF SuitesInv
<1>2. CASE CountOf(suite) = 0
  BY <1>1, <1>2 DEF LatestNumber
<1>3. CASE CountOf(suite) # 0
  <2>1. /\ CountOf(suite) \in NumbersOf(suite)
        /\ \A k \in NumbersOf(suite) : k <= CountOf(suite)
        /\ NumbersOf(suite) # {}
    BY <1>1, <1>3
  <2>2. \A n \in NumbersOf(suite) :
          (\A k \in NumbersOf(suite) : k <= n) => n = CountOf(suite)
    BY <1>1, <2>1
  <2> QED BY <2>1, <2>2 DEF LatestNumber
<1> QED BY <1>2, <1>3

LEMMA SaveStep ==
  ASSUME SuitesInv, NEW o \in Operators, NEW suite \in Suites, NEW base \in Nat,
         NEW corpus \in SUBSET Versions, NEW case \in Cases,
         base # 0 => base \in DOMAIN revision /\ revision[base].suite = suite,
         Save(o, suite, base, corpus, case)
  PROVE  \E r : /\ session' = [session EXCEPT ![o] = r]
                /\ r.pc = "number"
                /\ SuiteSession(r)
<1> DEFINE r == [pc |-> "number", suite |-> suite, base |-> base,
                 corpus |-> corpus, case |-> case]
<1>1. session' = [session EXCEPT ![o] = r] /\ WellLabelled(case, corpus)
  BY DEF Save, Submit
<1>2. r.pc = "number" /\ SuiteSession(r)
  BY <1>1 DEF SuiteSession
<1> QED BY <1>1, <1>2

LEMMA ReadNumberStep ==
  ASSUME SuitesInv, NEW o \in Operators, SuiteSession(session[o]), ReadNumber(o)
  PROVE  \E r : /\ session' = [session EXCEPT ![o] = r]
                /\ r.pc = "insert"
                /\ SuiteSession(r)
<1>1. PICK s : s = session[o]
  OBVIOUS
<1>2. /\ s.pc = "number"
      /\ SuiteSession(s)
      /\ session' = [session EXCEPT ![o] =
           [pc |-> "insert", suite |-> s.suite, base |-> s.base,
            corpus |-> s.corpus, case |-> s.case,
            number |-> LatestNumber(s.suite) + 1]]
  BY <1>1 DEF ReadNumber, Proceed
<1>3. s.suite \in Suites /\ LatestNumber(s.suite) = CountOf(s.suite)
  BY <1>2, LatestIsCount DEF SuiteSession
<1>4. CountOf(s.suite) \in Nat
  BY RowsFinite DEF SuitesInv
<1>5. s.base # 0 => revision[s.base].number \in NumbersOf(s.suite)
  BY <1>2 DEF SuiteSession, NumbersOf
<1>6. s.base # 0 => revision[s.base].number \in 1..CountOf(s.suite)
  BY <1>3, <1>5 DEF SuitesInv
<1> DEFINE r == [pc |-> "insert", suite |-> s.suite, base |-> s.base,
                 corpus |-> s.corpus, case |-> s.case,
                 number |-> LatestNumber(s.suite) + 1]
<1>7. r.number \in 1..CountOf(r.suite) + 1
  BY <1>3, <1>4
<1>8. r.base # 0 => revision[r.base].number < r.number
  BY <1>3, <1>4, <1>6
<1>9. r.pc = "insert" /\ SuiteSession(r)
  BY <1>2, <1>7, <1>8 DEF SuiteSession
<1> QED BY <1>2, <1>9

LEMMA InsertRevisionStep ==
  ASSUME SuitesInv, NEW o \in Operators, SuiteSession(session[o]), InsertRevision(o)
  PROVE  /\ SuitesInv'
         /\ RevisionsGrow
         /\ session' = [session EXCEPT ![o] = Idle]
<1>1. PICK suite, number, base, corpus, case :
        /\ suite = session[o].suite /\ number = session[o].number
        /\ base = session[o].base /\ corpus = session[o].corpus
        /\ case = session[o].case
  OBVIOUS
<1>2. /\ suite \in Suites /\ base \in Nat /\ corpus \in SUBSET Versions
      /\ case \in Cases /\ WellLabelled(case, corpus)
      /\ base # 0 => base \in DOMAIN revision /\ revision[base].suite = suite
      /\ number \in 1..CountOf(suite) + 1
      /\ base # 0 => revision[base].number < number
      /\ number \notin NumbersOf(suite)
      /\ session' = [session EXCEPT ![o] = Idle]
  BY <1>1 DEF InsertRevision, SuiteSession, Free, Respond, Proceed
<1> DEFINE row == [suite |-> suite, number |-> number, base |-> base,
                   corpus |-> corpus, case |-> case]
<1> PICK n : n = Len(revision) + 1
  OBVIOUS
<1>3. /\ revision' \in Seq(Revision)
      /\ DOMAIN revision' = DOMAIN revision \union {n}
      /\ n \notin DOMAIN revision
      /\ DOMAIN revision = 1..n - 1
      /\ n \in Nat
      /\ \A r \in DOMAIN revision : revision'[r] = revision[r]
      /\ revision'[n] = row
  <2>1. revision' = Append(revision, row)
    BY <1>1 DEF InsertRevision
  <2>2. row \in Revision /\ revision \in Seq(Revision)
    BY <1>2 DEF Revision, SuitesInv, SuitesTypeOK
  <2> HIDE DEF row
  <2> QED BY <2>1, <2>2, Appended
<1>4. RevisionsGrow
  BY <1>3 DEF RevisionsGrow
<1>5. number = CountOf(suite) + 1
  <2>1. NumbersOf(suite) = 1..CountOf(suite) /\ CountOf(suite) \in Nat
    BY <1>2, RowsFinite DEF SuitesInv
  <2> QED BY <1>2, <2>1
<1>6. /\ RowsOf(suite)' = RowsOf(suite) \union {n}
      /\ n \notin RowsOf(suite)
      /\ CountOf(suite)' = CountOf(suite) + 1
  <2>1. RowsOf(suite)' = RowsOf(suite) \union {n} /\ n \notin RowsOf(suite)
    BY <1>3 DEF RowsOf
  <2> QED BY <2>1, RowsFinite, FS_AddElement DEF CountOf, SuitesInv
<1>7. \A t \in Suites \ {suite} : RowsOf(t)' = RowsOf(t)
  BY <1>3 DEF RowsOf
<1>8. \A t : RowsOf(t) \subseteq DOMAIN revision
  BY DEF RowsOf
<1>9. \A t : NumbersOf(t) = {revision[r].number : r \in RowsOf(t)}
  BY DEF NumbersOf, RowsOf
<1>10. \A t : NumbersOf(t)' = {revision'[r].number : r \in RowsOf(t)'}
  BY DEF NumbersOf, RowsOf
<1>11. ASSUME NEW t \in Suites PROVE NumbersOf(t)' = 1..CountOf(t)'
  <2>1. NumbersOf(t) = 1..CountOf(t) /\ CountOf(t) \in Nat
    BY RowsFinite DEF SuitesInv
  <2>2. CASE t = suite
    <3>1. NumbersOf(t)' = NumbersOf(t) \union {number}
      BY <1>3, <1>6, <1>8, <1>9, <1>10, <2>2
    <3> QED BY <1>5, <1>6, <2>1, <2>2, <3>1
  <2>3. CASE t # suite
    <3>1. \A r \in RowsOf(t) : revision'[r].number = revision[r].number
      BY <1>3, <1>8
    <3>2. NumbersOf(t)' = NumbersOf(t)
      <4>1. PICK rows : rows = RowsOf(t) /\ rows = RowsOf(t)'
        BY <1>7, <2>3
      <4>2. /\ NumbersOf(t) = {revision[r].number : r \in rows}
            /\ NumbersOf(t)' = {revision'[r].number : r \in rows}
        BY <1>9, <1>10, <4>1
      <4>3. {revision[r].number : r \in rows} = {revision'[r].number : r \in rows}
        BY <3>1, <4>1
      <4> QED BY <4>2, <4>3
    <3> QED BY <1>7, <2>1, <2>3, <3>2 DEF CountOf
  <2> QED BY <2>2, <2>3
<1>12. RevisionsNumbered'
  <2>1. ASSUME NEW r \in DOMAIN revision
        PROVE  revision'[r].number
                 = Cardinality({x \in 1..r : revision'[x].suite = revision'[r].suite})
    <3>1. \A x \in 1..r : x \in DOMAIN revision
      BY <1>3
    <3>2. {x \in 1..r : revision'[x].suite = revision'[r].suite}
            = {x \in 1..r : revision[x].suite = revision[r].suite}
      BY <1>3, <3>1
    <3> QED BY <1>3, <3>2 DEF SuitesInv, RevisionsNumbered
  <2>2. {x \in 1..n : revision'[x].suite = suite} = RowsOf(suite)'
    BY <1>3 DEF RowsOf
  <2>3. revision'[n].number
          = Cardinality({x \in 1..n : revision'[x].suite = revision'[n].suite})
    <3>1. revision'[n].suite = suite /\ revision'[n].number = number
      BY <1>3
    <3>2. number = Cardinality(RowsOf(suite)')
      BY <1>5, <1>6 DEF CountOf
    <3> QED BY <2>2, <3>1, <3>2
  <2>4. ASSUME NEW r \in DOMAIN revision, revision[r].base # 0
        PROVE  /\ revision'[revision'[r].base].suite = revision'[r].suite
               /\ revision'[revision'[r].base].number < revision'[r].number
    <3>1. revision[r].base \in DOMAIN revision
      BY <2>4 DEF SuitesInv
    <3> QED BY <1>3, <2>4, <3>1 DEF SuitesInv, RevisionsNumbered
  <2>5. base # 0 => /\ revision'[base].suite = suite
                    /\ revision'[base].number < number
    BY <1>2, <1>3
  <2>6. revision'[n].suite = suite /\ revision'[n].number = number /\ revision'[n].base = base
    BY <1>3
  <2>7. \A r \in DOMAIN revision' : revision'[r].number
          = Cardinality({x \in 1..r : revision'[x].suite = revision'[r].suite})
    BY <1>3, <2>1, <2>3
  <2>8. \A r \in DOMAIN revision' : revision'[r].base # 0 =>
          /\ revision'[revision'[r].base].suite = revision'[r].suite
          /\ revision'[revision'[r].base].number < revision'[r].number
    <3>1. ASSUME NEW r \in DOMAIN revision, revision'[r].base # 0
          PROVE  /\ revision'[revision'[r].base].suite = revision'[r].suite
                 /\ revision'[revision'[r].base].number < revision'[r].number
      BY <1>3, <2>4, <3>1
    <3>2. revision'[n].base # 0 =>
            /\ revision'[revision'[n].base].suite = revision'[n].suite
            /\ revision'[revision'[n].base].number < revision'[n].number
      BY <2>5, <2>6
    <3> QED BY <1>3, <3>1, <3>2
  <2> QED BY <2>7, <2>8 DEF RevisionsNumbered
<1>13. \A r \in DOMAIN revision' : WellLabelled(revision[r].case, revision[r].corpus)'
  BY <1>2, <1>3 DEF SuitesInv, WellLabelled
<1>14. \A r \in DOMAIN revision' :
         revision'[r].base # 0 => revision'[r].base \in DOMAIN revision'
  BY <1>2, <1>3 DEF SuitesInv
<1> QED BY <1>2, <1>3, <1>4, <1>11, <1>12, <1>13, <1>14 DEF SuitesInv, SuitesTypeOK

-----------------------------------------------------------------------------
(* Launches and runs. *)

Sources == UNION {[c -> Versions] : c \in SUBSET Versions}

\* What a request that launches a run has read.
LaunchSession(s) ==
  s.pc \in {"ingestion", "launch"} =>
    /\ s.mode \in Modes
    /\ s.suite \in DOMAIN revision
    /\ s.query \in DOMAIN query
    /\ QueryResolves(s.query)
    /\ s.ingestion \in DOMAIN ingestion \union {0}
    /\ s.source \in Sources
    /\ s.mode = "ingestion" =>
         /\ s.ingestion # 0
         /\ \A w, x \in DOMAIN s.source : s.source[w] = s.source[x] => w = x
    /\ s.pc = "launch" =>
         /\ s.baselineIngestion \in DOMAIN ingestion \union {0}
         /\ s.mode = "ingestion" => s.baselineIngestion # 0

\* What the launch has checked of a run x.
LaunchInv(x) ==
  /\ QueryResolves(x.baseline)
  /\ QueryResolves(x.candidate)
  /\ x.fingerprints = Fingerprints(x.baseline, x.candidate,
                                   x.baselineIngestion, x.candidateIngestion)
  /\ x.mode = "ingestion" =>
       /\ \A v \in revision[x.suite].corpus : \E w \in DOMAIN x.source :
            \A y \in DOMAIN x.source : x.source[y] = v <=> y = w
       /\ \A w \in DOMAIN x.source : x.source[w] \in revision[x.suite].corpus
       /\ DOMAIN x.source \intersect revision[x.suite].corpus = {}
       /\ x.baseline = x.candidate
       /\ ReadsCohort(x.candidate, x.baselineIngestion)
       /\ ReadsCohort(x.candidate, x.candidateIngestion)
       /\ x.baselineIngestion # 0
       /\ x.candidateIngestion # 0

\* What the worker has found of a run x, up to where it is.
MeasuredInv(x) ==
  x.mode = "ingestion" =>
    /\ x.status \in {"validated", "baseline", "completed"} =>
         /\ \A w \in DOMAIN x.source :
              /\ version[w] # Unknown
              /\ version[w].text = version[x.source[w]].text
              /\ version[w].ingestion = x.candidateIngestion
         /\ \A v \in revision[x.suite].corpus :
              /\ version[v] # Unknown
              /\ version[v].ingestion = x.baselineIngestion
    /\ x.status \in {"pending", "validated"} => x.measured = {} /\ x.missed = {}
    /\ x.status = "baseline" => x.measured \union x.missed = revision[x.suite].corpus
    /\ x.status = "completed" =>
         x.measured \union x.missed = revision[x.suite].corpus \union DOMAIN x.source
    /\ x.measured \intersect x.missed = {}

VersionsKeep ==
  \A v \in Versions : version[v] # Unknown =>
    /\ version'[v] # Unknown
    /\ version'[v].text = version[v].text
    /\ version'[v].ingestion = version[v].ingestion

Grows == StagingGrows /\ RevisionsGrow /\ VersionsKeep

LEMMA ResolvesFrame ==
  ASSUME StagingTypeOK, StagingGrows, NEW p \in DOMAIN profile, NEW c, Resolves(p, c)
  PROVE  Resolves(p, c)'
BY ProfileTypes DEF Resolves, ContentOf, StagingGrows

LEMMA QueryResolvesFrame ==
  ASSUME StagingTypeOK, StagingGrows, NEW q \in DOMAIN query, QueryResolves(q)
  PROVE  QueryResolves(q)'
<1>1. query'[q] = query[q]
  BY DEF StagingGrows
<1>2. \A p \in query[q].embedding : Resolves(p, "embedding")'
  BY QueryTypes, ResolvesFrame DEF QueryResolves
<1>3. Resolves(query[q].reranking, "reranking")'
      /\ Resolves(query[q].generation, "generation")'
  <2>1. PICK k, g : k = query[q].reranking /\ g = query[q].generation
    OBVIOUS
  <2>2. Resolves(k, "reranking")' /\ Resolves(g, "generation")'
    BY <2>1, QueryTypes, ResolvesFrame DEF QueryResolves
  <2>3. query'[q].reranking = k /\ query'[q].generation = g
    BY <1>1, <2>1
  <2> QED BY <1>1, <2>1, <2>2, <2>3 DEF Resolves, ContentOf
<1>4. snapshot'[query[q].retrieval] = snapshot[query[q].retrieval]
  BY QueryTypes DEF StagingGrows
<1> QED BY <1>1, <1>2, <1>3, <1>4 DEF QueryResolves

\* A bundle whose members are not retired resolves.
LEMMA MembersResolve ==
  ASSUME StagingInv, NEW p \in DOMAIN profile, profile[p].status # "retired"
  PROVE  Resolves(p, profile[p].capability)
BY DEF StagingInv, ProfilesInv, Resolves

LEMMA SelectableResolves ==
  ASSUME StagingInv, NEW q \in DOMAIN query,
         profile[query[q].reranking].status # "retired",
         profile[query[q].generation].status # "retired"
  PROVE  QueryResolves(q)
<1>1. QueryInv(q)
  BY DEF StagingInv, BundlesInv
<1>2. \A p \in query[q].embedding : Resolves(p, "embedding")
  BY <1>1, MembersResolve DEF QueryInv, IsMember
<1>3. Resolves(query[q].reranking, "reranking")
      /\ Resolves(query[q].generation, "generation")
  BY <1>1, MembersResolve, QueryTypes DEF QueryInv, StagingInv
<1> QED BY <1>1, <1>2, <1>3 DEF QueryInv, QueryResolves

LEMMA SupportedResolves ==
  ASSUME StagingInv, NEW q \in DOMAIN query, Supported(q)
  PROVE  QueryResolves(q)
BY SelectableResolves DEF Supported, Validated

LEMMA FingerprintTypes ==
  ASSUME StagingTypeOK, NEW b \in DOMAIN query, NEW c \in DOMAIN query,
         NEW i \in DOMAIN ingestion \union {0}, NEW j \in DOMAIN ingestion \union {0}
  PROVE  Fingerprints(b, c, i, j) \in
           [baseline : SUBSET Snapshot, candidate : SUBSET Snapshot,
            baselineIngestion : SUBSET Snapshot, candidateIngestion : SUBSET Snapshot]
<1>1. ASSUME NEW q \in DOMAIN query PROVE QueryFingerprint(q) \subseteq Snapshot
  <2>1. \A p \in query[q].lexical \union query[q].embedding
                 \union {query[q].reranking, query[q].generation} : p \in DOMAIN profile
    BY QueryTypes
  <2>2. snapshot[query[q].retrieval] \in Snapshot
    BY QueryTypes, Indexed1 DEF StagingTypeOK
  <2> QED BY <2>1, <2>2, ProfileTypes DEF QueryFingerprint
<1>2. ASSUME NEW k \in DOMAIN ingestion \union {0}
      PROVE  IngestionFingerprint(k) \subseteq Snapshot
  <2>1. k \in DOMAIN ingestion => ingestion[k] \in Bundle(DOMAIN profile)
    BY Indexed1 DEF StagingTypeOK
  <2>2. k \in DOMAIN ingestion =>
          \A x \in IngestionCapabilities : ingestion[k][x] \in DOMAIN profile
    BY <2>1 DEF Bundle
  <2> QED BY <2>2, ProfileTypes DEF IngestionFingerprint
<1> QED BY <1>1, <1>2 DEF Fingerprints

LEMMA FingerprintsFrame ==
  ASSUME StagingTypeOK, StagingGrows, NEW b \in DOMAIN query, NEW c \in DOMAIN query,
         NEW i \in DOMAIN ingestion \union {0}, NEW j \in DOMAIN ingestion \union {0}
  PROVE  Fingerprints(b, c, i, j)' = Fingerprints(b, c, i, j)
<1>1. \A p \in DOMAIN profile :
        snapshot'[profile'[p].snapshot] = snapshot[profile[p].snapshot]
  BY ProfileTypes DEF StagingGrows
<1>2. ASSUME NEW q \in DOMAIN query PROVE QueryFingerprint(q)' = QueryFingerprint(q)
  <2>1. query'[q] = query[q]
    BY DEF StagingGrows
  <2>2. PICK members : members = query[q].lexical \union query[q].embedding
                                 \union {query[q].reranking, query[q].generation}
    OBVIOUS
  <2>3. members \subseteq DOMAIN profile
    BY <2>2, QueryTypes
  <2>4. {snapshot'[profile'[p].snapshot] : p \in members}
          = {snapshot[profile[p].snapshot] : p \in members}
    BY <1>1, <2>3
  <2>5. snapshot'[query[q].retrieval] = snapshot[query[q].retrieval]
    BY QueryTypes DEF StagingGrows
  <2>6. QueryFingerprint(q)
          = {snapshot[profile[p].snapshot] : p \in members}
            \union {snapshot[query[q].retrieval]}
    BY <2>2 DEF QueryFingerprint
  <2>7. QueryFingerprint(q)'
          = {snapshot'[profile'[p].snapshot] : p \in members}
            \union {snapshot'[query[q].retrieval]}
    BY <2>1, <2>2 DEF QueryFingerprint
  <2> QED BY <2>4, <2>5, <2>6, <2>7
<1>3. ASSUME NEW k \in DOMAIN ingestion \union {0}
      PROVE  IngestionFingerprint(k)' = IngestionFingerprint(k)
  <2>1. CASE k = 0
    BY <2>1 DEF IngestionFingerprint
  <2>2. CASE k # 0
    <3>1. k \in DOMAIN ingestion /\ ingestion'[k] = ingestion[k]
      BY <2>2 DEF StagingGrows
    <3>2. \A x \in IngestionCapabilities : ingestion[k][x] \in DOMAIN profile
      BY <3>1, Indexed1 DEF StagingTypeOK, Bundle
    <3>3. \A x \in IngestionCapabilities :
            snapshot'[profile'[ingestion'[k][x]].snapshot]
              = snapshot[profile[ingestion[k][x]].snapshot]
      BY <1>1, <3>1, <3>2
    <3> QED BY <2>2, <3>3 DEF IngestionFingerprint
  <2> QED BY <2>1, <2>2
<1> QED BY <1>2, <1>3 DEF Fingerprints

LEMMA RunTypes ==
  ASSUME NEW x \in Run
  PROVE  /\ x.suite \in DOMAIN revision
         /\ x.mode \in Modes
         /\ x.baseline \in DOMAIN query
         /\ x.candidate \in DOMAIN query
         /\ x.baselineIngestion \in DOMAIN ingestion \union {0}
         /\ x.candidateIngestion \in DOMAIN ingestion \union {0}
         /\ x.source \in Sources
         /\ DOMAIN x.source \subseteq Versions
         /\ x.status \in {"pending", "validated", "baseline", "completed", "failed"}
         /\ x.measured \in SUBSET Versions
         /\ x.missed \in SUBSET Versions
<1>1. x.source \in Sources
  BY DEF Run, Sources
<1>2. DOMAIN x.source \subseteq Versions
  BY <1>1 DEF Sources
<1> QED BY <1>1, <1>2 DEF Run

LEMMA RunWidened ==
  ASSUME Grows, NEW x \in Run
  PROVE  x \in Run'
<1>1. /\ DOMAIN revision \subseteq DOMAIN revision'
      /\ DOMAIN query \subseteq DOMAIN query'
      /\ DOMAIN ingestion \subseteq DOMAIN ingestion'
  BY DEF Grows, StagingGrows, RevisionsGrow
<1> QED BY <1>1 DEF Run

LEMMA LaunchFrame ==
  ASSUME StagingTypeOK, Grows, NEW x \in Run, LaunchInv(x)
  PROVE  LaunchInv(x)'
<1>1. QueryResolves(x.baseline)' /\ QueryResolves(x.candidate)'
  BY RunTypes, QueryResolvesFrame DEF LaunchInv, Grows
<1>2. Fingerprints(x.baseline, x.candidate, x.baselineIngestion, x.candidateIngestion)'
        = Fingerprints(x.baseline, x.candidate, x.baselineIngestion, x.candidateIngestion)
  BY RunTypes, FingerprintsFrame DEF Grows
<1>3. revision'[x.suite] = revision[x.suite]
  BY RunTypes DEF Grows, RevisionsGrow
<1>4. ASSUME NEW q \in DOMAIN query, NEW i \in DOMAIN ingestion, ReadsCohort(q, i)
      PROVE  ReadsCohort(q, i)'
  BY <1>4 DEF ReadsCohort, Grows, StagingGrows
<1>5. x.mode = "ingestion" => /\ ReadsCohort(x.candidate, x.baselineIngestion)'
                              /\ ReadsCohort(x.candidate, x.candidateIngestion)'
  BY <1>4, RunTypes DEF LaunchInv
<1> QED BY <1>1, <1>2, <1>3, <1>5 DEF LaunchInv

LEMMA MeasuredFrame ==
  ASSUME SuitesTypeOK, Grows, NEW x \in Run, LaunchInv(x), MeasuredInv(x)
  PROVE  MeasuredInv(x)'
<1>1. revision'[x.suite] = revision[x.suite] /\ revision[x.suite].corpus \subseteq Versions
  BY RunTypes, RevisionTypes DEF Grows, RevisionsGrow
<1>2. CASE x.mode = "ingestion"
  <2>1. CASE x.status \in {"validated", "baseline", "completed"}
    <3>1. \A w \in DOMAIN x.source :
            /\ w \in Versions /\ version[w] # Unknown
            /\ x.source[w] \in Versions /\ version[x.source[w]] # Unknown
            /\ version[w].text = version[x.source[w]].text
            /\ version[w].ingestion = x.candidateIngestion
      BY <1>1, <1>2, <2>1, RunTypes DEF LaunchInv, MeasuredInv
    <3>2. \A v \in revision[x.suite].corpus :
            /\ v \in Versions /\ version[v] # Unknown
            /\ version[v].ingestion = x.baselineIngestion
      BY <1>1, <1>2, <2>1 DEF MeasuredInv
    <3>3. \A w \in DOMAIN x.source :
            /\ version'[w] # Unknown
            /\ version'[w].text = version'[x.source[w]].text
            /\ version'[w].ingestion = x.candidateIngestion
      BY <3>1 DEF Grows, VersionsKeep
    <3>4. \A v \in revision'[x.suite].corpus :
            version'[v] # Unknown /\ version'[v].ingestion = x.baselineIngestion
      BY <1>1, <3>2 DEF Grows, VersionsKeep
    <3> QED BY <1>1, <1>2, <3>3, <3>4 DEF MeasuredInv, Unknown
  <2>2. CASE x.status \notin {"validated", "baseline", "completed"}
    BY <1>1, <1>2, <2>2 DEF MeasuredInv
  <2> QED BY <2>1, <2>2
<1>3. CASE x.mode # "ingestion"
  BY <1>3 DEF MeasuredInv
<1> QED BY <1>2, <1>3

LEMMA LaunchSessionFrame ==
  ASSUME StagingTypeOK, Grows, NEW s, LaunchSession(s)
  PROVE  LaunchSession(s)'
<1>1. CASE s.pc \in {"ingestion", "launch"}
  <2>1. s.query \in DOMAIN query /\ QueryResolves(s.query)
    BY <1>1 DEF LaunchSession
  <2>2. QueryResolves(s.query)'
    BY <2>1, QueryResolvesFrame DEF Grows
  <2>3. /\ DOMAIN revision \subseteq DOMAIN revision'
        /\ DOMAIN query \subseteq DOMAIN query'
        /\ DOMAIN ingestion \subseteq DOMAIN ingestion'
    BY DEF Grows, StagingGrows, RevisionsGrow
  <2> QED BY <1>1, <2>2, <2>3 DEF LaunchSession
<1>2. CASE s.pc \notin {"ingestion", "launch"}
  BY <1>2 DEF LaunchSession
<1> QED BY <1>1, <1>2

-----------------------------------------------------------------------------
(* The inductive invariant. *)

SessionInv(s) == StagingSession(s) /\ SuiteSession(s) /\ LaunchSession(s)

ActiveInv ==
  /\ active \in [ingestion : DOMAIN ingestion, query : DOMAIN query]
  /\ QueryResolves(active.query)

RunsInv ==
  /\ run \in Seq(Run)
  /\ \A r \in DOMAIN run : LaunchInv(run[r]) /\ MeasuredInv(run[r])

SessionsInv ==
  /\ session = [o \in Operators |-> session[o]]
  /\ \A o \in Operators : SessionInv(session[o])

PreparationInv ==
  /\ StagingInv
  /\ SuitesInv
  /\ ActiveInv
  /\ version \in [Versions -> Version]
  /\ RunsInv
  /\ SessionsInv
  /\ requests \in 0..MaxRequests

SessionStep(o) ==
  \E r : session' = [session EXCEPT ![o] = r] /\ SessionInv(r)'

LEMMA IdleSession == SessionInv(Idle)'
BY DEF SessionInv, Idle, StagingSession, SuiteSession, LaunchSession

LEMMA SessionFrame ==
  ASSUME StagingTypeOK, SuitesTypeOK, SuitesTypeOK', Grows, NEW s, SessionInv(s)
  PROVE  SessionInv(s)'
BY StagingSessionFrame, SuiteSessionFrame, LaunchSessionFrame DEF SessionInv, Grows

LEMMA SessionsStep ==
  ASSUME StagingTypeOK, SuitesTypeOK, SuitesTypeOK', Grows, SessionsInv,
         NEW o \in Operators, SessionStep(o)
  PROVE  SessionsInv'
<1>1. PICK r : session' = [session EXCEPT ![o] = r] /\ SessionInv(r)'
  BY DEF SessionStep
<1>2. /\ session' = [x \in Operators |-> session'[x]]
      /\ session'[o] = r
      /\ \A x \in Operators \ {o} : session'[x] = session[x]
  BY <1>1 DEF SessionsInv
<1>3. ASSUME NEW x \in Operators PROVE SessionInv(session[x])'
  <2>1. PICK s : s = session'[x]
    OBVIOUS
  <2>2. x # o => SessionInv(s)'
    BY <1>2, <2>1, SessionFrame DEF SessionsInv
  <2>3. SessionInv(s)'
    BY <1>1, <1>2, <2>1, <2>2
  <2> QED BY <2>1, <2>3
<1> QED BY <1>2, <1>3 DEF SessionsInv

LEMMA RunsFrame ==
  ASSUME StagingTypeOK, SuitesTypeOK, Grows, RunsInv, UNCHANGED run
  PROVE  RunsInv'
<1>1. \A r \in DOMAIN run : run[r] \in Run
  BY Indexed1 DEF RunsInv
<1>2. run' \in Seq(Run')
  <2>1. Run \subseteq Run'
    BY RunWidened
  <2> QED BY <2>1, Widened DEF RunsInv
<1>3. ASSUME NEW r \in DOMAIN run' PROVE (LaunchInv(run[r]) /\ MeasuredInv(run[r]))'
  <2>1. PICK x \in Run : x = run[r]
    BY <1>1
  <2>2. LaunchInv(x)' /\ MeasuredInv(x)'
    BY <2>1, LaunchFrame, MeasuredFrame DEF RunsInv
  <2> QED BY <2>1, <2>2
<1> QED BY <1>2, <1>3 DEF RunsInv

LEMMA ActiveFrame ==
  ASSUME StagingTypeOK, Grows, ActiveInv, UNCHANGED active
  PROVE  ActiveInv'
<1>1. PICK q \in DOMAIN query : q = active.query
  BY DEF ActiveInv
<1>2. QueryResolves(q)'
  BY <1>1, QueryResolvesFrame DEF ActiveInv, Grows
<1>3. DOMAIN query \subseteq DOMAIN query' /\ DOMAIN ingestion \subseteq DOMAIN ingestion'
  BY DEF Grows, StagingGrows
<1>4. active'.query = q
  BY <1>1
<1> QED BY <1>2, <1>3, <1>4 DEF ActiveInv

LEMMA StagingKept ==
  ASSUME StagingInv, UNCHANGED stagingVars
  PROVE  StagingInv' /\ StagingGrows
BY DEF stagingVars, StagingGrows, StagingInv, StagingTypeOK, SnapshotsDiffer,
       ProfilesInv, BundlesInv, QueryInv, IsMember, ContentOf

LEMMA SuitesKept ==
  ASSUME SuitesInv, UNCHANGED revision
  PROVE  SuitesInv' /\ RevisionsGrow
<1>1. RevisionsGrow /\ SuitesTypeOK' /\ RevisionsNumbered'
  BY DEF SuitesInv, RevisionsGrow, SuitesTypeOK, RevisionsNumbered
<1>2. \A suite : NumbersOf(suite)' = NumbersOf(suite) /\ CountOf(suite)' = CountOf(suite)
  BY DEF NumbersOf, CountOf, RowsOf
<1> QED BY <1>1, <1>2 DEF SuitesInv

LEMMA VersionsKept ==
  ASSUME version \in [Versions -> Version], StagingGrows, UNCHANGED version
  PROVE  version' \in [Versions -> Version'] /\ VersionsKeep
<1>1. DOMAIN ingestion \subseteq DOMAIN ingestion'
  BY DEF StagingGrows
<1> QED BY <1>1 DEF VersionsKeep, Version, Unknown

LEMMA VersionRow ==
  ASSUME NEW v \in Version, v # Unknown
  PROVE  v \in [status : {"current", "replaced"}, text : Texts, ingestion : DOMAIN ingestion]
BY DEF Version

LEMMA RequestsStep ==
  ASSUME requests \in 0..MaxRequests, NEW o, NEW r, Submit(o, r) \/ Proceed(o, r)
  PROVE  requests' \in 0..MaxRequests
BY RequestsAssumption DEF Submit, Proceed, MaySubmit

\* A request that leaves the runs and the active policies alone.
LEMMA RequestStep ==
  ASSUME PreparationInv, NEW o \in Operators, StagingInv', SuitesInv', Grows,
         version' \in [Versions -> Version'], UNCHANGED <<active, run>>,
         SessionStep(o), requests' \in 0..MaxRequests
  PROVE  PreparationInv'
<1>1. /\ StagingTypeOK /\ SuitesTypeOK /\ SuitesTypeOK'
      /\ RunsInv /\ ActiveInv /\ SessionsInv
  BY DEF PreparationInv, StagingInv, SuitesInv
<1>2. RunsInv' /\ ActiveInv' /\ SessionsInv'
  BY <1>1, RunsFrame, ActiveFrame, SessionsStep
<1> QED BY <1>2 DEF PreparationInv

LEMMA StagePreserves ==
  ASSUME PreparationInv, NEW o \in Operators, Stage(o), UNCHANGED <<revision, active, version, run>>
  PROVE  PreparationInv'
<1>1. /\ StagingInv' /\ StagingGrows
      /\ \E r : /\ session' = [session EXCEPT ![o] = r]
                /\ r.pc \in {"idle", "draft", "query"}
                /\ StagingSession(r)'
  BY StageStep DEF PreparationInv, SessionsInv, SessionInv
<1>2. SessionStep(o)
  <2>1. PICK r : /\ session' = [session EXCEPT ![o] = r]
                 /\ r.pc \in {"idle", "draft", "query"}
                 /\ StagingSession(r)'
    BY <1>1
  <2>2. SuiteSession(r)' /\ LaunchSession(r)'
    BY <2>1 DEF SuiteSession, LaunchSession
  <2>3. SessionInv(r)'
    BY <2>1, <2>2 DEF SessionInv
  <2> QED BY <2>1, <2>3 DEF SessionStep
<1>3. requests' \in 0..MaxRequests
  <2>1. \E r : Submit(o, r) \/ Proceed(o, r)
    BY DEF Stage, Draft, InsertDraft, Validate, SubmitBundle, BundleIngestion, BundleQuery,
           InsertQuery, Handle, Respond
  <2> QED BY <2>1, RequestsStep DEF PreparationInv
<1> QED BY <1>1, <1>2, <1>3, SuitesKept, VersionsKept, RequestStep DEF PreparationInv, Grows

LEMMA SaveSuitePreserves ==
  ASSUME PreparationInv, NEW o \in Operators, SaveSuite(o),
         UNCHANGED <<stagingVars, active, version, run>>
  PROVE  PreparationInv'
<1>0. StagingInv' /\ StagingGrows /\ version' \in [Versions -> Version'] /\ VersionsKeep
  BY StagingKept, VersionsKept DEF PreparationInv
<1>1. SuitesInv /\ SuiteSession(session[o]) /\ requests \in 0..MaxRequests
  BY DEF PreparationInv, SessionsInv, SessionInv
<1>2. ASSUME UNCHANGED revision,
             \E r : /\ session' = [session EXCEPT ![o] = r]
                    /\ r.pc \in {"number", "insert"}
                    /\ SuiteSession(r),
             requests' \in 0..MaxRequests
      PROVE  PreparationInv'
  <2>1. PICK r : /\ session' = [session EXCEPT ![o] = r]
                 /\ r.pc \in {"number", "insert"}
                 /\ SuiteSession(r)
    BY <1>2
  <2>2. SuitesInv' /\ RevisionsGrow
    BY <1>1, <1>2, SuitesKept
  <2>3. SuiteSession(r)'
    BY <1>1, <2>1, <2>2, SuiteSessionFrame DEF SuitesInv
  <2>4. StagingSession(r)' /\ LaunchSession(r)'
    BY <2>1 DEF StagingSession, LaunchSession
  <2>5. SessionStep(o)
    BY <2>1, <2>3, <2>4 DEF SessionStep, SessionInv
  <2> QED BY <1>0, <1>2, <2>2, <2>5, RequestStep DEF Grows
<1>3. ASSUME NEW suite \in Suites, NEW base \in Nat, NEW corpus \in SUBSET Versions,
             NEW case \in Cases,
             base # 0 => base \in DOMAIN revision /\ revision[base].suite = suite,
             Save(o, suite, base, corpus, case)
      PROVE  PreparationInv'
  <2>1. \E r : /\ session' = [session EXCEPT ![o] = r]
               /\ r.pc = "number"
               /\ SuiteSession(r)
    BY <1>1, <1>3, SaveStep
  <2>2. requests' \in 0..MaxRequests
    BY <1>1, <1>3, RequestsStep DEF Save
  <2>3. UNCHANGED revision
    BY <1>3 DEF Save
  <2> QED BY <1>2, <2>1, <2>2, <2>3
<1>4. CASE \E corpus \in SUBSET Versions, case \in Cases, s \in Suites :
             SubmitSuite(o, s, corpus, case)
  BY <1>3, <1>4 DEF SubmitSuite
<1>5. CASE \E corpus \in SUBSET Versions, case \in Cases, b \in DOMAIN revision :
             SubmitEdit(o, b, corpus, case)
  <2>1. PICK corpus \in SUBSET Versions, case \in Cases, b \in DOMAIN revision :
          SubmitEdit(o, b, corpus, case)
    BY <1>5
  <2>2. b \in Nat /\ revision[b].suite \in Suites
    BY <1>1, RevisionTypes DEF SuitesInv
  <2> QED BY <1>3, <2>1, <2>2 DEF SubmitEdit
<1>6. CASE ReadNumber(o)
  <2>1. UNCHANGED revision /\ requests' \in 0..MaxRequests
    BY <1>1, <1>6, RequestsStep DEF ReadNumber
  <2> QED BY <1>1, <1>2, <1>6, <2>1, ReadNumberStep
<1>7. CASE InsertRevision(o)
  <2>1. SuitesInv' /\ RevisionsGrow /\ session' = [session EXCEPT ![o] = Idle]
    BY <1>1, <1>7, InsertRevisionStep
  <2>2. SessionStep(o)
    BY <2>1, IdleSession DEF SessionStep
  <2>3. requests' \in 0..MaxRequests
    BY <1>1, <1>7, RequestsStep DEF InsertRevision, Respond
  <2> QED BY <1>0, <2>1, <2>2, <2>3, RequestStep DEF Grows
<1> QED BY <1>4, <1>5, <1>6, <1>7 DEF SaveSuite

LEMMA VersionStep ==
  ASSUME PreparationInv, NEW o \in Operators, NEW v \in Versions, NEW row \in Version,
         row # Unknown,
         version[v] # Unknown =>
           row.text = version[v].text /\ row.ingestion = version[v].ingestion,
         version' = [version EXCEPT ![v] = row],
         Handle(o), UNCHANGED <<stagingVars, revision, active, run>>
  PROVE  PreparationInv'
<1>1. StagingInv' /\ StagingGrows /\ SuitesInv' /\ RevisionsGrow
  BY StagingKept, SuitesKept DEF PreparationInv
<1>2. Version' = Version
  BY DEF Version, Unknown, stagingVars
<1>3. version' \in [Versions -> Version'] /\ VersionsKeep
  BY <1>2 DEF PreparationInv, VersionsKeep, Unknown
<1>4. SessionStep(o)
  BY IdleSession DEF SessionStep, Handle, Submit
<1>5. requests' \in 0..MaxRequests
  BY RequestsStep DEF Handle, PreparationInv
<1> QED BY <1>1, <1>3, <1>4, <1>5, RequestStep DEF Grows

LEMMA UploadPreserves ==
  ASSUME PreparationInv, NEW o \in Operators, NEW v \in Versions, NEW t \in Texts,
         NEW i \in DOMAIN ingestion, Upload(o, v, t, i)
  PROVE  PreparationInv'
<1> DEFINE row == [status |-> "current", text |-> t, ingestion |-> i]
<1>1. row \in Version /\ row # Unknown
  BY DEF Version, Unknown
<1>2. /\ version[v] = Unknown
      /\ version' = [version EXCEPT ![v] = row]
      /\ Handle(o) /\ UNCHANGED <<stagingVars, revision, active, run>>
  BY DEF Upload
<1> HIDE DEF row
<1> QED BY <1>1, <1>2, VersionStep

LEMMA ReplacePreserves ==
  ASSUME PreparationInv, NEW o \in Operators, NEW v \in Versions,
         Replace(o, v) \/ Restore(o, v)
  PROVE  PreparationInv'
<1>1. PICK status \in {"current", "replaced"} :
        /\ version[v].status \in {"current", "replaced"}
        /\ version' = [version EXCEPT ![v].status = status]
        /\ Handle(o) /\ UNCHANGED <<stagingVars, revision, active, run>>
  BY DEF Replace, Restore
<1> DEFINE row == [version[v] EXCEPT !.status = status]
<1>2. version[v] # Unknown
  BY <1>1 DEF Unknown
<1>3. version[v] \in [status : {"current", "replaced"}, text : Texts,
                      ingestion : DOMAIN ingestion]
  BY <1>2, VersionRow DEF PreparationInv
<1>4. /\ row \in Version /\ row # Unknown
      /\ row.text = version[v].text /\ row.ingestion = version[v].ingestion
  BY <1>3 DEF Version, Unknown
<1>5. version' = [version EXCEPT ![v] = row]
  BY <1>1
<1> HIDE DEF row
<1> QED BY <1>1, <1>4, <1>5, VersionStep

LEMMA SwitchPreserves ==
  ASSUME PreparationInv, NEW o \in Operators,
         active' \in [ingestion : DOMAIN ingestion, query : DOMAIN query],
         QueryResolves(active'.query),
         Handle(o), UNCHANGED <<stagingVars, revision, version, run>>
  PROVE  PreparationInv'
<1>1. /\ StagingInv' /\ StagingGrows /\ SuitesInv' /\ RevisionsGrow
      /\ version' \in [Versions -> Version'] /\ VersionsKeep
  BY StagingKept, SuitesKept, VersionsKept DEF PreparationInv
<1>2. SessionStep(o)
  BY IdleSession DEF SessionStep, Handle, Submit
<1>3. requests' \in 0..MaxRequests
  BY RequestsStep DEF Handle, PreparationInv
<1>4. ActiveInv'
  <2>1. PICK q \in DOMAIN query : q = active'.query
    OBVIOUS
  <2>2. QueryResolves(q)'
    BY <1>1, <2>1, QueryResolvesFrame DEF PreparationInv, StagingInv
  <2> QED BY <2>1, <2>2 DEF ActiveInv, stagingVars
<1>5. RunsInv' /\ SessionsInv'
  BY <1>1, <1>2, RunsFrame, SessionsStep DEF PreparationInv, StagingInv, SuitesInv, Grows
<1> QED BY <1>1, <1>3, <1>4, <1>5 DEF PreparationInv

LEMMA SwitchesPreserve ==
  ASSUME PreparationInv, NEW o \in Operators,
         \/ \E i \in DOMAIN ingestion : SwitchIngestion(o, i)
         \/ \E q \in DOMAIN query : SwitchQuery(o, q)
  PROVE  PreparationInv'
<1>1. /\ StagingInv
      /\ active \in [ingestion : DOMAIN ingestion, query : DOMAIN query]
      /\ QueryResolves(active.query)
  BY DEF PreparationInv, ActiveInv
<1>2. CASE \E i \in DOMAIN ingestion : SwitchIngestion(o, i)
  <2>1. PICK i \in DOMAIN ingestion : SwitchIngestion(o, i)
    BY <1>2
  <2>2. active' \in [ingestion : DOMAIN ingestion, query : DOMAIN query]
        /\ active'.query = active.query
    BY <1>1, <2>1 DEF SwitchIngestion
  <2> QED BY <1>1, <2>1, <2>2, SwitchPreserves DEF SwitchIngestion
<1>3. CASE \E q \in DOMAIN query : SwitchQuery(o, q)
  <2>1. PICK q \in DOMAIN query : SwitchQuery(o, q)
    BY <1>3
  <2>2. active' \in [ingestion : DOMAIN ingestion, query : DOMAIN query]
        /\ active'.query = q
    BY <1>1, <2>1 DEF SwitchQuery
  <2>3. QueryResolves(q)
    BY <1>1, <2>1, SupportedResolves DEF SwitchQuery
  <2> QED BY <2>1, <2>2, <2>3, SwitchPreserves DEF SwitchQuery
<1> QED BY <1>2, <1>3

\* A request that reads and leaves every table alone.
LEMMA ReadingPreserves ==
  ASSUME PreparationInv, NEW o \in Operators, NEW r, LaunchSession(r),
         r.pc \in {"idle", "ingestion", "launch"}, Submit(o, r) \/ Proceed(o, r),
         UNCHANGED <<stagingVars, revision, active, version, run>>
  PROVE  PreparationInv'
<1>1. /\ StagingInv' /\ StagingGrows /\ SuitesInv' /\ RevisionsGrow
      /\ version' \in [Versions -> Version'] /\ VersionsKeep
  BY StagingKept, SuitesKept, VersionsKept DEF PreparationInv
<1>2. LaunchSession(r)'
  BY <1>1, LaunchSessionFrame DEF Grows, PreparationInv, StagingInv
<1>3. StagingSession(r)' /\ SuiteSession(r)'
  BY DEF StagingSession, SuiteSession
<1>4. SessionStep(o)
  BY <1>2, <1>3 DEF SessionStep, SessionInv, Submit, Proceed
<1>5. requests' \in 0..MaxRequests
  BY RequestsStep DEF PreparationInv
<1> QED BY <1>1, <1>4, <1>5, RequestStep DEF Grows

LEMMA SelectedResolves ==
  ASSUME StagingInv, NEW q \in Selectable
  PROVE  q \in DOMAIN query /\ QueryResolves(q)
BY SelectableResolves DEF Selectable

LEMMA SubmitLaunchPreserves ==
  ASSUME PreparationInv, NEW o \in Operators, NEW s \in DOMAIN revision,
         NEW q \in DOMAIN query, SubmitLaunch(o, s, q)
  PROVE  PreparationInv'
<1>1. StagingInv /\ revision[s].corpus \subseteq Versions
  BY RevisionTypes DEF PreparationInv, SuitesInv
<1>2. CASE LaunchQuery(o, s, q)
  <2> DEFINE source == Identity(revision[s].corpus)
             r == [pc |-> "ingestion", mode |-> "query", suite |-> s, query |-> q,
                   ingestion |-> 0, source |-> source,
                   copies |-> Cardinality(revision[s].corpus)]
  <2>1. Submit(o, r) /\ UNCHANGED <<stagingVars, revision, active, version, run>>
    BY <1>2 DEF LaunchQuery
  <2>2. QueryResolves(q)
    BY <1>1, <1>2, SelectedResolves DEF LaunchQuery
  <2>3. source \in [revision[s].corpus -> Versions]
    BY <1>1 DEF Identity
  <2>4. source \in Sources
    BY <1>1, <2>3 DEF Sources
  <2> HIDE DEF source
  <2>5. LaunchSession(r) /\ r.pc = "ingestion"
    BY <2>2, <2>4 DEF LaunchSession, Modes
  <2> QED BY <2>1, <2>5, ReadingPreserves
<1>3. CASE \E i \in DOMAIN ingestion, copied \in SUBSET Versions \ {{}} :
             \E copy \in [copied -> Versions] : LaunchIngestion(o, s, q, i, copy)
  <2>1. PICK i \in DOMAIN ingestion, copied \in SUBSET Versions \ {{}} :
          \E copy \in [copied -> Versions] : LaunchIngestion(o, s, q, i, copy)
    BY <1>3
  <2>2. PICK copy \in [copied -> Versions] : LaunchIngestion(o, s, q, i, copy)
    BY <2>1
  <2>3. PICK source \in [Range(copy) -> DOMAIN copy] :
          /\ \A c \in Range(copy) : copy[source[c]] = c
          /\ Submit(o, [pc |-> "ingestion", mode |-> "ingestion", suite |-> s,
                        query |-> q, ingestion |-> i, source |-> source,
                        copies |-> Cardinality(DOMAIN copy)])
    BY <2>2 DEF LaunchIngestion
  <2> DEFINE r == [pc |-> "ingestion", mode |-> "ingestion", suite |-> s,
                   query |-> q, ingestion |-> i, source |-> source,
                   copies |-> Cardinality(DOMAIN copy)]
  <2>4. Range(copy) \subseteq Versions /\ source \in [Range(copy) -> Versions]
    BY DEF Range
  <2>5. source \in Sources
    BY <2>4 DEF Sources
  <2>6. \A w, x \in DOMAIN source : source[w] = source[x] => w = x
    BY <2>3
  <2>7. QueryResolves(q)
    BY <1>1, <2>2, SelectedResolves DEF LaunchIngestion
  <2>8. i # 0
    BY DEF PreparationInv, StagingInv, StagingTypeOK
  <2>9. LaunchSession(r) /\ r.pc = "ingestion"
    BY <2>5, <2>6, <2>7, <2>8 DEF LaunchSession, Modes
  <2> QED BY <2>2, <2>3, <2>9, ReadingPreserves DEF LaunchIngestion
<1> QED BY <1>2, <1>3 DEF SubmitLaunch

LEMMA ReadActivePreserves ==
  ASSUME PreparationInv, NEW o \in Operators, ReadActiveIngestion(o)
  PROVE  PreparationInv'
<1>1. PICK s : s = session[o]
  OBVIOUS
<1>2. LaunchSession(s) /\ s.pc = "ingestion"
  BY <1>1 DEF PreparationInv, SessionsInv, SessionInv, ReadActiveIngestion
<1>3. active.ingestion \in DOMAIN ingestion /\ active.ingestion # 0
  BY DEF PreparationInv, ActiveInv, StagingInv, StagingTypeOK
<1>4. PICK j : j = IF s.mode = "query" THEN 0 ELSE active.ingestion
  OBVIOUS
<1> DEFINE r == [pc |-> "launch", mode |-> s.mode, suite |-> s.suite,
                 query |-> s.query, ingestion |-> s.ingestion, source |-> s.source,
                 copies |-> s.copies, baselineIngestion |-> j]
<1>5. Proceed(o, r) /\ UNCHANGED <<stagingVars, revision, active, version, run>>
  BY <1>1, <1>4 DEF ReadActiveIngestion
<1>6. LaunchSession(r) /\ r.pc = "launch"
  BY <1>2, <1>3, <1>4 DEF LaunchSession
<1> QED BY <1>5, <1>6, ReadingPreserves

LEMMA RefusePreserves ==
  ASSUME PreparationInv, NEW o \in Operators, Refuse(o)
  PROVE  PreparationInv'
<1>1. Proceed(o, Idle) /\ UNCHANGED <<stagingVars, revision, active, version, run>>
  BY DEF Refuse, RollBack, Respond
<1>2. LaunchSession(Idle) /\ Idle.pc = "idle"
  BY DEF LaunchSession, Idle
<1> QED BY <1>1, <1>2, ReadingPreserves

LEMMA InsertRunPreserves ==
  ASSUME PreparationInv, NEW o \in Operators, InsertRun(o)
  PROVE  PreparationInv'
<1>1. PICK s, b : s = session[o] /\ b = active.query
  OBVIOUS
<1>2. /\ LaunchSession(s) /\ s.pc = "launch"
      /\ b \in DOMAIN query /\ QueryResolves(b)
      /\ StagingTypeOK
  BY <1>1 DEF PreparationInv, SessionsInv, SessionInv, InsertRun, ActiveInv, StagingInv
<1>3. /\ s.mode \in Modes /\ s.suite \in DOMAIN revision
      /\ s.query \in DOMAIN query /\ QueryResolves(s.query)
      /\ s.ingestion \in DOMAIN ingestion \union {0}
      /\ s.baselineIngestion \in DOMAIN ingestion \union {0}
      /\ s.source \in Sources
      /\ s.mode = "ingestion" =>
           /\ s.ingestion # 0 /\ s.baselineIngestion # 0
           /\ \A w, x \in DOMAIN s.source : s.source[w] = s.source[x] => w = x
  BY <1>2 DEF LaunchSession
<1>4. PICK prints : prints = Fingerprints(b, s.query, s.baselineIngestion, s.ingestion)
  OBVIOUS
<1> DEFINE row == [suite |-> s.suite, mode |-> s.mode,
                   baseline |-> b, candidate |-> s.query,
                   baselineIngestion |-> s.baselineIngestion,
                   candidateIngestion |-> s.ingestion,
                   source |-> s.source, fingerprints |-> prints,
                   status |-> "pending", measured |-> {}, missed |-> {}]
<1>5. /\ run' = Append(run, row)
      /\ Proceed(o, Idle)
      /\ UNCHANGED <<stagingVars, revision, active, version>>
      /\ s.mode = "ingestion" =>
           /\ s.query = b
           /\ CorporaPaired(revision[s.suite].corpus, s.source, s.copies)
           /\ ReadsBoth(s.query, s.baselineIngestion, s.ingestion)
  BY <1>1, <1>4 DEF InsertRun, Respond
<1>6. prints \in [baseline : SUBSET Snapshot, candidate : SUBSET Snapshot,
                  baselineIngestion : SUBSET Snapshot,
                  candidateIngestion : SUBSET Snapshot]
  BY <1>2, <1>3, <1>4, FingerprintTypes
<1>7. row \in Run
  BY <1>2, <1>3, <1>6 DEF Run, Sources
<1>8. LaunchInv(row)
  <2>1. ASSUME row.mode = "ingestion"
        PROVE  /\ \A v \in revision[s.suite].corpus : \E w \in DOMAIN s.source :
                    \A y \in DOMAIN s.source : s.source[y] = v <=> y = w
               /\ \A w \in DOMAIN s.source : s.source[w] \in revision[s.suite].corpus
               /\ DOMAIN s.source \intersect revision[s.suite].corpus = {}
               /\ ReadsCohort(s.query, s.baselineIngestion)
               /\ ReadsCohort(s.query, s.ingestion)
    <3>1. {s.source[w] : w \in DOMAIN s.source} = revision[s.suite].corpus
      BY <1>5, <2>1 DEF CorporaPaired, Range
    <3>2. \A v \in revision[s.suite].corpus : \E w \in DOMAIN s.source : s.source[w] = v
      BY <3>1
    <3> QED BY <1>3, <1>5, <2>1, <3>1, <3>2 DEF CorporaPaired, ReadsBoth
  <2> QED BY <1>2, <1>3, <1>4, <1>5, <2>1 DEF LaunchInv
<1>9. MeasuredInv(row)
  BY DEF MeasuredInv
<1>10. /\ StagingInv' /\ StagingGrows /\ SuitesInv' /\ RevisionsGrow
       /\ version' \in [Versions -> Version'] /\ VersionsKeep
  BY <1>5, StagingKept, SuitesKept, VersionsKept DEF PreparationInv
<1>11. PICK x : x = row
  OBVIOUS
<1> HIDE DEF row
<1>12. Grows /\ SuitesTypeOK /\ SuitesTypeOK'
  BY <1>10 DEF Grows, PreparationInv, SuitesInv
<1>13. x \in Run' /\ LaunchInv(x)' /\ MeasuredInv(x)'
  BY <1>2, <1>7, <1>8, <1>9, <1>11, <1>12, RunWidened, LaunchFrame, MeasuredFrame
<1>14. RunsInv'
  <2>1. run \in Seq(Run')
    <3>1. Run \subseteq Run'
      BY <1>12, RunWidened
    <3> QED BY <3>1, Widened DEF PreparationInv, RunsInv
  <2>2. PICK n : n = Len(run) + 1
    OBVIOUS
  <2>3. /\ run' \in Seq(Run')
        /\ DOMAIN run' = DOMAIN run \union {n}
        /\ \A r \in DOMAIN run : run'[r] = run[r]
        /\ run'[n] = x
    BY <1>5, <1>11, <1>13, <2>1, <2>2, Appended
  <2>4. ASSUME NEW r \in DOMAIN run' PROVE (LaunchInv(run[r]) /\ MeasuredInv(run[r]))'
    <3>1. PICK y : y = run'[r]
      OBVIOUS
    <3>2. CASE r = n
      BY <1>13, <2>3, <3>1, <3>2
    <3>3. CASE r \in DOMAIN run
      <4>1. y = run[r] /\ y \in Run /\ LaunchInv(y) /\ MeasuredInv(y)
        BY <2>3, <3>1, <3>3, Indexed1 DEF PreparationInv, RunsInv
      <4>2. LaunchInv(y)' /\ MeasuredInv(y)'
        BY <1>2, <1>12, <4>1, LaunchFrame, MeasuredFrame
      <4> QED BY <3>1, <4>2
    <3> QED BY <2>3, <3>2, <3>3
  <2> QED BY <2>3, <2>4 DEF RunsInv
<1>15. SessionsInv'
  <2>1. SessionStep(o)
    BY <1>5, IdleSession DEF SessionStep, Proceed
  <2> QED BY <1>2, <1>12, <2>1, SessionsStep DEF PreparationInv
<1>16. ActiveInv'
  BY <1>2, <1>5, <1>12, ActiveFrame DEF PreparationInv
<1>17. requests' \in 0..MaxRequests
  BY <1>5, RequestsStep DEF PreparationInv
<1> QED BY <1>10, <1>14, <1>15, <1>16, <1>17 DEF PreparationInv

LEMMA OperatePreserves ==
  ASSUME PreparationInv, NEW o \in Operators, Operate(o)
  PROVE  PreparationInv'
BY StagePreserves, SaveSuitePreserves, UploadPreserves, ReplacePreserves,
   SwitchesPreserve, SubmitLaunchPreserves, ReadActivePreserves,
   InsertRunPreserves, RefusePreserves DEF Operate

-----------------------------------------------------------------------------
(* The worker. *)

\* The run r goes on as x, and nothing else changes.
LEMMA RunStep ==
  ASSUME PreparationInv, NEW r \in DOMAIN run, NEW x \in Run,
         run' = [run EXCEPT ![r] = x], LaunchInv(x), MeasuredInv(x),
         UNCHANGED <<panelVars, stagingVars, revision, active, version>>
  PROVE  PreparationInv'
<1>1. /\ StagingInv' /\ StagingGrows /\ SuitesInv' /\ RevisionsGrow
      /\ version' \in [Versions -> Version'] /\ VersionsKeep
  BY StagingKept, SuitesKept, VersionsKept DEF PreparationInv
<1>2. /\ Grows /\ SuitesTypeOK /\ SuitesTypeOK' /\ StagingTypeOK
      /\ RunsInv /\ ActiveInv /\ SessionsInv
  BY <1>1 DEF Grows, PreparationInv, SuitesInv, StagingInv
<1>3. RunsInv'
  <2>1. /\ run' \in Seq(Run)
        /\ DOMAIN run' = DOMAIN run
        /\ run'[r] = x
        /\ \A y \in DOMAIN run \ {r} : run'[y] = run[y]
    BY <1>2 DEF RunsInv
  <2>2. run' \in Seq(Run')
    <3>1. Run \subseteq Run'
      BY <1>2, RunWidened
    <3> QED BY <2>1, <3>1, Widened
  <2>3. ASSUME NEW k \in DOMAIN run' PROVE (LaunchInv(run[k]) /\ MeasuredInv(run[k]))'
    <3>1. PICK y : y = run'[k]
      OBVIOUS
    <3>2. y \in Run /\ LaunchInv(y) /\ MeasuredInv(y)
      BY <1>2, <2>1, <3>1, Indexed1 DEF RunsInv
    <3>3. LaunchInv(y)' /\ MeasuredInv(y)'
      BY <1>2, <3>2, LaunchFrame, MeasuredFrame
    <3> QED BY <3>1, <3>3
  <2> QED BY <2>2, <2>3 DEF RunsInv
<1>4. ActiveInv'
  BY <1>2, ActiveFrame
<1>5. SessionsInv'
  <2>1. session' = session
    BY DEF panelVars
  <2>2. ASSUME NEW o \in Operators PROVE SessionInv(session[o])'
    <3>1. PICK s : s = session[o] /\ s = session'[o]
      BY <2>1
    <3>2. SessionInv(s)'
      BY <1>2, <3>1, SessionFrame DEF SessionsInv
    <3> QED BY <3>1, <3>2
  <2> QED BY <1>2, <2>1, <2>2 DEF SessionsInv
<1> QED BY <1>1, <1>3, <1>4, <1>5 DEF PreparationInv, panelVars

LEMMA EvaluatePreserves ==
  ASSUME PreparationInv, NEW r \in DOMAIN run, Evaluate(r)
  PROVE  PreparationInv'
<1>1. PICK x \in Run : x = run[r] /\ LaunchInv(x) /\ MeasuredInv(x)
  BY Indexed1 DEF PreparationInv, RunsInv
<1>2. UNCHANGED <<panelVars, stagingVars, revision, active, version>>
  BY DEF Evaluate
<1>3. revision[x.suite].corpus \subseteq Versions /\ DOMAIN x.source \subseteq Versions
  BY <1>1, RunTypes, RevisionTypes DEF PreparationInv, SuitesInv
<1>4. \A v \in Versions : version[v] # Unknown => version[v].status \in {"current", "replaced"}
  BY VersionRow DEF PreparationInv
<1>5. ASSUME NEW status \in {"validated", "failed"},
             run' = [run EXCEPT ![r].status = status],
             MeasuredInv([x EXCEPT !.status = status])
      PROVE  PreparationInv'
  <2> DEFINE y == [x EXCEPT !.status = status]
  <2>1. y \in Run
    BY DEF Run
  <2>2. LaunchInv(y)
    BY <1>1, <2>1 DEF LaunchInv, Run
  <2>3. run' = [run EXCEPT ![r] = y] /\ MeasuredInv(y)
    BY <1>1, <1>5
  <2> HIDE DEF y
  <2> QED BY <1>2, <2>1, <2>2, <2>3, RunStep
<1>6. CASE ValidateCorpus(r)
  <2>1. /\ x.status = "pending"
        /\ \A v \in revision[x.suite].corpus : Indexed(v, x.baselineIngestion)
        /\ \A w \in DOMAIN x.source :
             Indexed(w, x.candidateIngestion) /\ SameText(w, x.source[w])
        /\ run' = [run EXCEPT ![r].status = "validated"]
    BY <1>1, <1>6 DEF ValidateCorpus, CorpusIsValid, Originals
  <2>2. \A v, i : Indexed(v, i) => version[v] # Unknown /\ (i # 0 => version[v].ingestion = i)
    BY DEF Indexed, Unknown
  <2> DEFINE y == [x EXCEPT !.status = "validated"]
  <2>3. /\ y.mode = x.mode /\ y.source = x.source /\ y.suite = x.suite
        /\ y.baselineIngestion = x.baselineIngestion
        /\ y.candidateIngestion = x.candidateIngestion
        /\ y.measured = x.measured /\ y.missed = x.missed
        /\ y.status = "validated"
    BY DEF Run
  <2> HIDE DEF y
  <2>4. MeasuredInv(y)
    BY <1>1, <2>1, <2>2, <2>3 DEF MeasuredInv, LaunchInv, SameText
  <2> QED BY <1>5, <2>1, <2>4 DEF y
<1>7. ASSUME NEW corpus \in SUBSET Versions, NEW q, NEW status \in {"baseline", "completed"},
             Measure(r, corpus, q, status),
             x.mode = "ingestion" =>
               /\ x.status \in {"validated", "baseline"}
               /\ \A v \in corpus : version[v] # Unknown /\ ReadsCohort(q, version[v].ingestion)
               /\ (x.measured \union x.missed) \intersect corpus = {}
               /\ x.measured \union x.missed \union corpus =
                    IF status = "baseline" THEN revision[x.suite].corpus
                    ELSE revision[x.suite].corpus \union DOMAIN x.source
      PROVE  PreparationInv'
  <2> DEFINE found == {v \in corpus : Searchable(q, v)}
             lost == {v \in corpus : version[v].status = "replaced"}
             y == [x EXCEPT !.status = status, !.measured = @ \union found,
                            !.missed = @ \union lost]
  <2>1. run' = [run EXCEPT ![r] = y]
    BY <1>1, <1>7 DEF Measure
  <2>2. /\ y.mode = x.mode /\ y.source = x.source /\ y.suite = x.suite
        /\ y.baselineIngestion = x.baselineIngestion
        /\ y.candidateIngestion = x.candidateIngestion
        /\ y.baseline = x.baseline /\ y.candidate = x.candidate
        /\ y.fingerprints = x.fingerprints
        /\ y.measured = x.measured \union found /\ y.missed = x.missed \union lost
        /\ y.status = status
    BY DEF Run
  <2>3. y \in Run
    BY <1>7 DEF Run
  <2> HIDE DEF y
  <2>4. LaunchInv(y)
    BY <1>1, <2>2 DEF LaunchInv
  <2>5. x.mode = "ingestion" => found \union lost = corpus /\ found \intersect lost = {}
    BY <1>4, <1>7 DEF Searchable
  <2>6. MeasuredInv(y)
    <3> HIDE DEF found, lost
    <3>1. CASE x.mode = "ingestion"
      <4>1. y.measured \union y.missed = (x.measured \union x.missed) \union corpus
        BY <2>2, <2>5, <3>1
      <4>2. y.measured \intersect y.missed = {}
        BY <1>1, <1>7, <2>2, <2>5, <3>1 DEF MeasuredInv
      <4> QED BY <1>1, <1>7, <2>2, <3>1, <4>1, <4>2 DEF MeasuredInv
    <3>2. CASE x.mode # "ingestion"
      BY <2>2, <3>2 DEF MeasuredInv
    <3> QED BY <3>1, <3>2
  <2> QED BY <1>2, <2>1, <2>3, <2>4, <2>6, RunStep
<1>8. CASE MeasureBaseline(r)
  <2>1. x.status = "validated" /\ Measure(r, revision[x.suite].corpus, x.baseline, "baseline")
    BY <1>1, <1>8 DEF MeasureBaseline, Originals
  <2> QED BY <1>1, <1>3, <1>7, <2>1 DEF LaunchInv, MeasuredInv
<1>9. CASE MeasureCandidate(r)
  <2>1. x.status = "baseline" /\ Measure(r, DOMAIN x.source, x.candidate, "completed")
    BY <1>1, <1>9 DEF MeasureCandidate
  <2> QED BY <1>1, <1>3, <1>7, <2>1 DEF LaunchInv, MeasuredInv
<1>10. CASE FailRun(r)
  <2>1. run' = [run EXCEPT ![r].status = "failed"]
    BY <1>10 DEF FailRun
  <2>2. MeasuredInv([x EXCEPT !.status = "failed"])
    BY <1>1 DEF MeasuredInv, Run
  <2> QED BY <1>5, <2>1, <2>2
<1> QED BY <1>6, <1>8, <1>9, <1>10 DEF Evaluate

-----------------------------------------------------------------------------
(* Theorems. *)

LEMMA PreparationStarts == Init => PreparationInv
<1> SUFFICES ASSUME Init PROVE PreparationInv
  OBVIOUS
<1>1. StagingInv /\ QueryResolves(2) /\ DOMAIN ingestion = {1} /\ DOMAIN query = {1, 2}
  BY StagingStarts DEF Init
<1>2. SuitesInv
  BY FS_EmptySet DEF Init, SuitesInit, SuitesInv, SuitesTypeOK, RevisionsNumbered,
                     NumbersOf, CountOf, RowsOf
<1>3. ActiveInv
  BY <1>1 DEF Init, ActiveInv
<1>4. version \in [Versions -> Version]
  BY DEF Init, Version
<1>5. RunsInv
  BY DEF Init, RunsInv
<1>6. SessionsInv
  BY DEF Init, NoRequests, SessionsInv, SessionInv, StagingSession, SuiteSession,
         LaunchSession, Idle
<1> QED BY <1>1, <1>2, <1>3, <1>4, <1>5, <1>6, RequestsAssumption
        DEF PreparationInv, Init, NoRequests

\* The tables refer to each other's rows as requests and runs have found them.
THEOREM PreparationInvariant == Spec => []PreparationInv
<1>1. PreparationInv /\ [Next]_vars => PreparationInv'
  <2> SUFFICES ASSUME PreparationInv, [Next]_vars PROVE PreparationInv'
    OBVIOUS
  <2>1. CASE Next
    BY <2>1, OperatePreserves, EvaluatePreserves DEF Next
  <2>2. CASE UNCHANGED vars
    <3>1. /\ StagingInv' /\ StagingGrows /\ SuitesInv' /\ RevisionsGrow
          /\ version' \in [Versions -> Version'] /\ VersionsKeep
      BY <2>2, StagingKept, SuitesKept, VersionsKept DEF PreparationInv, vars
    <3>2. Grows /\ SuitesTypeOK /\ SuitesTypeOK' /\ StagingTypeOK
      BY <3>1 DEF Grows, PreparationInv, SuitesInv, StagingInv
    <3>3. ActiveInv' /\ RunsInv'
      BY <2>2, <3>2, ActiveFrame, RunsFrame DEF PreparationInv, vars
    <3>4. ASSUME NEW o \in Operators PROVE SessionInv(session[o])'
      <4>1. PICK s : s = session[o] /\ s = session'[o]
        BY <2>2 DEF vars, panelVars
      <4>2. SessionInv(s)'
        BY <3>2, <4>1, SessionFrame DEF PreparationInv, SessionsInv
      <4> QED BY <4>1, <4>2
    <3>5. SessionsInv' /\ requests' \in 0..MaxRequests
      BY <2>2, <3>4 DEF PreparationInv, SessionsInv, vars, panelVars
    <3> QED BY <3>1, <3>3, <3>5 DEF PreparationInv
  <2> QED BY <2>1, <2>2
<1> QED BY <1>1, PreparationStarts, PTL DEF Spec

\* Every table keeps its types and refers to existing rows only.
THEOREM TypeCorrect == Spec => []TypeOK
<1>1. PreparationInv => TypeOK
  BY DEF PreparationInv, StagingInv, SuitesInv, ActiveInv, RunsInv, TypeOK
<1> QED BY <1>1, PreparationInvariant, PTL

\* Revisions of a suite are numbered without gaps although the number is read
\* without a lock: the unique constraint lets only the next one in.
THEOREM RevisionsStayNumbered == Spec => []RevisionsNumbered
<1>1. PreparationInv => RevisionsNumbered
  BY DEF PreparationInv, SuitesInv
<1> QED BY <1>1, PreparationInvariant, PTL

\* Every run's bundles resolve, to what was fingerprinted at its launch.
THEOREM LaunchesResolve == Spec => []LaunchedRunsResolve
<1>1. PreparationInv => LaunchedRunsResolve
  BY DEF PreparationInv, RunsInv, LaunchInv, LaunchedRunsResolve
<1> QED BY <1>1, PreparationInvariant, PTL

\* Every ingestion comparison pairs its corpora and is read through one bundle.
THEOREM ComparisonsStayPaired == Spec => []ComparisonsArePaired
<1>1. PreparationInv => ComparisonsArePaired
  BY DEF PreparationInv, RunsInv, LaunchInv, ComparisonsArePaired, Originals
<1> QED BY <1>1, PreparationInvariant, PTL

\* What a completed comparison measured differs in the ingestion policy alone.
THEOREM ComparisonsAreFair == Spec => []ComparedLikeWithLike
<1>1. PreparationInv => ComparedLikeWithLike
  <2> SUFFICES ASSUME PreparationInv, NEW r \in DOMAIN run, run[r].mode = "ingestion",
                      run[r].status = "completed"
               PROVE  /\ \A w \in DOMAIN run[r].source :
                           /\ version[w].text = version[run[r].source[w]].text
                           /\ version[w].ingestion = run[r].candidateIngestion
                      /\ \A v \in Originals(r) :
                           version[v].ingestion = run[r].baselineIngestion
                      /\ Originals(r) \union DOMAIN run[r].source
                           = run[r].measured \union run[r].missed
                      /\ run[r].measured \intersect run[r].missed = {}
                      /\ \A v \in revision[run[r].suite].case.relevant :
                           /\ v \in run[r].measured \union run[r].missed
                           /\ \E w \in run[r].measured \union run[r].missed :
                                w \in DOMAIN run[r].source /\ run[r].source[w] = v
    BY DEF ComparedLikeWithLike
  <2>1. PICK x \in Run : x = run[r] /\ LaunchInv(x) /\ MeasuredInv(x)
    BY Indexed1 DEF PreparationInv, RunsInv
  <2>2. Originals(r) = revision[x.suite].corpus
    BY <2>1 DEF Originals
  <2>3. revision[x.suite].case.relevant \subseteq revision[x.suite].corpus
    BY RunTypes DEF PreparationInv, SuitesInv, WellLabelled
  <2>4. /\ \A w \in DOMAIN x.source :
             /\ version[w].text = version[x.source[w]].text
             /\ version[w].ingestion = x.candidateIngestion
        /\ \A v \in revision[x.suite].corpus : version[v].ingestion = x.baselineIngestion
        /\ revision[x.suite].corpus \union DOMAIN x.source = x.measured \union x.missed
        /\ x.measured \intersect x.missed = {}
    BY <2>1 DEF MeasuredInv
  <2>5. \A v \in revision[x.suite].corpus : \E w \in DOMAIN x.source : x.source[w] = v
    BY <2>1 DEF LaunchInv
  <2>6. \A v \in revision[x.suite].case.relevant :
          /\ v \in x.measured \union x.missed
          /\ \E w \in x.measured \union x.missed :
               w \in DOMAIN x.source /\ x.source[w] = v
    BY <2>3, <2>4, <2>5
  <2> QED BY <2>1, <2>2, <2>4, <2>6
<1> QED BY <1>1, PreparationInvariant, PTL

\* With a credential for Mistral every bundle the panel offers is resolved to
\* configurations the deployment supports.
THEOREM StagedBundlesStaySound == Spec => [](MistralAvailable => StagedBundlesAreSound)
<1>1. PreparationInv => (MistralAvailable => StagedBundlesAreSound)
  <2> SUFFICES ASSUME PreparationInv, MistralAvailable PROVE StagedBundlesAreSound
    OBVIOUS
  <2>1. /\ StagingInv /\ SnapshotsDiffer
        /\ \A i \in DOMAIN ingestion : \A c \in IngestionCapabilities :
             IsMember(ingestion[i][c], c)
        /\ \A q \in DOMAIN query : QueryInv(q)
    BY DEF PreparationInv, StagingInv, BundlesInv
  <2>2. ASSUME NEW p \in DOMAIN profile, profile[p].status = "validated"
        PROVE  /\ Resolves(p, profile[p].capability)
               /\ Deployed(profile[p].capability, ContentOf(p))
    BY <2>1, <2>2, MembersResolve DEF StagingInv, ProfilesInv
  <2>3. ASSUME NEW i \in DOMAIN ingestion
        PROVE  /\ IngestionResolves(i)
               /\ \A c \in IngestionCapabilities : Deployed(c, ContentOf(ingestion[i][c]))
    <3>1. ASSUME NEW c \in IngestionCapabilities
          PROVE  /\ Resolves(ingestion[i][c], c)
                 /\ Deployed(c, ContentOf(ingestion[i][c]))
      BY <2>1, <2>2 DEF IsMember
    <3> QED BY <3>1 DEF IngestionResolves, IngestionCapabilities
  <2>4. ASSUME NEW q \in Selectable
        PROVE  /\ QueryResolves(q)
               /\ \A p \in {query[q].reranking, query[q].generation}
                           \union query[q].lexical \union query[q].embedding :
                    Deployed(profile[p].capability, ContentOf(p))
    <3>1. q \in DOMAIN query /\ QueryInv(q) /\ QueryResolves(q)
      BY <2>1, SelectedResolves DEF Selectable
    <3>2. /\ profile[query[q].reranking].status = "validated"
          /\ profile[query[q].generation].status = "validated"
          /\ query[q].reranking \in DOMAIN profile
          /\ query[q].generation \in DOMAIN profile
      BY <2>1, <3>1, QueryTypes, ProfileTypes DEF QueryInv, Selectable, StagingInv
    <3>3. \A p \in query[q].lexical \union query[q].embedding :
            p \in DOMAIN profile /\ profile[p].status = "validated"
      BY <3>1 DEF QueryInv, IsMember
    <3> QED BY <2>2, <3>1, <3>2, <3>3
  <2> QED BY <2>1, <2>3, <2>4 DEF SnapshotsDiffer, StagedBundlesAreSound
<1> QED BY <1>1, PreparationInvariant, PTL

=============================================================================
