------------------------ MODULE DocumentVersionsProofs ------------------------
(***************************************************************************)
(* Theorems about DocumentVersions for every set of documents, uploads,    *)
(* activations and users.                                                  *)
(*                                                                         *)
(* Rows only grow: a version keeps its document and its number, and a      *)
(* ready one stays ready.  The number an upload has read stays the next    *)
(* one because the upload holds the document's row lock; a new document    *)
(* needs no lock, as no other request knows its identifier.                *)
(***************************************************************************)
EXTENDS DocumentVersions, FiniteSetTheorems, TLAPS

UploadStates ==
  {"idle", "authorized", "locked", "numbered", "committed", "not_found", "failed"}

Statuses == {"absent", "stored", "processing", "ready", "failed"}

\* What an upload knows, by how far it has come.
UploadInv(v) ==
  LET u == upload[v] IN
  /\ u.pc # "committed" => version[v] = NoRow
  /\ u.pc \in {"authorized", "locked", "numbered"} =>
       u.actor \in Users /\ u.doc \in Documents /\ MayIngest(u.actor)
  /\ u.pc = "authorized" /\ IsNewDocument(v) =>
       /\ tenant[u.doc] = None
       /\ \A w \in Versions \ {v} : upload[w].doc # u.doc
  /\ u.pc = "authorized" /\ ~IsNewDocument(v) => tenant[u.doc] # None
  /\ u.pc \in {"locked", "numbered"} =>
       /\ holder[u.doc] = v
       /\ tenant[u.doc] # None
       /\ CanLockDocument(u.actor, u.doc)
  /\ u.pc = "numbered" =>
       \A d \in Documents : u.doc = d => u.number = Cardinality(VersionsOf(d)) + 1

\* What an activation has checked, which nothing takes back.
ActivationInv(a) ==
  LET x == activation[a] IN
  /\ x.pc # "idle" =>
       /\ x.doc \in Documents
       /\ x.candidate \in Versions
       /\ \E u \in Users : IsAdmin(u) /\ tenant[x.doc] = TenantOf[u]
  /\ x.pc = "verified" => Eligible(x.candidate, x.doc)

\* Absent rows have no document, versions have one with a row, and the
\* versions of a document are numbered from one.
RowsInv ==
  /\ \A v \in Versions : version[v].status = "absent" <=> version[v].doc = None
  /\ \A d \in Documents :
       /\ tenant[d] = None => VersionsOf(d) = {}
       /\ IsFiniteSet(VersionsOf(d))
       /\ NumbersOf(d) = 1..Cardinality(VersionsOf(d))

LibraryInv ==
  /\ TypeOK
  /\ RowsInv
  /\ \A v \in Versions : UploadInv(v)
  /\ \A a \in Activations : ActivationInv(a)
  /\ CurrentIsReady

-----------------------------------------------------------------------------
(* The next number. *)

LEMMA MaxOfInterval ==
  ASSUME NEW n \in Nat
  PROVE  Max((1..n) \union {0}) = n
<1>1. \A x \in (1..n) \union {0} : n >= x
  OBVIOUS
<1>2. n \in (1..n) \union {0}
  OBVIOUS
<1>3. \A x \in (1..n) \union {0} :
        (\A y \in (1..n) \union {0} : x >= y) => x = n
  BY <1>2
<1> QED BY <1>1, <1>2, <1>3 DEF Max

LEMMA NextNumber ==
  ASSUME RowsInv, NEW d \in Documents
  PROVE  /\ Cardinality(VersionsOf(d)) \in Nat
         /\ NextVersionNumber(d) = Cardinality(VersionsOf(d)) + 1
         /\ NextVersionNumber(d) \notin NumbersOf(d)
<1> DEFINE n == Cardinality(VersionsOf(d))
<1>1. n \in Nat
  BY FS_CardinalityType DEF RowsInv
<1>2. NumbersOf(d) = 1..n
  BY DEF RowsInv
<1>3. NextVersionNumber(d) = n + 1
  BY <1>1, <1>2, MaxOfInterval DEF NextVersionNumber
<1> QED BY <1>1, <1>2, <1>3

-----------------------------------------------------------------------------
(* Documents whose versions a step leaves alone, or adds one to. *)

KeepsVersions ==
  \A v \in Versions : /\ version'[v].doc = version[v].doc
                      /\ version'[v].number = version[v].number

LEMMA KeptNumbers ==
  ASSUME NEW d,
         \A v \in Versions :
           \/ version'[v].doc = version[v].doc /\ version'[v].number = version[v].number
           \/ version'[v].doc # d /\ version[v].doc # d
  PROVE  VersionsOf(d)' = VersionsOf(d) /\ NumbersOf(d)' = NumbersOf(d)
<1>1. VersionsOf(d)' = VersionsOf(d)
  BY DEF VersionsOf
<1>2. \A v \in VersionsOf(d) : version'[v].number = version[v].number
  BY DEF VersionsOf
<1> QED BY <1>1, <1>2 DEF NumbersOf

\* Version v appears as a version of document d, with the next number.
Adds(v, d) ==
  /\ v \notin VersionsOf(d)
  /\ version' = [version EXCEPT ![v] = Stored(d, Cardinality(VersionsOf(d)) + 1)]

LEMMA AddedVersion ==
  ASSUME TypeOK, RowsInv, NEW v \in Versions, NEW d \in Documents, Adds(v, d)
  PROVE  /\ VersionsOf(d)' = VersionsOf(d) \union {v}
         /\ IsFiniteSet(VersionsOf(d)')
         /\ NumbersOf(d)' = 1..Cardinality(VersionsOf(d)')
<1> DEFINE n == Cardinality(VersionsOf(d))
<1>1. version'[v] = Stored(d, n + 1) /\ \A w \in Versions \ {v} : version'[w] = version[w]
  BY DEF TypeOK, Adds
<1>2. VersionsOf(d)' = VersionsOf(d) \union {v}
  BY <1>1 DEF VersionsOf, Stored
<1>3. IsFiniteSet(VersionsOf(d)) /\ n \in Nat
  BY NextNumber DEF RowsInv
<1>4. IsFiniteSet(VersionsOf(d)') /\ Cardinality(VersionsOf(d)') = n + 1
  BY <1>2, <1>3, FS_AddElement DEF Adds
<1>5. NumbersOf(d)' = NumbersOf(d) \union {n + 1}
  <2>1. \A w \in VersionsOf(d) : version'[w].number = version[w].number
    BY <1>1 DEF VersionsOf, Adds
  <2>2. version'[v].number = n + 1
    BY <1>1 DEF Stored
  <2> QED BY <1>2, <2>1, <2>2 DEF NumbersOf
<1>6. NumbersOf(d) = 1..n
  BY DEF RowsInv
<1>7. NumbersOf(d)' = 1..n + 1
  BY <1>3, <1>5, <1>6
<1> QED BY <1>2, <1>4, <1>7

-----------------------------------------------------------------------------
(* Types. *)

LEMMA UploadTypes ==
  ASSUME TypeOK, NEW v \in Versions
  PROVE  /\ upload[v].pc \in UploadStates
         /\ upload[v].actor \in Users \union {None}
         /\ upload[v].doc \in Documents \union {None}
         /\ upload[v].departments \in SUBSET Departments
         /\ upload[v].number \in Nat
         /\ version[v].doc \in Documents \union {None}
         /\ version[v].number \in Nat
         /\ version[v].status \in Statuses
         /\ version[v] = [doc |-> version[v].doc, number |-> version[v].number,
                          status |-> version[v].status]
BY DEF TypeOK, UploadStates, Statuses

VersionRow ==
  [doc : Documents \union {None}, number : Nat, status : Statuses]

UploadRow ==
  [pc : UploadStates, actor : Users \union {None}, doc : Documents \union {None},
   departments : SUBSET Departments, number : Nat]

ActivationRow ==
  [pc : {"idle", "locked", "verified"}, doc : Documents \union {None},
   candidate : Versions \union {None}]

LEMMA Rows ==
  TypeOK => /\ version \in [Versions -> VersionRow]
            /\ upload \in [Versions -> UploadRow]
            /\ activation \in [Activations -> ActivationRow]
BY DEF TypeOK, VersionRow, UploadRow, ActivationRow, UploadStates, Statuses

LEMMA RowsPrime ==
  ASSUME membership' \in [Users -> SUBSET Departments],
         tenant' \in [Documents -> Tenants \union {None}],
         assigned' \in [Documents -> SUBSET Departments],
         version' \in [Versions -> VersionRow],
         current' \in [Documents -> Versions \union {None}],
         holder' \in [Documents -> Versions \union Activations \union {None}],
         upload' \in [Versions -> UploadRow],
         activation' \in [Activations -> ActivationRow],
         TypeOK, UNCHANGED listing
  PROVE  TypeOK'
BY DEF TypeOK, VersionRow, UploadRow, ActivationRow, UploadStates, Statuses

LEMMA StatusUpdate ==
  ASSUME TypeOK, NEW v \in Versions, NEW s \in Statuses
  PROVE  [version EXCEPT ![v].status = s] \in [Versions -> VersionRow]
<1>1. [version[v] EXCEPT !.status = s] \in VersionRow
  BY Rows DEF VersionRow
<1> QED BY <1>1, Rows

LEMMA PcUpdate ==
  ASSUME TypeOK, NEW v \in Versions, NEW p \in UploadStates
  PROVE  [upload EXCEPT ![v].pc = p] \in [Versions -> UploadRow]
<1>1. [upload[v] EXCEPT !.pc = p] \in UploadRow
  BY Rows DEF UploadRow
<1> QED BY <1>1, Rows

LEMMA StoredIsRow ==
  ASSUME NEW d \in Documents \union {None}, NEW n \in Nat
  PROVE  Stored(d, n) \in VersionRow
BY DEF Stored, VersionRow, Statuses

LEMMA InitType == Init => TypeOK
BY IdentityAssumption
   DEF Init, TypeOK, NoRow, NoUpload, NoActivation, NoListing

LEMMA BeginType ==
  ASSUME TypeOK, NEW v \in Versions, NEW u \in Users, NEW d \in Documents,
         \/ \E departments \in SUBSET Departments : BeginDocument(v, u, d, departments)
         \/ BeginReplacement(v, u, d)
  PROVE  TypeOK'
<1>1. PICK departments \in SUBSET Departments :
        upload' = [upload EXCEPT ![v] = [pc |-> "authorized", actor |-> u, doc |-> d,
                                         departments |-> departments, number |-> 0]]
  BY DEF BeginDocument, BeginReplacement
<1>2. [pc |-> "authorized", actor |-> u, doc |-> d, departments |-> departments,
       number |-> 0] \in UploadRow
  BY DEF UploadRow, UploadStates
<1>3. upload' \in [Versions -> UploadRow]
  BY <1>1, <1>2, Rows
<1>4. UNCHANGED <<rows, holder, activation, listing>>
  BY DEF BeginDocument, BeginReplacement
<1> QED BY <1>3, <1>4, Rows, RowsPrime DEF rows, TypeOK

LEMMA UploadStepType ==
  ASSUME TypeOK, NEW v \in Versions, UploadInv(v), RowsInv, UploadStep(v)
  PROVE  TypeOK'
<1>0. TypeOK!1 /\ TypeOK!2 /\ TypeOK!3 /\ TypeOK!5 /\ TypeOK!6
  BY DEF TypeOK
<1>1. CASE CreateDocument(v)
  <2>1. upload[v].doc \in Documents /\ upload[v].actor \in Users
    BY <1>1 DEF CreateDocument, UploadInv
  <2>2. TenantOf[upload[v].actor] \in Tenants
    BY <2>1, IdentityAssumption
  <2>3. upload' \in [Versions -> UploadRow]
    BY <1>1, PcUpdate DEF CreateDocument, UploadStates
  <2>4. version' \in [Versions -> VersionRow]
    BY <1>1, <2>1, Rows, StoredIsRow DEF CreateDocument
  <2>5. /\ tenant' \in [Documents -> Tenants \union {None}]
        /\ assigned' \in [Documents -> SUBSET Departments]
    BY <1>0, <1>1, <2>1, <2>2, UploadTypes DEF CreateDocument
  <2> QED BY <1>0, <1>1, <2>3, <2>4, <2>5, Rows, RowsPrime DEF CreateDocument
<1>2. CASE LockDocument(v)
  <2>1. upload' \in [Versions -> UploadRow]
    BY <1>2, PcUpdate DEF LockDocument, UploadStates
  <2>2. holder' \in [Documents -> Versions \union Activations \union {None}]
    BY <1>0, <1>2 DEF LockDocument
  <2> QED BY <1>0, <1>2, <2>1, <2>2, Rows, RowsPrime DEF LockDocument, rows
<1>3. CASE DocumentNotFound(v)
  <2>1. upload' \in [Versions -> UploadRow]
    BY <1>3, PcUpdate DEF DocumentNotFound, UploadStates
  <2> QED BY <1>0, <1>3, <2>1, Rows, RowsPrime DEF DocumentNotFound, rows
<1>4. CASE ReadNextNumber(v)
  <2>1. upload[v].doc \in Documents
    BY <1>4 DEF ReadNextNumber, UploadInv
  <2>2. PICK n \in Nat : n = NextVersionNumber(upload[v].doc)
    BY <2>1, NextNumber
  <2>3. [upload[v] EXCEPT !.pc = "numbered", !.number = n] \in UploadRow
    BY Rows DEF UploadRow, UploadStates
  <2>4. upload' = [upload EXCEPT ![v] = [upload[v] EXCEPT !.pc = "numbered", !.number = n]]
    BY <1>4, <2>2 DEF ReadNextNumber
  <2>5. upload' \in [Versions -> UploadRow]
    BY <2>3, <2>4, Rows
  <2> QED BY <1>0, <1>4, <2>5, Rows, RowsPrime DEF ReadNextNumber, rows
<1>5. CASE CommitVersion(v)
  <2>1. upload' \in [Versions -> UploadRow]
    BY <1>5, PcUpdate DEF CommitVersion, UploadStates
  <2>2. version' \in [Versions -> VersionRow]
    BY <1>5, UploadTypes, Rows, StoredIsRow DEF CommitVersion
  <2>3. holder' \in [Documents -> Versions \union Activations \union {None}]
    BY <1>0, <1>5 DEF CommitVersion
  <2> QED BY <1>0, <1>5, <2>1, <2>2, <2>3, Rows, RowsPrime DEF CommitVersion
<1> QED BY <1>1, <1>2, <1>3, <1>4, <1>5 DEF UploadStep

LEMMA WorkerType ==
  ASSUME TypeOK, NEW v \in Versions,
         AbortUpload(v) \/ StartProcessing(v) \/ FinishProcessing(v) \/ FailProcessing(v)
  PROVE  TypeOK'
<1>0. TypeOK!1 /\ TypeOK!2 /\ TypeOK!3 /\ TypeOK!5 /\ TypeOK!6
  BY DEF TypeOK
<1>1. CASE AbortUpload(v)
  <2>1. upload' \in [Versions -> UploadRow]
    BY <1>1, PcUpdate DEF AbortUpload, UploadStates
  <2>2. holder' \in [Documents -> Versions \union Activations \union {None}]
    BY <1>0, <1>1 DEF AbortUpload
  <2> QED BY <1>0, <1>1, <2>1, <2>2, Rows, RowsPrime DEF AbortUpload, rows
<1>2. CASE StartProcessing(v) \/ FinishProcessing(v) \/ FailProcessing(v)
  <2>1. version' \in [Versions -> VersionRow]
    BY <1>2, StatusUpdate
       DEF StartProcessing, FinishProcessing, FailProcessing, SetStatus, Statuses
  <2>2. UNCHANGED <<membership, tenant, assigned, current, holder, upload,
                    activation, listing>>
    BY <1>2 DEF StartProcessing, FinishProcessing, FailProcessing, SetStatus
  <2> QED BY <1>0, <2>1, <2>2, Rows, RowsPrime
<1> QED BY <1>1, <1>2

LEMMA ActivationType ==
  ASSUME TypeOK, NEW a \in Activations, ActivationInv(a),
         \/ \E u \in Users, d \in Documents, v \in Versions :
              LockForActivation(a, u, d, v)
         \/ VerifyCandidate(a) \/ RejectCandidate(a)
         \/ CommitActivation(a) \/ AbortActivation(a)
  PROVE  TypeOK'
<1>0. TypeOK!1 /\ TypeOK!2 /\ TypeOK!3 /\ TypeOK!5 /\ TypeOK!6
  BY DEF TypeOK
<1>1. CASE \E u \in Users, d \in Documents, v \in Versions :
             LockForActivation(a, u, d, v)
  <2>1. PICK u \in Users, d \in Documents, v \in Versions : LockForActivation(a, u, d, v)
    BY <1>1
  <2>2. [pc |-> "locked", doc |-> d, candidate |-> v] \in ActivationRow
    BY DEF ActivationRow
  <2>3. activation' \in [Activations -> ActivationRow]
    BY <2>1, <2>2, Rows DEF LockForActivation
  <2>4. holder' \in [Documents -> Versions \union Activations \union {None}]
    BY <1>0, <2>1 DEF LockForActivation
  <2> QED BY <1>0, <2>1, <2>3, <2>4, Rows, RowsPrime DEF LockForActivation, rows
<1>2. CASE VerifyCandidate(a)
  <2>1. [activation[a] EXCEPT !.pc = "verified"] \in ActivationRow
    BY Rows DEF ActivationRow
  <2>2. activation' \in [Activations -> ActivationRow]
    BY <1>2, <2>1, Rows DEF VerifyCandidate
  <2> QED BY <1>0, <1>2, <2>2, Rows, RowsPrime DEF VerifyCandidate, rows
<1>3. CASE RejectCandidate(a) \/ AbortActivation(a) \/ CommitActivation(a)
  <2>1. NoActivation \in ActivationRow
    BY DEF NoActivation, ActivationRow
  <2>2. /\ activation' \in [Activations -> ActivationRow]
        /\ holder' \in [Documents -> Versions \union Activations \union {None}]
    BY <1>0, <1>3, <2>1, Rows
       DEF RejectCandidate, AbortActivation, CommitActivation, Release
  <2>3. current' \in [Documents -> Versions \union {None}]
    BY <1>0, <1>3
       DEF RejectCandidate, AbortActivation, CommitActivation, ActivationInv, rows
  <2>4. UNCHANGED <<membership, tenant, assigned, version, upload, listing>>
    BY <1>3 DEF RejectCandidate, AbortActivation, CommitActivation, rows
  <2> QED BY <1>0, <2>2, <2>3, <2>4, Rows, RowsPrime
<1> QED BY <1>1, <1>2, <1>3

ListingRow ==
  [pc : {"idle", "documents", "latest", "shown"},
   actor : Users \union {None}, shown : SUBSET Documents,
   pointer : [Documents -> Versions \union {None}],
   latest : SUBSET Versions, listed : SUBSET Versions,
   listedReady : SUBSET Versions]

LEMMA ListingPrime ==
  ASSUME TypeOK, UNCHANGED <<rows, holder, upload, activation>>, listing' \in ListingRow
  PROVE  TypeOK'
BY DEF TypeOK, ListingRow, rows

LEMMA ReadType ==
  ASSUME TypeOK,
         \/ \E u \in Readers : ListDocuments(u)
         \/ ListLatest \/ ListHistory \/ EndListing
         \/ \E u \in Users, x \in Departments : RevokeMembership(u, x)
  PROVE  TypeOK'
<1>1. CASE \E u \in Readers : ListDocuments(u)
  <2>1. PICK u \in Readers : ListDocuments(u)
    BY <1>1
  <2>2. u \in Users
    BY RequestsAssumption
  <2> DEFINE shown == {d \in Documents : CanReadDocument(u, d)}
             pointer == [d \in Documents |-> IF CanReadDocument(u, d) THEN current[d]
                                             ELSE None]
  <2>3. shown \in SUBSET Documents /\ pointer \in [Documents -> Versions \union {None}]
    BY DEF TypeOK
  <2>4. listing' = [pc |-> "documents", actor |-> u, shown |-> shown,
                    pointer |-> pointer, latest |-> {}, listed |-> {},
                    listedReady |-> {}]
    BY <2>1 DEF ListDocuments, NoListing
  <2> HIDE DEF shown, pointer
  <2>5. listing' \in ListingRow
    BY <2>2, <2>3, <2>4 DEF ListingRow
  <2>6. UNCHANGED <<rows, holder, upload, activation>>
    BY <2>1 DEF ListDocuments
  <2> QED BY <2>5, <2>6, ListingPrime
<1>2. CASE ListLatest
  BY <1>2 DEF TypeOK, ListLatest, Newest, Listed, rows
<1>3. CASE ListHistory
  BY <1>3 DEF TypeOK, ListHistory, Listed, rows
<1>4. CASE EndListing
  BY <1>4 DEF TypeOK, EndListing, NoListing, rows
<1>5. CASE \E u \in Users, x \in Departments : RevokeMembership(u, x)
  BY <1>5 DEF TypeOK, RevokeMembership
<1> QED BY <1>1, <1>2, <1>3, <1>4, <1>5

LEMMA TypeStep ==
  ASSUME LibraryInv, Next
  PROVE  TypeOK'
BY BeginType, UploadStepType, WorkerType, ActivationType, ReadType
   DEF Next, LibraryInv

-----------------------------------------------------------------------------
(* What a step leaves as it was: rows only grow. *)

\* No document loses its tenant and no eligible version its eligibility.
Grows ==
  /\ \A d \in Documents : tenant[d] # None => tenant'[d] = tenant[d]
  /\ \A v \in Versions, d \in Documents : Eligible(v, d) => Eligible(v, d)'

LEMMA UploadGrows ==
  ASSUME TypeOK, NEW v \in Versions, UploadInv(v), UploadStep(v)
  PROVE  Grows
<1>1. upload[v].doc \in Documents \union {None}
  BY UploadTypes
<1>2. version[v] = NoRow
  BY DEF UploadInv, UploadStep, CreateDocument, LockDocument, DocumentNotFound,
         ReadNextNumber, CommitVersion
<1>3. /\ version' = version \/ \E r : version' = [version EXCEPT ![v] = r]
      /\ tenant' = tenant \/ CreateDocument(v)
  BY DEF UploadStep, CreateDocument, LockDocument, DocumentNotFound,
         ReadNextNumber, CommitVersion, rows
<1>4. \A w \in Versions, d \in Documents : Eligible(w, d) => Eligible(w, d)'
  BY <1>2, <1>3 DEF Eligible, TypeOK, NoRow
<1>5. \A d \in Documents : tenant[d] # None => tenant'[d] = tenant[d]
  BY <1>3 DEF CreateDocument, UploadInv, TypeOK
<1> QED BY <1>4, <1>5 DEF Grows

LEMMA StepGrows ==
  ASSUME LibraryInv, [Next]_vars
  PROVE  Grows
<1> USE DEF LibraryInv
<1>1. CASE \E v \in Versions : UploadStep(v)
  BY <1>1, UploadGrows
<1>2. CASE \E v \in Versions : StartProcessing(v) \/ FinishProcessing(v) \/ FailProcessing(v)
  BY <1>2
     DEF Grows, StartProcessing, FinishProcessing, FailProcessing, SetStatus,
         Eligible, TypeOK
<1>3. CASE UNCHANGED <<tenant, version>>
  BY <1>3 DEF Grows, Eligible
<1>4. \/ \E v \in Versions : UploadStep(v)
      \/ \E v \in Versions : StartProcessing(v) \/ FinishProcessing(v) \/ FailProcessing(v)
      \/ UNCHANGED <<tenant, version>>
  BY DEF Next, BeginDocument, BeginReplacement, AbortUpload, LockForActivation,
         VerifyCandidate, RejectCandidate, CommitActivation, AbortActivation,
         ListDocuments, ListLatest, ListHistory, EndListing, RevokeMembership,
         vars, rows
<1> QED BY <1>1, <1>2, <1>3, <1>4

LEMMA AdminTenant ==
  ASSUME NEW u \in Users
  PROVE  TenantOf[u] \in Tenants /\ TenantOf[u] # None
BY IdentityAssumption

\* The activations that do not move keep what they have checked.
LEMMA ActivationFrame ==
  ASSUME TypeOK, Grows, NEW a \in Activations, ActivationInv(a),
         activation'[a] = activation[a]
  PROVE  ActivationInv(a)'
<1>1. CASE activation[a].pc = "idle"
  BY <1>1 DEF ActivationInv
<1>2. CASE activation[a].pc # "idle"
  <2>1. PICK d \in Documents, v \in Versions :
          d = activation[a].doc /\ v = activation[a].candidate
    BY <1>2 DEF ActivationInv
  <2>2. PICK u \in Users : IsAdmin(u) /\ tenant[d] = TenantOf[u]
    BY <1>2, <2>1 DEF ActivationInv
  <2>3. tenant'[d] = TenantOf[u]
    BY <2>2, AdminTenant DEF Grows
  <2>4. activation[a].pc = "verified" => Eligible(v, d)'
    BY <2>1 DEF ActivationInv, Grows
  <2> QED BY <2>1, <2>2, <2>3, <2>4 DEF ActivationInv, IsAdmin, Eligible
<1> QED BY <1>1, <1>2

LEMMA ActivationStep ==
  ASSUME LibraryInv, Next, Grows, NEW a \in Activations
  PROVE  ActivationInv(a)'
<1> USE DEF LibraryInv
<1>1. CASE activation'[a] = activation[a]
  BY <1>1, ActivationFrame
<1>2. CASE activation'[a] # activation[a]
  <2>1. \/ \E u \in Users, d \in Documents, v \in Versions : LockForActivation(a, u, d, v)
        \/ VerifyCandidate(a)
        \/ RejectCandidate(a) \/ CommitActivation(a) \/ AbortActivation(a)
    <3>1. PICK b \in Activations :
            \/ \E u \in Users, d \in Documents, v \in Versions : LockForActivation(b, u, d, v)
            \/ VerifyCandidate(b)
            \/ RejectCandidate(b) \/ CommitActivation(b) \/ AbortActivation(b)
      BY <1>2
         DEF Next, BeginDocument, BeginReplacement, UploadStep, CreateDocument,
             LockDocument, DocumentNotFound, ReadNextNumber, CommitVersion,
             AbortUpload, StartProcessing, FinishProcessing, FailProcessing,
             SetStatus, ListDocuments, ListLatest, ListHistory, EndListing,
             RevokeMembership
    <3>2. \E r : activation' = [activation EXCEPT ![b] = r]
      BY <3>1
         DEF LockForActivation, VerifyCandidate, RejectCandidate, CommitActivation,
             AbortActivation, Release
    <3>3. a = b
      BY <1>2, <3>2 DEF TypeOK
    <3> QED BY <3>1, <3>3
  <2>2. CASE \E u \in Users, d \in Documents, v \in Versions : LockForActivation(a, u, d, v)
    BY <2>2
       DEF LockForActivation, ActivationInv, TypeOK, CanLockDocument, IsAdmin, rows
  <2>3. CASE VerifyCandidate(a)
    BY <2>3 DEF VerifyCandidate, ActivationInv, TypeOK, Eligible, IsAdmin, rows
  <2>4. CASE RejectCandidate(a) \/ CommitActivation(a) \/ AbortActivation(a)
    <3>1. activation'[a] = NoActivation
      BY <2>4
         DEF RejectCandidate, CommitActivation, AbortActivation, Release, TypeOK
    <3> QED BY <3>1 DEF ActivationInv, NoActivation
  <2> QED BY <2>1, <2>2, <2>3, <2>4
<1> QED BY <1>1, <1>2

\* Only an eligible version becomes current.
LEMMA CurrentStep ==
  ASSUME LibraryInv, Next, Grows
  PROVE  CurrentIsReady'
<1> USE DEF LibraryInv
<1>1. CASE \E a \in Activations : CommitActivation(a)
  <2>1. PICK a \in Activations : CommitActivation(a)
    BY <1>1
  <2> DEFINE d == activation[a].doc
             v == activation[a].candidate
  <2>2. d \in Documents /\ v \in Versions /\ Eligible(v, d)
    BY <2>1 DEF CommitActivation, ActivationInv
  <2>3. current' = [current EXCEPT ![d] = v] /\ version' = version
    BY <2>1 DEF CommitActivation
  <2> HIDE DEF d, v
  <2> QED BY <2>2, <2>3 DEF CurrentIsReady, Eligible, TypeOK
<1>2. CASE UNCHANGED current
  BY <1>2 DEF CurrentIsReady, Grows, Eligible, TypeOK
<1>3. \/ \E a \in Activations : CommitActivation(a)
      \/ UNCHANGED current
  BY DEF Next, BeginDocument, BeginReplacement, UploadStep, CreateDocument,
         LockDocument, DocumentNotFound, ReadNextNumber, CommitVersion,
         AbortUpload, StartProcessing, FinishProcessing, FailProcessing, SetStatus,
         LockForActivation, VerifyCandidate, RejectCandidate, AbortActivation,
         ListDocuments, ListLatest, ListHistory, EndListing, RevokeMembership, rows
<1> QED BY <1>1, <1>2, <1>3

-----------------------------------------------------------------------------
(* Uploads. *)

\* What an upload that does not move relies on.
UploadKept(w) ==
  /\ upload'[w] = upload[w]
  /\ version[w] = NoRow => version'[w] = NoRow
  /\ \A d \in Documents : holder[d] = w => holder'[d] = w
  /\ upload[w].pc = "numbered" =>
       \A d \in Documents : upload[w].doc = d => VersionsOf(d)' = VersionsOf(d)
  /\ upload[w].pc = "authorized" /\ IsNewDocument(w) =>
       /\ tenant'[upload[w].doc] = None
       /\ \A x \in Versions \ {w} : upload'[x].doc # upload[w].doc

LEMMA UploadFrame ==
  ASSUME Grows, NEW w \in Versions, UploadInv(w), UploadKept(w)
  PROVE  UploadInv(w)'
<1>1. PICK r : r = upload[w] /\ r = upload'[w]
  BY DEF UploadKept
<1>3. r.pc # "committed" => version'[w] = NoRow
  BY <1>1 DEF UploadInv, UploadKept
<1>4. r.pc \in {"authorized", "locked", "numbered"} =>
        r.actor \in Users /\ r.doc \in Documents /\ MayIngest(r.actor)
  BY <1>1 DEF UploadInv
<1>5. r.pc = "authorized" /\ r.departments # {} =>
        /\ tenant'[r.doc] = None
        /\ \A x \in Versions \ {w} : upload'[x].doc # r.doc
  BY <1>1 DEF UploadKept, IsNewDocument
<1>6. r.pc = "authorized" /\ r.departments = {} => tenant'[r.doc] # None
  BY <1>1, <1>4 DEF UploadInv, Grows, IsNewDocument
<1>7. r.pc \in {"locked", "numbered"} =>
        /\ holder'[r.doc] = w
        /\ tenant'[r.doc] # None
        /\ tenant'[r.doc] = TenantOf[r.actor] /\ IsAdmin(r.actor)
  BY <1>1, <1>4 DEF UploadInv, UploadKept, Grows, CanLockDocument
<1>8. r.pc = "numbered" =>
        \A d \in Documents : r.doc = d => r.number = Cardinality(VersionsOf(d)') + 1
  BY <1>1 DEF UploadInv, UploadKept
<1> QED
  BY <1>1, <1>3, <1>4, <1>5, <1>6, <1>7, <1>8
     DEF UploadInv, IsNewDocument, CanLockDocument, CanReadDocument, MayIngest, IsAdmin

LEMMA BeginKeeps ==
  ASSUME LibraryInv, NEW v \in Versions, NEW u \in Users, NEW d \in Documents,
         \/ \E departments \in SUBSET Departments : BeginDocument(v, u, d, departments)
         \/ BeginReplacement(v, u, d),
         NEW w \in Versions \ {v}
  PROVE  UploadKept(w)
<1> USE DEF LibraryInv
<1>1. /\ UNCHANGED <<tenant, version, holder>>
      /\ \A x \in Versions \ {v} : upload'[x] = upload[x]
      /\ upload'[v].doc = d
  BY DEF BeginDocument, BeginReplacement, rows, TypeOK
<1>2. upload[w].pc = "authorized" /\ IsNewDocument(w) => upload[w].doc # d
  BY AdminTenant DEF BeginDocument, BeginReplacement, Unused, UploadInv, CanReadDocument
<1>3. upload[w].pc = "authorized" /\ IsNewDocument(w) =>
        /\ tenant[upload[w].doc] = None
        /\ \A x \in Versions \ {w} : upload[x].doc # upload[w].doc
  BY DEF UploadInv
<1>4. \A e : VersionsOf(e)' = VersionsOf(e)
  BY <1>1 DEF VersionsOf
<1> QED BY <1>1, <1>2, <1>3, <1>4 DEF UploadKept

LEMMA BeginStep ==
  ASSUME LibraryInv, NEW v \in Versions, NEW u \in Users, NEW d \in Documents,
         \/ \E departments \in SUBSET Departments : BeginDocument(v, u, d, departments)
         \/ BeginReplacement(v, u, d)
  PROVE  UploadInv(v)'
<1> USE DEF LibraryInv
<1>1. /\ UNCHANGED <<tenant, version, holder>>
      /\ \A x \in Versions \ {v} : upload'[x] = upload[x]
      /\ upload[v].pc = "idle"
      /\ MayIngest(u)
  BY DEF BeginDocument, BeginReplacement, rows, TypeOK
<1>2. PICK departments \in SUBSET Departments :
        /\ upload'[v] = [pc |-> "authorized", actor |-> u, doc |-> d,
                         departments |-> departments, number |-> 0]
        /\ IF departments = {} THEN tenant[d] # None ELSE Unused(d)
  BY AdminTenant DEF BeginDocument, BeginReplacement, CanReadDocument, TypeOK
<1>3. version'[v] = NoRow
  BY <1>1 DEF UploadInv
<1> QED BY <1>1, <1>2, <1>3 DEF UploadInv, IsNewDocument, Unused, MayIngest

LEMMA StepKeeps ==
  ASSUME LibraryInv, Grows, NEW v \in Versions, UploadStep(v) \/ AbortUpload(v),
         NEW w \in Versions \ {v}
  PROVE  UploadKept(w)
<1> USE DEF LibraryInv
<1>1. /\ upload'[w] = upload[w]
      /\ \A x \in Versions : upload'[x].doc = upload[x].doc
      /\ version'[w] = version[w]
  BY DEF UploadStep, CreateDocument, LockDocument, DocumentNotFound, ReadNextNumber,
         CommitVersion, AbortUpload, rows, TypeOK
<1>2. \A d \in Documents : holder[d] = w => holder'[d] = w
  <2>1. CASE LockDocument(v)
    BY <2>1, RequestsAssumption DEF LockDocument, TypeOK
  <2>2. CASE CommitVersion(v)
    BY <2>2 DEF CommitVersion, TypeOK, UploadInv
  <2>3. CASE AbortUpload(v)
    BY <2>3 DEF AbortUpload
  <2>4. CASE UNCHANGED holder
    BY <2>4
  <2> QED BY <2>1, <2>2, <2>3, <2>4 DEF UploadStep, CreateDocument, DocumentNotFound, ReadNextNumber
<1>3. ASSUME upload[w].pc = "numbered", NEW e \in Documents, upload[w].doc = e
      PROVE  VersionsOf(e)' = VersionsOf(e)
  <2>1. e = upload[w].doc
    BY <1>3
  <2>2. tenant[e] # None /\ holder[e] = w
    BY <1>3, <2>1 DEF UploadInv
  <2>3. CASE CreateDocument(v)
    <3>1. upload[v].doc # e /\ version[v].doc = None /\ version'[v].doc = upload[v].doc
      BY <2>2, <2>3 DEF CreateDocument, UploadInv, NoRow, Stored, TypeOK
    <3>2. None # e
      BY RequestsAssumption
    <3>3. \A x \in Versions \ {v} : version'[x] = version[x]
      BY <2>3 DEF CreateDocument, TypeOK
    <3> QED BY <2>1, <3>1, <3>2, <3>3 DEF VersionsOf
  <2>4. CASE CommitVersion(v)
    <3>1. upload[v].doc # e /\ version[v].doc = None /\ version'[v].doc = upload[v].doc
      BY <2>2, <2>4 DEF CommitVersion, UploadInv, NoRow, Stored, TypeOK
    <3>2. None # e
      BY RequestsAssumption
    <3>3. \A x \in Versions \ {v} : version'[x] = version[x]
      BY <2>4 DEF CommitVersion, TypeOK
    <3> QED BY <2>1, <3>1, <3>2, <3>3 DEF VersionsOf
  <2>5. CASE UNCHANGED version
    BY <2>5 DEF VersionsOf
  <2> QED BY <2>3, <2>4, <2>5
          DEF UploadStep, LockDocument, DocumentNotFound, ReadNextNumber, AbortUpload, rows
<1>4. ASSUME upload[w].pc = "authorized", IsNewDocument(w)
      PROVE  /\ tenant'[upload[w].doc] = None
             /\ \A x \in Versions \ {w} : upload'[x].doc # upload[w].doc
  <2>1. /\ upload[w].doc \in Documents
        /\ tenant[upload[w].doc] = None
        /\ \A x \in Versions \ {w} : upload[x].doc # upload[w].doc
    BY <1>4 DEF UploadInv
  <2>2. tenant'[upload[w].doc] = tenant[upload[w].doc]
    BY <2>1
       DEF UploadStep, CreateDocument, LockDocument, DocumentNotFound, ReadNextNumber,
           CommitVersion, AbortUpload, rows, TypeOK
  <2> QED BY <1>1, <2>1, <2>2
<1> QED BY <1>1, <1>2, <1>3, <1>4 DEF UploadKept

LEMMA OwnStep ==
  ASSUME LibraryInv, NEW v \in Versions, UploadStep(v) \/ AbortUpload(v)
  PROVE  UploadInv(v)'
<1> USE DEF LibraryInv
<1> DEFINE r == upload[v]
<1>1. CASE CreateDocument(v) \/ CommitVersion(v)
  <2>1. upload'[v].pc = "committed"
    BY <1>1 DEF CreateDocument, CommitVersion, TypeOK
  <2> QED BY <2>1 DEF UploadInv
<1>2. CASE DocumentNotFound(v) \/ AbortUpload(v)
  <2>1. upload'[v].pc \in {"not_found", "failed"} /\ version' = version
    BY <1>2 DEF DocumentNotFound, AbortUpload, rows, TypeOK
  <2>2. upload[v].pc # "committed"
    BY <1>2 DEF DocumentNotFound, AbortUpload
  <2> QED BY <2>1, <2>2 DEF UploadInv
<1>3. CASE LockDocument(v)
  <2>1. /\ upload'[v] = [r EXCEPT !.pc = "locked"]
        /\ UNCHANGED <<version, tenant>>
        /\ r.pc = "authorized" /\ ~IsNewDocument(v)
        /\ CanLockDocument(r.actor, r.doc)
        /\ holder' = [holder EXCEPT ![r.doc] = v]
    BY <1>3 DEF LockDocument, rows, TypeOK
  <2>2. /\ version[v] = NoRow
        /\ r.actor \in Users /\ r.doc \in Documents /\ MayIngest(r.actor)
        /\ tenant[r.doc] # None
    BY <2>1 DEF UploadInv
  <2>3. holder'[r.doc] = v
    BY <2>1, <2>2 DEF TypeOK
  <2>4. /\ upload'[v].pc = "locked" /\ upload'[v].actor = r.actor
        /\ upload'[v].doc = r.doc
    BY <2>1, UploadTypes, Rows DEF UploadRow
  <2> HIDE DEF r
  <2> QED BY <2>1, <2>2, <2>3, <2>4
          DEF UploadInv, CanLockDocument, CanReadDocument, IsAdmin, MayIngest
<1>4. CASE ReadNextNumber(v)
  <2>1. r.pc = "locked" /\ UNCHANGED <<version, tenant, holder>>
    BY <1>4 DEF ReadNextNumber, rows
  <2>2. /\ version[v] = NoRow
        /\ r.actor \in Users /\ r.doc \in Documents /\ MayIngest(r.actor)
        /\ tenant[r.doc] # None /\ holder[r.doc] = v
        /\ CanLockDocument(r.actor, r.doc)
    BY <2>1 DEF UploadInv
  <2>3. NextVersionNumber(r.doc) = Cardinality(VersionsOf(r.doc)) + 1
    BY <2>2, NextNumber
  <2>4. /\ upload'[v].pc = "numbered" /\ upload'[v].actor = r.actor
        /\ upload'[v].doc = r.doc
        /\ upload'[v].number = NextVersionNumber(r.doc)
    BY <1>4, Rows DEF ReadNextNumber, UploadRow
  <2>5. \A d : VersionsOf(d)' = VersionsOf(d)
    BY <2>1 DEF VersionsOf
  <2> HIDE DEF r
  <2> QED BY <2>1, <2>2, <2>3, <2>4, <2>5
          DEF UploadInv, CanLockDocument, CanReadDocument, IsAdmin, MayIngest
<1> QED BY <1>1, <1>2, <1>3, <1>4 DEF UploadStep

\* The steps of workers, activations, readers and memberships.
OtherStep ==
  \/ \E v \in Versions : StartProcessing(v) \/ FinishProcessing(v) \/ FailProcessing(v)
  \/ \E a \in Activations, u \in Users, d \in Documents, v \in Versions :
       LockForActivation(a, u, d, v)
  \/ \E a \in Activations :
       VerifyCandidate(a) \/ RejectCandidate(a) \/ CommitActivation(a) \/ AbortActivation(a)
  \/ \E u \in Readers : ListDocuments(u)
  \/ ListLatest \/ ListHistory \/ EndListing
  \/ \E u \in Users, x \in Departments : RevokeMembership(u, x)

LEMMA OtherStepRows ==
  ASSUME TypeOK, OtherStep
  PROVE  /\ UNCHANGED <<upload, tenant>>
         /\ \A v \in Versions : /\ version'[v].doc = version[v].doc
                                /\ version'[v].number = version[v].number
                                /\ version[v].status = "absent" => version'[v] = version[v]
                                /\ version'[v].status = "absent" => version[v].status = "absent"
         /\ \A d \in Documents, w \in Versions : holder[d] = w => holder'[d] = w
<1>1. CASE \E v \in Versions : StartProcessing(v) \/ FinishProcessing(v) \/ FailProcessing(v)
  <2>1. PICK v \in Versions, from \in Statuses \ {"absent"}, to \in Statuses \ {"absent"} :
          SetStatus(v, from, to)
    BY <1>1 DEF StartProcessing, FinishProcessing, FailProcessing, Statuses
  <2>2. version' = [version EXCEPT ![v].status = to]
    BY <2>1 DEF SetStatus
  <2>3. version \in [Versions -> VersionRow]
    BY Rows
  <2>4. \A x \in Versions \ {v} : version'[x] = version[x]
    BY <2>2, <2>3
  <2>5. /\ version'[v].doc = version[v].doc /\ version'[v].number = version[v].number
        /\ version'[v].status # "absent" /\ version[v].status # "absent"
    BY <2>1, <2>2, <2>3 DEF VersionRow, SetStatus
  <2> QED BY <2>1, <2>4, <2>5 DEF SetStatus
<1>2. CASE UNCHANGED version
  <2>1. ASSUME NEW d \in Documents, NEW w \in Versions, holder[d] = w
        PROVE  holder'[d] = w
    <3>1. holder \in [Documents -> Versions \union Activations \union {None}]
      BY DEF TypeOK
    <3>2. w # None /\ w \notin Activations
      BY RequestsAssumption
    <3>3. CASE \E a \in Activations : \/ \E u \in Users, e \in Documents, v \in Versions :
                                        LockForActivation(a, u, e, v)
                                   \/ Release(a)
      BY <2>1, <3>1, <3>2, <3>3 DEF LockForActivation, Release
    <3>4. CASE UNCHANGED holder
      BY <2>1, <3>4
    <3>5. \/ UNCHANGED holder
          \/ \E a \in Activations : \/ \E u \in Users, e \in Documents, v \in Versions :
                                        LockForActivation(a, u, e, v)
                                   \/ Release(a)
      BY DEF OtherStep, StartProcessing, FinishProcessing, FailProcessing, SetStatus,
             VerifyCandidate, RejectCandidate, CommitActivation,
             AbortActivation, ListDocuments, ListLatest, ListHistory,
             EndListing, RevokeMembership
    <3> QED BY <3>3, <3>4, <3>5
  <2>2. UNCHANGED <<upload, tenant>>
    BY <1>2
       DEF OtherStep, StartProcessing, FinishProcessing, FailProcessing, SetStatus,
           LockForActivation, VerifyCandidate, RejectCandidate, CommitActivation,
           AbortActivation, ListDocuments, ListLatest, ListHistory,
           EndListing, RevokeMembership, rows
  <2> QED BY <1>2, <2>1, <2>2
<1>3. \/ \E v \in Versions : StartProcessing(v) \/ FinishProcessing(v) \/ FailProcessing(v)
      \/ UNCHANGED version
  BY DEF OtherStep, LockForActivation, VerifyCandidate, RejectCandidate,
         CommitActivation, AbortActivation, ListDocuments, ListLatest, ListHistory,
         EndListing, RevokeMembership, rows
<1> QED BY <1>1, <1>2, <1>3

LEMMA OthersKeep ==
  ASSUME LibraryInv, OtherStep, NEW w \in Versions
  PROVE  UploadKept(w)
<1>0. TypeOK /\ UploadInv(w)
  BY DEF LibraryInv
<1>1. /\ UNCHANGED <<upload, tenant>>
      /\ \A v \in Versions : version'[v].doc = version[v].doc
      /\ version[w].status = "absent" => version'[w] = version[w]
      /\ \A d \in Documents : holder[d] = w => holder'[d] = w
  BY <1>0, OtherStepRows
<1>2. \A d \in Documents : VersionsOf(d)' = VersionsOf(d)
  BY <1>1 DEF VersionsOf
<1>3. version[w] = NoRow => version'[w] = NoRow
  BY <1>1 DEF NoRow
<1> QED BY <1>0, <1>1, <1>2, <1>3 DEF UploadKept, UploadInv

LEMMA Steps ==
  ASSUME Next
  PROVE  \/ \E v \in Versions, u \in Users, d \in Documents :
              \/ \E departments \in SUBSET Departments : BeginDocument(v, u, d, departments)
              \/ BeginReplacement(v, u, d)
         \/ \E v \in Versions : UploadStep(v) \/ AbortUpload(v)
         \/ OtherStep
BY DEF Next, OtherStep

LEMMA UploadsStep ==
  ASSUME LibraryInv, Next, Grows, NEW w \in Versions
  PROVE  UploadInv(w)'
<1>0. UploadInv(w)
  BY DEF LibraryInv
<1>1. CASE \E v \in Versions, u \in Users, d \in Documents :
             \/ \E departments \in SUBSET Departments : BeginDocument(v, u, d, departments)
             \/ BeginReplacement(v, u, d)
  BY <1>0, <1>1, BeginKeeps, BeginStep, UploadFrame
<1>2. CASE \E v \in Versions : UploadStep(v) \/ AbortUpload(v)
  BY <1>0, <1>2, StepKeeps, OwnStep, UploadFrame
<1>3. CASE OtherStep
  BY <1>0, <1>3, OthersKeep, UploadFrame
<1> QED BY <1>1, <1>2, <1>3, Steps

-----------------------------------------------------------------------------
(* Rows. *)

\* The upload inserts a version, with the next number of its document.
LEMMA InsertedRow ==
  ASSUME LibraryInv, NEW v \in Versions, CreateDocument(v) \/ CommitVersion(v)
  PROVE  /\ upload[v].doc \in Documents
         /\ version[v] = NoRow
         /\ version' = [version EXCEPT
              ![v] = Stored(upload[v].doc, Cardinality(VersionsOf(upload[v].doc)) + 1)]
         /\ tenant'[upload[v].doc] # None
<1> USE DEF LibraryInv
<1>1. CASE CreateDocument(v)
  <2>1. /\ upload[v].doc \in Documents /\ upload[v].actor \in Users
        /\ tenant[upload[v].doc] = None
        /\ version[v] = NoRow
    BY <1>1 DEF CreateDocument, UploadInv
  <2>2. Cardinality(VersionsOf(upload[v].doc)) = 0
    BY <2>1, FS_EmptySet DEF RowsInv
  <2>3. tenant'[upload[v].doc] # None
    BY <1>1, <2>1, AdminTenant DEF CreateDocument, TypeOK
  <2>4. Cardinality(VersionsOf(upload[v].doc)) + 1 = 1
    BY <2>2
  <2> QED BY <1>1, <2>1, <2>3, <2>4 DEF CreateDocument
<1>2. CASE CommitVersion(v)
  <2>1. /\ upload[v].doc \in Documents
        /\ tenant[upload[v].doc] # None
        /\ version[v] = NoRow
        /\ upload[v].number = Cardinality(VersionsOf(upload[v].doc)) + 1
    BY <1>2 DEF CommitVersion, UploadInv
  <2> QED BY <1>2, <2>1 DEF CommitVersion
<1> QED BY <1>1, <1>2

LEMMA KeptRows ==
  ASSUME RowsInv,
         \A d \in Documents : tenant'[d] = None => tenant[d] = None,
         \A v \in Versions : /\ version'[v].doc = version[v].doc
                             /\ version'[v].number = version[v].number
                             /\ version'[v].status = "absent"
                                <=> version[v].status = "absent"
  PROVE  RowsInv'
<1>1. \A d \in Documents : VersionsOf(d)' = VersionsOf(d) /\ NumbersOf(d)' = NumbersOf(d)
  BY KeptNumbers
<1> QED BY <1>1 DEF RowsInv

LEMMA RowsStep ==
  ASSUME LibraryInv, Next, Grows
  PROVE  RowsInv'
<1> USE DEF LibraryInv
<1>1. CASE \E v \in Versions : CreateDocument(v) \/ CommitVersion(v)
  <2>1. PICK v \in Versions : CreateDocument(v) \/ CommitVersion(v)
    BY <1>1
  <2>2. PICK d \in Documents : d = upload[v].doc
    BY <2>1, InsertedRow
  <2>3. /\ version[v] = NoRow
        /\ version' = [version EXCEPT ![v] = Stored(d, Cardinality(VersionsOf(d)) + 1)]
        /\ tenant'[d] # None
    BY <2>1, <2>2, InsertedRow
  <2>4. None \notin Documents
    BY RequestsAssumption
  <2>5. Adds(v, d)
    BY <2>3, <2>4 DEF Adds, VersionsOf, NoRow
  <2>6. /\ IsFiniteSet(VersionsOf(d)') /\ NumbersOf(d)' = 1..Cardinality(VersionsOf(d)')
    BY <2>5, AddedVersion
  <2>7. /\ \A w \in Versions \ {v} : version'[w] = version[w]
        /\ version'[v].doc = d /\ version'[v].status = "stored"
    BY <2>3 DEF TypeOK, Stored
  <2>8. ASSUME NEW e \in Documents \ {d}
        PROVE  /\ VersionsOf(e)' = VersionsOf(e) /\ NumbersOf(e)' = NumbersOf(e)
    <3>1. version[v].doc # e /\ version'[v].doc # e
      BY <2>3, <2>4, <2>7 DEF NoRow
    <3> QED BY <2>7, <3>1, KeptNumbers
  <2>9. \A e \in Documents : tenant'[e] = None => tenant[e] = None
    BY DEF Grows
  <2>10. \A w \in Versions : version'[w].status = "absent" <=> version'[w].doc = None
    BY <2>4, <2>7 DEF RowsInv
  <2>11. ASSUME NEW e \in Documents
         PROVE  /\ tenant'[e] = None => VersionsOf(e)' = {}
                /\ IsFiniteSet(VersionsOf(e)')
                /\ NumbersOf(e)' = 1..Cardinality(VersionsOf(e)')
    BY <2>3, <2>6, <2>8, <2>9 DEF RowsInv
  <2> QED BY <2>10, <2>11 DEF RowsInv
<1>2. CASE UNCHANGED <<version, tenant>>
  BY <1>2, KeptRows
<1>3. CASE OtherStep
  <2>1. /\ UNCHANGED tenant
        /\ \A v \in Versions : /\ version'[v].doc = version[v].doc
                               /\ version'[v].number = version[v].number
                               /\ version[v].status = "absent" => version'[v] = version[v]
                               /\ version'[v].status = "absent" => version[v].status = "absent"
    BY <1>3, OtherStepRows
  <2>2. \A v \in Versions : version'[v].status = "absent" <=> version[v].status = "absent"
    BY <2>1
  <2> QED BY <2>1, <2>2, KeptRows
<1>4. \/ \E v \in Versions : CreateDocument(v) \/ CommitVersion(v)
      \/ UNCHANGED <<version, tenant>>
      \/ OtherStep
  BY Steps DEF BeginDocument, BeginReplacement, UploadStep, LockDocument,
               DocumentNotFound, ReadNextNumber, AbortUpload, rows
<1> QED BY <1>1, <1>2, <1>3, <1>4

-----------------------------------------------------------------------------
(* The inductive invariant. *)

LEMMA InitInv == Init => LibraryInv
<1> SUFFICES ASSUME Init PROVE LibraryInv
  OBVIOUS
<1>1. TypeOK
  BY InitType
<1>2. \A d \in Documents : VersionsOf(d) = {} /\ NumbersOf(d) = {}
  BY RequestsAssumption DEF Init, VersionsOf, NumbersOf, NoRow
<1>3. Cardinality({}) = 0 /\ IsFiniteSet({})
  BY FS_EmptySet
<1>4. RowsInv
  <2>1. \A v \in Versions : version[v].status = "absent" /\ version[v].doc = None
    BY DEF Init, NoRow
  <2>2. 1..0 = {}
    OBVIOUS
  <2> QED BY <1>2, <1>3, <2>1, <2>2 DEF RowsInv
<1>5. \A v \in Versions : UploadInv(v)
  BY DEF Init, UploadInv, NoUpload
<1>6. \A a \in Activations : ActivationInv(a)
  BY DEF Init, ActivationInv, NoActivation
<1>7. CurrentIsReady
  BY DEF Init, CurrentIsReady
<1> QED BY <1>1, <1>4, <1>5, <1>6, <1>7 DEF LibraryInv

LEMMA StutterInv == LibraryInv /\ UNCHANGED vars => LibraryInv'
<1> SUFFICES ASSUME LibraryInv, UNCHANGED vars PROVE LibraryInv'
  OBVIOUS
<1>1. \A d : VersionsOf(d)' = VersionsOf(d) /\ NumbersOf(d)' = NumbersOf(d)
  BY DEF vars, rows, VersionsOf, NumbersOf
<1>2. RowsInv'
  BY <1>1 DEF vars, rows, LibraryInv, RowsInv
<1>3. TypeOK'
  BY DEF vars, rows, LibraryInv, TypeOK
<1>4. \A v \in Versions : UploadInv(v)'
  BY <1>1
     DEF vars, rows, LibraryInv, UploadInv, IsNewDocument, CanLockDocument,
         CanReadDocument, MayIngest, IsAdmin
<1>5. \A a \in Activations : ActivationInv(a)'
  BY DEF vars, rows, LibraryInv, ActivationInv, Eligible, IsAdmin
<1>6. CurrentIsReady'
  BY DEF vars, rows, LibraryInv, CurrentIsReady
<1> QED BY <1>2, <1>3, <1>4, <1>5, <1>6 DEF LibraryInv

LEMMA NextInv == LibraryInv /\ [Next]_vars => LibraryInv'
<1> SUFFICES ASSUME LibraryInv, Next PROVE LibraryInv'
  BY StutterInv
<1>1. Grows
  BY StepGrows
<1> QED BY <1>1, TypeStep, RowsStep, UploadsStep, ActivationStep, CurrentStep DEF LibraryInv

THEOREM LibraryInvariant == Spec => []LibraryInv
BY InitInv, NextInv, PTL DEF Spec

-----------------------------------------------------------------------------
(* Theorems. *)

\* Rows of documents, versions, requests and listings have their types.
THEOREM TypeCorrect == Spec => []TypeOK
<1>1. LibraryInv => TypeOK
  BY DEF LibraryInv
<1> QED BY <1>1, LibraryInvariant, PTL

\* The version a document is searched by is its own and ready, whatever is
\* activated while versions are processed.
THEOREM CurrentStaysReady == Spec => []CurrentIsReady
<1>1. LibraryInv => CurrentIsReady
  BY DEF LibraryInv
<1> QED BY <1>1, LibraryInvariant, PTL

\* The versions of a document are numbered from one without gap or repetition,
\* and a number read under the lock is still free when it is used.
THEOREM NumbersStayConsecutive == Spec => []NumbersConsecutive
<1>1. LibraryInv => NumbersConsecutive
  <2> SUFFICES ASSUME LibraryInv PROVE NumbersConsecutive
    OBVIOUS
  <2>1. \A d \in Documents : NumbersOf(d) = 1..Cardinality(VersionsOf(d))
    BY DEF LibraryInv, RowsInv
  <2>2. ASSUME NEW v \in Versions, upload[v].pc = "numbered"
        PROVE  upload[v].number \notin NumbersOf(upload[v].doc)
    <3>1. PICK d \in Documents : upload[v].doc = d
      BY <2>2 DEF LibraryInv, UploadInv
    <3>2. upload[v].number = Cardinality(VersionsOf(d)) + 1
      BY <2>2, <3>1 DEF LibraryInv, UploadInv
    <3>3. upload[v].number \notin NumbersOf(d)
      BY <3>2, NextNumber DEF LibraryInv
    <3> QED BY <3>1, <3>3
  <2> QED BY <2>1, <2>2 DEF NumbersConsecutive
<1> QED BY <1>1, LibraryInvariant, PTL

-----------------------------------------------------------------------------
(* Listings. *)

\* What a listing has read so far, and which later statements confirm.
ListingInv ==
  /\ listing.pc # "idle" => listing.actor \in Users
  /\ \A d \in listing.shown : tenant[d] # None
  /\ \A d \in Documents : listing.pointer[d] # None =>
       d \in listing.shown /\ Eligible(listing.pointer[d], d)
  /\ \A v \in listing.latest : version[v].doc \in listing.shown
  /\ ListingAgrees

\* Nobody gains access to a document that exists.
AccessShrinks ==
  \A u \in Users, d \in Documents :
    tenant[d] # None /\ CanReadDocument(u, d)' => CanReadDocument(u, d)

LEMMA StepShrinksAccess ==
  ASSUME LibraryInv, [Next]_vars, Grows
  PROVE  AccessShrinks
<1>1. /\ \A u \in Users : membership'[u] \subseteq membership[u]
      /\ \A d \in Documents : tenant[d] # None => assigned'[d] = assigned[d]
  <2>1. CASE \E v \in Versions : CreateDocument(v)
    BY <2>1 DEF CreateDocument, LibraryInv, UploadInv, TypeOK
  <2>2. CASE \E u \in Users, x \in Departments : RevokeMembership(u, x)
    BY <2>2 DEF RevokeMembership, LibraryInv, TypeOK
  <2>3. CASE UNCHANGED <<membership, assigned>>
    BY <2>3
  <2> QED
    BY <2>1, <2>2, <2>3
       DEF Next, BeginDocument, BeginReplacement, UploadStep, LockDocument,
           DocumentNotFound, ReadNextNumber, CommitVersion, AbortUpload,
           StartProcessing, FinishProcessing, FailProcessing, SetStatus,
           LockForActivation, VerifyCandidate, RejectCandidate, CommitActivation,
           AbortActivation, ListDocuments, ListLatest, ListHistory, EndListing,
           vars, rows
<1> QED BY <1>1 DEF AccessShrinks, Grows, CanReadDocument, IsAdmin

\* A listing that does not move stays as true as it was.
LEMMA ListingFrame ==
  ASSUME LibraryInv, Grows, AccessShrinks, ListingInv, UNCHANGED listing,
         \A v \in Versions : version[v].doc # None => version'[v].doc = version[v].doc
  PROVE  ListingInv'
<1> USE DEF LibraryInv
<1>1. \A d \in listing.shown : d \in Documents /\ tenant[d] # None /\ tenant'[d] # None
  BY DEF ListingInv, TypeOK, Grows
<1>2. \A d \in Documents : listing.pointer[d] # None =>
        /\ d \in listing.shown
        /\ listing.pointer[d] \in Versions
        /\ Eligible(listing.pointer[d], d) /\ Eligible(listing.pointer[d], d)'
  BY DEF ListingInv, TypeOK, Grows, Eligible
<1>3. \A v \in listing.latest : version'[v].doc = version[v].doc /\ version[v].doc \in listing.shown
  BY <1>1, RequestsAssumption DEF ListingInv, TypeOK
<1>4. listing.pc # "idle" => listing.actor \in Users
  BY DEF ListingInv
<1>5. \A d \in listing.shown : listing.actor \in Users =>
        (CanReadDocument(listing.actor, d)' => CanReadDocument(listing.actor, d))
  BY <1>1 DEF AccessShrinks, CanReadDocument
<1>6. ListingAgrees'
  BY <1>1, <1>2, <1>3, <1>4, <1>5 DEF ListingInv, ListingAgrees, CanReadDocument, IsAdmin
<1> QED BY <1>1, <1>2, <1>3, <1>4, <1>6 DEF ListingInv, Eligible

LEMMA ListDocumentsStep ==
  ASSUME LibraryInv, NEW u \in Readers, ListDocuments(u)
  PROVE  ListingInv'
<1> USE DEF LibraryInv
<1>1. /\ listing'.pc = "documents" /\ listing'.actor = u /\ listing'.latest = {}
      /\ listing'.shown = {d \in Documents : CanReadDocument(u, d)}
      /\ \A d \in Documents :
           listing'.pointer[d] = IF CanReadDocument(u, d) THEN current[d] ELSE None
      /\ UNCHANGED rows
  BY DEF ListDocuments, NoListing
<1>2. u \in Users
  BY RequestsAssumption
<1>3. \A d \in listing'.shown : tenant'[d] # None
  BY <1>1, <1>2, AdminTenant DEF CanReadDocument, rows
<1>4. \A d \in Documents : listing'.pointer[d] # None =>
        d \in listing'.shown /\ version'[listing'.pointer[d]].doc = d
        /\ version'[listing'.pointer[d]].status = "ready"
  BY <1>1 DEF CurrentIsReady, rows
<1> QED BY <1>1, <1>2, <1>3, <1>4 DEF ListingInv, ListingAgrees, Eligible

LEMMA ListLatestStep ==
  ASSUME LibraryInv, ListingInv, ListLatest
  PROVE  ListingInv'
<1>0. \A v \in Newest(Listed) : version[v].doc \in listing.shown
  BY DEF Newest, Listed
<1>1. PICK n : n = Newest(Listed) /\ \A v \in n : version[v].doc \in listing.shown
  BY <1>0
<1>2. /\ listing'.pc = "latest" /\ listing'.actor = listing.actor
      /\ listing'.shown = listing.shown /\ listing'.pointer = listing.pointer
      /\ listing'.latest = n /\ listing.pc # "idle"
      /\ UNCHANGED rows
  BY <1>1 DEF ListLatest, LibraryInv, TypeOK
<1> QED BY <1>1, <1>2 DEF ListingInv, ListingAgrees, Eligible, rows

LEMMA ListHistoryStep ==
  ASSUME LibraryInv, ListingInv, ListHistory
  PROVE  ListingInv'
<1>1. /\ listing'.pc = "shown" /\ listing'.actor = listing.actor
      /\ listing'.shown = listing.shown /\ listing'.pointer = listing.pointer
      /\ listing'.latest = listing.latest /\ listing.pc # "idle"
      /\ listing'.listed = Listed
      /\ listing'.listedReady = {v \in Listed : version[v].status = "ready"}
      /\ UNCHANGED rows
  BY DEF ListHistory, LibraryInv, TypeOK
<1>2. /\ \A d \in Documents : listing.pointer[d] \in Versions \union {None}
      /\ listing.latest \subseteq Versions
  BY DEF LibraryInv, TypeOK
<1>3. \A d \in Documents : listing.pointer[d] # None /\ CanReadDocument(listing.actor, d) =>
        listing.pointer[d] \in listing'.listedReady
  BY <1>1, <1>2 DEF ListingInv, Eligible, Listed
<1>4. \A v \in listing.latest :
        CanReadDocument(listing.actor, version[v].doc) => v \in listing'.listed
  BY <1>1, <1>2 DEF ListingInv, Listed
<1> HIDE DEF Listed
<1> QED BY <1>1, <1>3, <1>4 DEF ListingInv, ListingAgrees, Eligible, CanReadDocument, IsAdmin, rows

LEMMA ListingStep == LibraryInv /\ ListingInv /\ [Next]_vars => ListingInv'
<1> SUFFICES ASSUME LibraryInv, ListingInv, [Next]_vars PROVE ListingInv'
  OBVIOUS
<1>1. Grows /\ AccessShrinks
  BY StepGrows, StepShrinksAccess
<1>2. CASE \E u \in Readers : ListDocuments(u)
  BY <1>2, ListDocumentsStep
<1>3. CASE ListLatest
  BY <1>3, ListLatestStep
<1>4. CASE ListHistory
  BY <1>4, ListHistoryStep
<1>5. CASE EndListing
  <2>1. listing' = NoListing
    BY <1>5 DEF EndListing
  <2> QED BY <2>1 DEF NoListing, ListingInv, ListingAgrees
<1>6. CASE UNCHANGED listing
  <2>1. CASE \E v \in Versions : CreateDocument(v) \/ CommitVersion(v)
    <3>1. PICK v \in Versions : CreateDocument(v) \/ CommitVersion(v)
      BY <2>1
    <3>2. version[v].doc = None /\ \A w \in Versions \ {v} : version'[w] = version[w]
      BY <3>1, InsertedRow DEF NoRow, LibraryInv, TypeOK
    <3>3. \A w \in Versions : version[w].doc # None => version'[w].doc = version[w].doc
      BY <3>2
    <3> QED BY <1>1, <1>6, <3>3, ListingFrame
  <2>2. CASE OtherStep
    <3>1. \A w \in Versions : version'[w].doc = version[w].doc
      BY <2>2, OtherStepRows DEF LibraryInv
    <3> QED BY <1>1, <1>6, <3>1, ListingFrame
  <2>3. CASE UNCHANGED version
    BY <1>1, <1>6, <2>3, ListingFrame
  <2> QED
    BY <2>1, <2>2, <2>3, Steps
       DEF BeginDocument, BeginReplacement, UploadStep, LockDocument, DocumentNotFound,
           ReadNextNumber, AbortUpload, vars, rows
<1> QED
  BY <1>2, <1>3, <1>4, <1>5, <1>6
     DEF Next, BeginDocument, BeginReplacement, UploadStep, CreateDocument,
         LockDocument, DocumentNotFound, ReadNextNumber, CommitVersion, AbortUpload,
         StartProcessing, FinishProcessing, FailProcessing, SetStatus,
         LockForActivation, VerifyCandidate, RejectCandidate, CommitActivation,
         AbortActivation, RevokeMembership, vars

\* As long as a reader keeps access, the current and the latest version that a
\* listing shows of a document are among the versions it shows.
THEOREM ListingsAgree == Spec => []ListingAgrees
<1>1. Init => ListingInv
  BY DEF Init, NoListing, ListingInv, ListingAgrees
<1>2. ListingInv => ListingAgrees
  BY DEF ListingInv
<1> QED BY <1>1, <1>2, ListingStep, LibraryInvariant, PTL DEF Spec

-----------------------------------------------------------------------------
(* The abstract library. *)

documentOf == [v \in Versions |-> version[v].doc]

ready == {v \in Versions : version[v].status = "ready"}

LEMMA InitImplements == Init => Library!LibraryInit
BY DEF Init, NoRow, Library!LibraryInit

LEMMA CreateImplements ==
  ASSUME LibraryInv, NEW v \in Versions, CreateDocument(v)
  PROVE  Library!LibraryNext
<1>1. PICK u \in Users, d \in Documents, departments \in SUBSET Departments :
        u = upload[v].actor /\ d = upload[v].doc /\ departments = upload[v].departments
  BY DEF CreateDocument, LibraryInv, TypeOK, UploadInv
<1>2. /\ MayIngest(u) /\ tenant[d] = None /\ version[v] = NoRow
      /\ departments # {} /\ CanAssign(u, departments)
  BY <1>1 DEF CreateDocument, LibraryInv, UploadInv, IsNewDocument
<1>3. /\ tenant' = [tenant EXCEPT ![d] = TenantOf[u]]
      /\ assigned' = [assigned EXCEPT ![d] = departments]
      /\ version' = [version EXCEPT ![v] = Stored(d, 1)]
      /\ UNCHANGED <<membership, current>>
  BY <1>1 DEF CreateDocument
<1>4. version \in [Versions -> VersionRow]
  BY Rows DEF LibraryInv
<1>5. Stored(d, 1).doc = d /\ Stored(d, 1).status = "stored" /\ NoRow.doc = None /\ NoRow.status = "absent"
  BY DEF Stored, NoRow
<1>6. documentOf' = [documentOf EXCEPT ![v] = d] /\ documentOf[v] = None /\ ready' = ready
  BY <1>2, <1>3, <1>4, <1>5 DEF documentOf, ready
<1>7. Library!AddDocument(v, d, u, departments)
  BY <1>2, <1>3, <1>6
     DEF Library!AddDocument, documentOf, ready, MayIngest, Library!MayIngest,
         CanAssign, Library!CanAssign, IsAdmin, Library!IsAdmin, DepartmentsOf,
         Library!DepartmentsOf
<1> QED BY <1>7 DEF Library!LibraryNext

LEMMA CommitImplements ==
  ASSUME LibraryInv, NEW v \in Versions, CommitVersion(v)
  PROVE  Library!LibraryNext
<1>1. PICK u \in Users, d \in Documents, n \in Nat :
        u = upload[v].actor /\ d = upload[v].doc /\ n = upload[v].number
  BY DEF CommitVersion, LibraryInv, TypeOK, UploadInv
<1>2. MayIngest(u) /\ CanReadDocument(u, d) /\ version[v] = NoRow
  BY <1>1 DEF CommitVersion, LibraryInv, UploadInv, CanLockDocument
<1>3. /\ version' = [version EXCEPT ![v] = Stored(d, n)]
      /\ UNCHANGED <<membership, tenant, assigned, current>>
  BY <1>1 DEF CommitVersion
<1>4. version \in [Versions -> VersionRow]
  BY Rows DEF LibraryInv
<1>5. Stored(d, n).doc = d /\ Stored(d, n).status = "stored" /\ NoRow.doc = None /\ NoRow.status = "absent"
  BY DEF Stored, NoRow
<1>6. documentOf' = [documentOf EXCEPT ![v] = d] /\ documentOf[v] = None /\ ready' = ready
  BY <1>2, <1>3, <1>4, <1>5 DEF documentOf, ready
<1>7. Library!AddVersion(v, d, u)
  BY <1>2, <1>3, <1>6
     DEF Library!AddVersion, documentOf, ready, MayIngest, Library!MayIngest,
         CanReadDocument, Library!CanReadDocument, IsAdmin, Library!IsAdmin
<1> QED BY <1>7 DEF Library!LibraryNext

LEMMA StatusImplements ==
  ASSUME LibraryInv, NEW v \in Versions,
         StartProcessing(v) \/ FinishProcessing(v) \/ FailProcessing(v)
  PROVE  Library!LibraryNext \/ UNCHANGED Library!libraryVars
<1>1. version \in [Versions -> VersionRow]
  BY Rows DEF LibraryInv
<1>2. CASE FinishProcessing(v)
  <2>1. /\ version[v].status = "processing"
        /\ version' = [version EXCEPT ![v].status = "ready"]
        /\ UNCHANGED <<membership, tenant, assigned, current>>
    BY <1>2 DEF FinishProcessing, SetStatus
  <2>2. version[v].doc # None
    BY <2>1 DEF LibraryInv, RowsInv
  <2>3. documentOf' = documentOf /\ ready' = ready \union {v}
    BY <1>1, <2>1 DEF documentOf, ready, VersionRow
  <2>4. Library!BecomeReady(v)
    BY <2>1, <2>2, <2>3 DEF Library!BecomeReady, documentOf, ready
  <2> QED BY <2>4 DEF Library!LibraryNext
<1>3. CASE StartProcessing(v) \/ FailProcessing(v)
  <2>1. PICK from \in Statuses \ {"ready"}, to \in Statuses \ {"ready"} :
          /\ version[v].status = from
          /\ version' = [version EXCEPT ![v].status = to]
          /\ UNCHANGED <<membership, tenant, assigned, current>>
    BY <1>3 DEF StartProcessing, FailProcessing, SetStatus, Statuses
  <2>2. documentOf' = documentOf /\ ready' = ready
    BY <1>1, <2>1 DEF documentOf, ready, VersionRow
  <2> QED BY <2>1, <2>2 DEF Library!libraryVars, documentOf, ready
<1> QED BY <1>2, <1>3

LEMMA ActivationImplements ==
  ASSUME LibraryInv, NEW a \in Activations, CommitActivation(a)
  PROVE  Library!LibraryNext
<1> DEFINE d == activation[a].doc
           v == activation[a].candidate
<1>1. d \in Documents /\ v \in Versions /\ Eligible(v, d)
  BY DEF CommitActivation, LibraryInv, ActivationInv
<1>2. PICK u \in Users : IsAdmin(u) /\ tenant[d] = TenantOf[u]
  BY DEF CommitActivation, LibraryInv, ActivationInv
<1>3. /\ current' = [current EXCEPT ![d] = v]
      /\ UNCHANGED <<membership, tenant, assigned, version>>
  BY DEF CommitActivation
<1> HIDE DEF d, v
<1>4. Library!Activate(d, v, u)
  BY <1>1, <1>2, <1>3 DEF Library!Activate, Eligible, IsAdmin, Library!IsAdmin
<1> QED BY <1>1, <1>4 DEF Library!LibraryNext

LEMMA StepImplements ==
  LibraryInv /\ [Next]_vars => [Library!LibraryNext]_Library!libraryVars
<1> SUFFICES ASSUME LibraryInv, [Next]_vars
             PROVE  Library!LibraryNext \/ UNCHANGED Library!libraryVars
  BY DEF Library!libraryVars
<1>1. CASE \E v \in Versions : CreateDocument(v)
  BY <1>1, CreateImplements
<1>2. CASE \E v \in Versions : CommitVersion(v)
  BY <1>2, CommitImplements
<1>3. CASE \E v \in Versions : StartProcessing(v) \/ FinishProcessing(v) \/ FailProcessing(v)
  BY <1>3, StatusImplements
<1>4. CASE \E a \in Activations : CommitActivation(a)
  BY <1>4, ActivationImplements
<1>5. CASE \E u \in Users, x \in Departments : RevokeMembership(u, x)
  <2>1. PICK u \in Users, x \in Departments : RevokeMembership(u, x)
    BY <1>5
  <2>2. Library!RevokeMembership(u, x)
    BY <2>1 DEF RevokeMembership, Library!RevokeMembership
  <2> QED BY <2>2 DEF Library!LibraryNext
<1>6. CASE UNCHANGED rows
  BY <1>6 DEF rows, Library!libraryVars
<1> QED
  BY <1>1, <1>2, <1>3, <1>4, <1>5, <1>6
     DEF Next, BeginDocument, BeginReplacement, UploadStep, LockDocument,
         DocumentNotFound, ReadNextNumber, AbortUpload, LockForActivation,
         VerifyCandidate, RejectCandidate, AbortActivation, ListDocuments,
         ListLatest, ListHistory, EndListing, vars

\* Requests, locks, workers and policies show nothing but a SearchableLibrary.
THEOREM LibraryImplemented == Spec => LibrarySpec
BY InitImplements, StepImplements, LibraryInvariant, PTL
   DEF Spec, LibrarySpec, Library!LibrarySpec

=============================================================================
