--------------------------- MODULE DocumentVersions ---------------------------
(***************************************************************************)
(* The document library as its requests run: uploads that create documents *)
(* and number the next version under the document's row lock, activations  *)
(* that move the current version under the same lock, and listings that    *)
(* read documents and versions in several statements.  Each version is     *)
(* named by the upload that creates it, and each transaction runs under    *)
(* the row policies of its user.                                           *)
(*                                                                         *)
(* The original file of an upload and the processing job of a version are  *)
(* the subject of IngestionPipeline; here a version is processed in three  *)
(* steps.  Authentication reads the user's departments just before the     *)
(* first transaction and is one step with it, as are the insertions of a   *)
(* transaction and its commit: no other transaction sees what lies between.*)
(***************************************************************************)
EXTENDS RowPolicies, Naturals, FiniteSetsExt

CONSTANTS
  Versions,     \* uploads; each makes one version if it succeeds
  Activations,  \* requests that activate a version, one after another
  Readers       \* users who list the library

ASSUME RequestsAssumption ==
  /\ None \notin Versions \union Activations \union Users \union Documents
  /\ Versions \intersect Activations = {}
  /\ Readers \subseteq Users

VARIABLES
  version,     \* document_versions rows
  current,     \* documents.current_ready_version_id
  holder,      \* the request whose transaction holds each document's row lock
  upload,      \* the upload requests
  activation,  \* the activation requests
  listing      \* one request that lists the library

rows == <<membership, tenant, assigned, version, current>>
vars == <<rows, holder, upload, activation, listing>>

NoRow == [doc |-> None, number |-> 0, status |-> "absent"]

NoUpload ==
  [pc |-> "idle", actor |-> None, doc |-> None, departments |-> {}, number |-> 0]

NoActivation == [pc |-> "idle", doc |-> None, candidate |-> None]

NoListing ==
  [pc |-> "idle", actor |-> None, shown |-> {},
   pointer |-> [d \in Documents |-> None],
   latest |-> {}, listed |-> {}, listedReady |-> {}]

VersionsOf(d) == {v \in Versions : version[v].doc = d}

TypeOK ==
  /\ membership \in [Users -> SUBSET Departments]
  /\ tenant \in [Documents -> Tenants \union {None}]
  /\ assigned \in [Documents -> SUBSET Departments]
  /\ version \in [Versions ->
       [doc : Documents \union {None}, number : Nat,
        status : {"absent", "stored", "processing", "ready", "failed"}]]
  /\ current \in [Documents -> Versions \union {None}]
  /\ holder \in [Documents -> Versions \union Activations \union {None}]
  /\ upload \in [Versions ->
       [pc : {"idle", "authorized", "locked", "numbered", "committed",
              "not_found", "failed"},
        actor : Users \union {None}, doc : Documents \union {None},
        departments : SUBSET Departments, number : Nat]]
  /\ activation \in [Activations ->
       [pc : {"idle", "locked", "verified"}, doc : Documents \union {None},
        candidate : Versions \union {None}]]
  /\ listing \in
       [pc : {"idle", "documents", "latest", "shown"},
        actor : Users \union {None}, shown : SUBSET Documents,
        pointer : [Documents -> Versions \union {None}],
        latest : SUBSET Versions, listed : SUBSET Versions,
        listedReady : SUBSET Versions]

Init ==
  /\ membership = InitialMembership
  /\ tenant = [d \in Documents |-> None]
  /\ assigned = [d \in Documents |-> {}]
  /\ version = [v \in Versions |-> NoRow]
  /\ current = [d \in Documents |-> None]
  /\ holder = [d \in Documents |-> None]
  /\ upload = [v \in Versions |-> NoUpload]
  /\ activation = [a \in Activations |-> NoActivation]
  /\ listing = NoListing

-----------------------------------------------------------------------------
(* Uploads. *)

\* A fresh identifier: no row and no other request has it.
Unused(d) == tenant[d] = None /\ \A v \in Versions : upload[v].doc # d

\* A user who belongs to a department uploads a new document for departments
\* of the tenant; an editor only for departments of their own.
BeginDocument(v, u, d, departments) ==
  /\ upload[v].pc = "idle"
  /\ membership[u] # {}
  /\ MayIngest(u)
  /\ Unused(d)
  /\ departments # {}
  /\ departments \subseteq DepartmentsOf(TenantOf[u])
  /\ ~IsAdmin(u) => departments \subseteq membership[u]
  /\ upload' = [upload EXCEPT ![v] =
       [pc |-> "authorized", actor |-> u, doc |-> d,
        departments |-> departments, number |-> 0]]
  /\ UNCHANGED <<rows, holder, activation, listing>>

\* Or the next version of a document the user may read.
BeginReplacement(v, u, d) ==
  /\ upload[v].pc = "idle"
  /\ membership[u] # {}
  /\ MayIngest(u)
  /\ CanReadDocument(u, d)
  /\ upload' = [upload EXCEPT ![v] =
       [pc |-> "authorized", actor |-> u, doc |-> d, departments |-> {},
        number |-> 0]]
  /\ UNCHANGED <<rows, holder, activation, listing>>

IsNewDocument(v) == upload[v].departments # {}

Stored(d, n) == [doc |-> d, number |-> n, status |-> "stored"]

\* The one transaction of a new document: the document, its departments and
\* version 1, all of which the policies must admit.
CreateDocument(v) ==
  LET u == upload[v].actor
      d == upload[v].doc IN
  /\ upload[v].pc = "authorized"
  /\ IsNewDocument(v)
  /\ CanAssign(u, upload[v].departments)
  /\ tenant' = [tenant EXCEPT ![d] = TenantOf[u]]
  /\ assigned' = [assigned EXCEPT ![d] = upload[v].departments]
  /\ version' = [version EXCEPT ![v] = Stored(d, 1)]
  /\ upload' = [upload EXCEPT ![v].pc = "committed"]
  /\ UNCHANGED <<membership, current, holder, activation, listing>>

LockDocumentMistake(v) ==
  /\ upload[v].pc = "authorized"
  /\ ~IsNewDocument(v)
  /\ CanLockDocument(upload[v].actor, upload[v].doc)
  /\ holder' = [holder EXCEPT ![upload[v].doc] = v]
  /\ upload' = [upload EXCEPT ![v].pc = "locked"]
  /\ UNCHANGED <<rows, activation, listing>>

\* The transaction of a replacement waits for the document's row lock.
LockDocument(v) ==
  /\ upload[v].pc = "authorized"
  /\ ~IsNewDocument(v)
  /\ CanLockDocument(upload[v].actor, upload[v].doc)
  /\ holder[upload[v].doc] = None
  /\ holder' = [holder EXCEPT ![upload[v].doc] = v]
  /\ upload' = [upload EXCEPT ![v].pc = "locked"]
  /\ UNCHANGED <<rows, activation, listing>>

\* The policies hide the row from SELECT ... FOR UPDATE: the document is
\* reported as not found.
DocumentNotFound(v) ==
  /\ upload[v].pc = "authorized"
  /\ ~IsNewDocument(v)
  /\ ~CanLockDocument(upload[v].actor, upload[v].doc)
  /\ upload' = [upload EXCEPT ![v].pc = "not_found"]
  /\ UNCHANGED <<rows, holder, activation, listing>>

NumbersOf(d) == {version[v].number : v \in VersionsOf(d)}

NextVersionNumberMistake(d) ==
  Cardinality({v \in VersionsOf(d) : version[v].status = "ready"}) + 1

NextVersionNumber(d) == Max(NumbersOf(d) \union {0}) + 1

ReadNextNumber(v) ==
  /\ upload[v].pc = "locked"
  /\ upload' = [upload EXCEPT ![v].pc = "numbered",
                              ![v].number = NextVersionNumber(upload[v].doc)]
  /\ UNCHANGED <<rows, holder, activation, listing>>

\* The version is inserted with the number read before, and the lock released.
CommitVersion(v) ==
  /\ upload[v].pc = "numbered"
  /\ version' = [version EXCEPT ![v] = Stored(upload[v].doc, upload[v].number)]
  /\ holder' = [holder EXCEPT ![upload[v].doc] = None]
  /\ upload' = [upload EXCEPT ![v].pc = "committed"]
  /\ UNCHANGED <<membership, tenant, assigned, current, activation, listing>>

\* A policy refuses a row, or the process or the connection fails.
AbortUpload(v) ==
  /\ upload[v].pc \in {"authorized", "locked", "numbered"}
  /\ upload' = [upload EXCEPT ![v].pc = "failed"]
  /\ holder' = [d \in Documents |-> IF holder[d] = v THEN None ELSE holder[d]]
  /\ UNCHANGED <<rows, activation, listing>>

-----------------------------------------------------------------------------
(* What the worker reports of a version. *)

SetStatus(v, from, to) ==
  /\ version[v].status = from
  /\ version' = [version EXCEPT ![v].status = to]
  /\ UNCHANGED <<membership, tenant, assigned, current, holder, upload,
                 activation, listing>>

StartProcessing(v) == SetStatus(v, "stored", "processing")

FinishProcessing(v) == SetStatus(v, "processing", "ready")

FailProcessing(v) == SetStatus(v, "processing", "failed")

-----------------------------------------------------------------------------
(* Activation. *)

\* An administrator's transaction takes the row lock of a document.
LockForActivation(a, u, d, v) ==
  /\ activation[a].pc = "idle"
  /\ membership[u] # {}
  /\ IsAdmin(u)
  /\ CanLockDocument(u, d)
  /\ holder[d] = None
  /\ holder' = [holder EXCEPT ![d] = a]
  /\ activation' = [activation EXCEPT ![a] =
       [pc |-> "locked", doc |-> d, candidate |-> v]]
  /\ UNCHANGED <<rows, upload, listing>>

Release(a) ==
  /\ holder' = [d \in Documents |-> IF holder[d] = a THEN None ELSE holder[d]]
  /\ activation' = [activation EXCEPT ![a] = NoActivation]

EligibleMistake(v, d) == version[v].status = "ready"

Eligible(v, d) == version[v].doc = d /\ version[v].status = "ready"

\* get_for_activation: the candidate must be a ready version of the document.
VerifyCandidate(a) ==
  /\ activation[a].pc = "locked"
  /\ Eligible(activation[a].candidate, activation[a].doc)
  /\ activation' = [activation EXCEPT ![a].pc = "verified"]
  /\ UNCHANGED <<rows, holder, upload, listing>>

RejectCandidate(a) ==
  /\ activation[a].pc = "locked"
  /\ ~Eligible(activation[a].candidate, activation[a].doc)
  /\ Release(a)
  /\ UNCHANGED <<rows, upload, listing>>

CommitActivation(a) ==
  /\ activation[a].pc = "verified"
  /\ current' = [current EXCEPT ![activation[a].doc] = activation[a].candidate]
  /\ Release(a)
  /\ UNCHANGED <<membership, tenant, assigned, version, upload, listing>>

\* The process or the connection fails.
AbortActivation(a) ==
  /\ activation[a].pc \in {"locked", "verified"}
  /\ Release(a)
  /\ UNCHANGED <<rows, upload, listing>>

-----------------------------------------------------------------------------
(* Listing the library.  Each statement sees what is committed when it runs. *)

\* The documents in the user's departments with their current versions.
ListDocuments(u) ==
  /\ listing.pc = "idle"
  /\ membership[u] # {}
  /\ listing' = [NoListing EXCEPT !.pc = "documents", !.actor = u,
       !.shown = {d \in Documents : CanReadDocument(u, d)},
       !.pointer = [d \in Documents |->
          IF CanReadDocument(u, d) THEN current[d] ELSE None]]
  /\ UNCHANGED <<rows, holder, upload, activation>>

\* Versions of the documents found that the policies still show.
Listed ==
  {v \in Versions : /\ version[v].doc \in listing.shown
                    /\ CanReadDocument(listing.actor, version[v].doc)}

Newest(vs) ==
  {v \in vs : \A w \in vs :
     version[w].doc = version[v].doc => version[w].number <= version[v].number}

ListLatest ==
  /\ listing.pc = "documents"
  /\ listing' = [listing EXCEPT !.pc = "latest",
                                !.latest = Newest(Listed)]
  /\ UNCHANGED <<rows, holder, upload, activation>>

ListHistoryMistake ==
  /\ listing.pc = "latest"
  /\ listing' = [listing EXCEPT !.pc = "shown",
       !.listed = Listed \ listing.latest,
       !.listedReady = {v \in Listed \ listing.latest : version[v].status = "ready"}]
  /\ UNCHANGED <<rows, holder, upload, activation>>

\* The history of every document found, the latest version included.
ListHistory ==
  /\ listing.pc = "latest"
  /\ listing' = [listing EXCEPT !.pc = "shown",
       !.listed = Listed,
       !.listedReady = {v \in Listed : version[v].status = "ready"}]
  /\ UNCHANGED <<rows, holder, upload, activation>>

EndListing ==
  /\ listing.pc = "shown"
  /\ listing' = NoListing
  /\ UNCHANGED <<rows, holder, upload, activation>>

-----------------------------------------------------------------------------
RevokeMembership(u, x) ==
  /\ x \in membership[u]
  /\ membership' = [membership EXCEPT ![u] = @ \ {x}]
  /\ UNCHANGED <<tenant, assigned, version, current, holder, upload,
                 activation, listing>>

UploadStep(v) ==
  \/ CreateDocument(v)
  \/ LockDocument(v)
  \/ DocumentNotFound(v)
  \/ ReadNextNumber(v)
  \/ CommitVersion(v)

Next ==
  \/ \E v \in Versions, u \in Users, d \in Documents :
       \/ \E departments \in SUBSET Departments : BeginDocument(v, u, d, departments)
       \/ BeginReplacement(v, u, d)
  \/ \E v \in Versions : UploadStep(v)
  \/ \E v \in Versions : AbortUpload(v)
  \/ \E v \in Versions : StartProcessing(v) \/ FinishProcessing(v) \/ FailProcessing(v)
  \/ \E a \in Activations, u \in Users, d \in Documents, v \in Versions :
       LockForActivation(a, u, d, v)
  \/ \E a \in Activations : VerifyCandidate(a)
  \/ \E a \in Activations : RejectCandidate(a)
  \/ \E a \in Activations : CommitActivation(a)
  \/ \E a \in Activations : AbortActivation(a)
  \/ \E u \in Readers : ListDocuments(u)
  \/ ListLatest
  \/ ListHistory
  \/ EndListing
  \/ \E u \in Users, x \in Departments : RevokeMembership(u, x)

Spec == Init /\ [][Next]_vars

-----------------------------------------------------------------------------
\* Versions of a document are numbered from one without gap or repetition,
\* and a number read under the lock is still free when it is used: no upload
\* ever meets the unique constraint on document and number.
NumbersConsecutive ==
  /\ \A d \in Documents :
       /\ NumbersOf(d) = 1..Cardinality(VersionsOf(d))
  /\ \A v \in Versions : upload[v].pc = "numbered" =>
       upload[v].number \notin NumbersOf(upload[v].doc)

\* Whatever is activated while versions are processed, the version a document
\* is searched by is one of its own and completely processed.
CurrentIsReady ==
  \A d \in Documents : current[d] # None =>
    /\ version[current[d]].doc = d
    /\ version[current[d]].status = "ready"

\* A listing is read in three statements without a snapshot.  As long as the
\* reader keeps the access the first one had, the current version it shows
\* of a document is among the versions it shows, as ready, and so is the
\* version it calls the latest.
ListingAgrees ==
  listing.pc = "shown" =>
    /\ \A d \in Documents :
         listing.pointer[d] # None /\ CanReadDocument(listing.actor, d) =>
           listing.pointer[d] \in listing.listedReady
    /\ \A v \in listing.latest :
         CanReadDocument(listing.actor, version[v].doc) => v \in listing.listed

\* "an `editor` can ingest, replace, and query documents in their own
\* department": an editor's replacement of a document in one of their
\* departments is never turned away as not found.
EditorsMayReplace ==
  \A v \in Versions : upload[v].pc = "not_found" =>
    assigned[upload[v].doc] \intersect membership[upload[v].actor] = {}

Library ==
  INSTANCE SearchableLibrary WITH
    documentOf <- [v \in Versions |-> version[v].doc],
    ready <- {v \in Versions : version[v].status = "ready"}

\* Requests, locks and policies together show nothing but a library whose
\* documents gain versions from those who may, and show a ready one.
LibrarySpec == Library!LibrarySpec

=============================================================================
