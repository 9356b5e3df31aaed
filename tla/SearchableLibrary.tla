--------------------------- MODULE SearchableLibrary ---------------------------
(***************************************************************************)
(* What the document library promises to those who search it: documents    *)
(* belong to departments of one tenant, gain versions from users who may   *)
(* read and ingest, and show one of their ready versions, chosen by an     *)
(* administrator of the tenant.  Nothing here says how uploads, workers    *)
(* and activations get there.                                              *)
(***************************************************************************)
EXTENDS RowPolicies

CONSTANT Versions

VARIABLES
  documentOf,  \* the document of each version, None before it is uploaded
  ready,       \* versions whose processing is complete
  current      \* documents.current_ready_version_id

libraryVars == <<membership, tenant, assigned, documentOf, ready, current>>

LibraryTypeOK ==
  /\ membership \in [Users -> SUBSET Departments]
  /\ tenant \in [Documents -> Tenants \union {None}]
  /\ assigned \in [Documents -> SUBSET Departments]
  /\ documentOf \in [Versions -> Documents \union {None}]
  /\ ready \subseteq Versions
  /\ current \in [Documents -> Versions \union {None}]

LibraryInit ==
  /\ membership = InitialMembership
  /\ tenant = [d \in Documents |-> None]
  /\ assigned = [d \in Documents |-> {}]
  /\ documentOf = [v \in Versions |-> None]
  /\ ready = {}
  /\ current = [d \in Documents |-> None]

\* A user's new document appears with its departments and its first version.
AddDocument(v, d, u, departments) ==
  /\ documentOf[v] = None
  /\ tenant[d] = None
  /\ MayIngest(u)
  /\ departments # {}
  /\ CanAssign(u, departments)
  /\ tenant' = [tenant EXCEPT ![d] = TenantOf[u]]
  /\ assigned' = [assigned EXCEPT ![d] = departments]
  /\ documentOf' = [documentOf EXCEPT ![v] = d]
  /\ UNCHANGED <<membership, ready, current>>

AddVersion(v, d, u) ==
  /\ documentOf[v] = None
  /\ MayIngest(u)
  /\ CanReadDocument(u, d)
  /\ documentOf' = [documentOf EXCEPT ![v] = d]
  /\ UNCHANGED <<membership, tenant, assigned, ready, current>>

BecomeReady(v) ==
  /\ documentOf[v] # None
  /\ v \notin ready
  /\ ready' = ready \union {v}
  /\ UNCHANGED <<membership, tenant, assigned, documentOf, current>>

\* An older version may be chosen as well as a newer one.
Activate(d, v, u) ==
  /\ IsAdmin(u)
  /\ tenant[d] = TenantOf[u]
  /\ documentOf[v] = d
  /\ v \in ready
  /\ current' = [current EXCEPT ![d] = v]
  /\ UNCHANGED <<membership, tenant, assigned, documentOf, ready>>

\* The operator of the database takes a user out of a department.
RevokeMembership(u, x) ==
  /\ x \in membership[u]
  /\ membership' = [membership EXCEPT ![u] = @ \ {x}]
  /\ UNCHANGED <<tenant, assigned, documentOf, ready, current>>

LibraryNext ==
  \/ \E v \in Versions, d \in Documents, u \in Users :
       \/ \E departments \in SUBSET Departments : AddDocument(v, d, u, departments)
       \/ AddVersion(v, d, u)
       \/ Activate(d, v, u)
  \/ \E v \in Versions : BecomeReady(v)
  \/ \E u \in Users, x \in Departments : RevokeMembership(u, x)

LibrarySpec == LibraryInit /\ [][LibraryNext]_libraryVars

=============================================================================
