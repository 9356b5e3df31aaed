----------------------------- MODULE RowPolicies -----------------------------
(***************************************************************************)
(* Who may see and write documents: memberships, documents and their       *)
(* departments as committed rows, and the row-level policies PostgreSQL    *)
(* evaluates on them for the user a transaction is bound to.  The policies *)
(* look at the membership of the moment of each statement.                 *)
(***************************************************************************)

CONSTANTS
  Users,
  Departments,
  Documents,
  Tenants,
  None,               \* no tenant, no version, no holder of a lock
  Role,               \* users.role
  TenantOf,           \* the tenant of each user and department
  InitialMembership   \* user_departments as registration and provisioning left it

ASSUME IdentityAssumption ==
  /\ Role \in [Users -> {"tenant_admin", "editor", "viewer"}]
  /\ TenantOf \in [Users \union Departments -> Tenants]
  /\ None \notin Tenants
  /\ InitialMembership \in [Users -> SUBSET Departments]
  /\ \A u \in Users : \A x \in InitialMembership[u] : TenantOf[x] = TenantOf[u]

VARIABLES
  membership,  \* user_departments
  tenant,      \* documents.tenant_id; None as long as there is no such row
  assigned     \* document_departments

DepartmentsOf(t) == {x \in Departments : TenantOf[x] = t}

IsAdmin(u) == Role[u] = "tenant_admin"

MayIngest(u) == Role[u] \in {"tenant_admin", "editor"}

\* rls.can_read_document, which every policy on document data refers to.
CanReadDocument(u, d) ==
  /\ tenant[d] = TenantOf[u]
  /\ IsAdmin(u) \/ assigned[d] \intersect membership[u] # {}

\* SELECT ... FOR UPDATE sees a row only if the policies for SELECT and for
\* UPDATE both show it; document_admin_update shows rows to administrators.
CanLockDocument(u, d) ==
  /\ CanReadDocument(u, d)
  /\ tenant[d] = TenantOf[u] /\ IsAdmin(u)

\* rls.can_assign_department for the departments of a document the user's own
\* transaction has just inserted.
CanAssign(u, departments) ==
  /\ departments \subseteq DepartmentsOf(TenantOf[u])
  /\ IsAdmin(u) \/ departments \subseteq membership[u]

=============================================================================
