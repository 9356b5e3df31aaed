------------------------- MODULE MCDocumentVersions -------------------------
(* Small instances of DocumentVersions for TLC. *)
EXTENDS DocumentVersions, TLC

CONSTANTS admin, editor, stranger, x, y, z, t1, t2

MCRole ==
  [u \in Users |-> IF u = editor THEN "editor" ELSE "tenant_admin"]

\* The stranger administers another tenant, with the department z.
MCTenantOf ==
  [i \in Users \union Departments |-> IF i \in {stranger, z} THEN t2 ELSE t1]

\* Nobody belongs to the department y.
MCMembership == [u \in Users |-> IF u = stranger THEN {z} ELSE {x}]

DocumentSymmetry == Permutations(Documents) \union Permutations(Versions)

=============================================================================
