SPECIFICATION Spec
CONSTANTS
  admin = admin
  editor = editor
  stranger = stranger
  x = x
  y = y
  z = z
  t1 = t1
  t2 = t2
  Users = {admin, editor}
  Departments = {x}
  Documents = {d1, d2}
  Tenants = {t1, t2}
  Versions = {v1, v2, v3}
  Activations = {a1}
  Readers = {editor}
  None = None
  Role <- MCRole
  TenantOf <- MCTenantOf
  InitialMembership <- MCMembership
INVARIANTS
  EditorsMayReplace
CHECK_DEADLOCK FALSE
