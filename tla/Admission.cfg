SPECIFICATION Spec
CONSTANTS
  Emails = {a, b}
  NoTenant = NoTenant
  Evaluation = Evaluation
  Seeded = {d1, d2}
  Operators = {o1, o2}
  Requests = {r1, r2}
  NoUser = NoUser
  Askers = {a}
  Limit = 2
  Window = 2
  Lifetime = 1
  MaxChanges = 1
  MaxLosses = 1
INVARIANTS
  QuotaHolds
  ScopeIsCurrent
PROPERTIES
  IdentitiesSettle
  RefusalsEnd
CHECK_DEADLOCK FALSE
