SPECIFICATION Spec
CONSTANTS
  Operators = {o1, o2}
  NoOperator = NoOperator
  IngestionProfiles = {i1, i2}
  QueryProfiles = {q1, q2, q12}
  NoProfile = NoProfile
  i1 = i1
  i2 = i2
  q1 = q1
  q2 = q2
  q12 = q12
  Reads <- MCReads
  Uploads = {u1}
  EvaluationUploads = {}
  MaxRevision = 2
  MaxComparisons = 2
SYMMETRY CohortSymmetry
INVARIANTS
  ActiveIngestionIsRead
  AuditIsChain
  NoCircularWait
PROPERTIES
  PolicySpec
