SPECIFICATION FairSpec
CONSTANTS
  admin = admin
  editor = editor
  x = x
  t1 = t1
  v1 = v1
  v2 = v2
  v3 = v3
  p1 = p1
  p2 = p2
  fulltext = fulltext
  old = old
  new = new
  Users = {admin, editor}
  Departments = {x}
  Documents = {d1, d2}
  Tenants = {t1}
  Versions = {v1, v2, v3}
  Passages = {v1, v2, v3}
  None = None
  Role <- MCRole
  TenantOf <- MCTenantOf
  InitialMembership <- MCMembership
  Id <- MCId
  Scale = 12
  RrfK = 1
  EntityBoost = 3
  RerankLimit = 2
  TopK = 2
  Scores = {0, 1, 2}
  SufficientScore = 2
  MinCitationScore = 1
  Queries = {q1}
  QueryProfiles = {p1, p2}
  LexicalCohorts <- MCLexicalCohorts
  EmbeddingCohorts <- MCEmbeddingCohorts
  LexicalCohortOf <- MCLexicalCohortOf
  EmbeddingCohortOf <- MCEmbeddingCohortOf
  CandidateLimit = 2
INVARIANTS
  CitedWasShown
  FusionKeepsAgreement
  EvidenceIffSufficient
PROPERTIES
  RevocationIsHonoured
  QueriesEnd
CHECK_DEADLOCK FALSE
