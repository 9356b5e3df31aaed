SPECIFICATION MCSpec
CONSTANTS
  v1 = v1
  v2 = v2
  s1 = s1
  Versions = {v1, v2}
  Cases <- MCCases
  Suites = {s1}
  Texts = {x, y}
  Operators = {o1, o2}
  MaxRequests = 3
  MistralAvailable = TRUE
  Proposals <- MCProposals
  Retrievals = {"seeded"}
INVARIANTS
  StagedBundlesAreSound
  RevisionsNumbered
  LaunchedRunsResolve
  ComparisonsArePaired
  ComparedLikeWithLike
SYMMETRY OperatorSymmetry
CHECK_DEADLOCK FALSE
