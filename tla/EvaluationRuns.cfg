SPECIFICATION FairSpec
CONSTANTS
  Cases = {c1, c2}
  LabelledCases = {c1}
  Outcomes = {"answered"}
  Runs = {r1}
  Workers = {w1, w2}
  Operators = {o1, o2}
  NoRun = NoRun
  MaxCopies = 1
  MaxFaults = 1
INVARIANTS
  OneExecutor
  AggregatesOverAllCases
  ApprovedIsReviewed
PROPERTIES
  LifecycleSpec
  EventuallySettled
