SPECIFICATION FairSpec
CONSTANTS
  Jobs = {j1}
  Workers = {w1, w2}
  NoJob = NoJob
  MaxAttempts = 2
  MaxCopies = 2
  MaxFaults = 2
INVARIANTS
  ReadyIsComplete
  UploadHasOriginal
  AttemptsWithinBudget
  StatusesAgree
  OneOwner
PROPERTIES
  EventuallySettled
  LifecycleSpec
