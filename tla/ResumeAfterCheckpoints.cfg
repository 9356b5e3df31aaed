SPECIFICATION Spec
CONSTANTS
  Jobs = {j1}
  Workers = {w1}
  NoJob = NoJob
  MaxAttempts = 2
  MaxCopies = 1
  MaxFaults = 0
INVARIANTS
  GenerationBoundAtCompletion
