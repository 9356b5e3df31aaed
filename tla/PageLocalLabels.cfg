SPECIFICATION Spec
CONSTANTS
  w1 = w1
  w2 = w2
  Workers = {w1, w2}
  Question = Question
  Completion = Completion
  MaxRateLimitAttempts = 4
  TextBound = 5
  WindowBound = 4
  Inputs <- MCInputs
INVARIANTS
  PageLocalLabelsCanBeFound
CHECK_DEADLOCK FALSE
