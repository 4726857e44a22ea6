SPECIFICATION Spec
CONSTANTS
  Attempts = 3
  Builds = {TRUE, FALSE}
  MaxGuesses = 4
INVARIANT TruthfulAnswers
CHECK_DEADLOCK FALSE
