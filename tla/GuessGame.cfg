SPECIFICATION Spec
CONSTANTS
  Attempts = 3
  Builds = {TRUE, FALSE}
  MaxGuesses = 262
INVARIANTS
  TypeOK
  GameMatchesHistory
  AnswersLagOneGuess
  TerminatedAfterVictory
  PanicsOnlyOutOfAttempts
CHECK_DEADLOCK FALSE
