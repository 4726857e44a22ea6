------------------------------ MODULE GuessGame ------------------------------
(***************************************************************************)
(* One game from its start to its end, as the Guess command plays it, with *)
(* the history of the guesses made and of the answers given.  The handler  *)
(* copies the state of the game, applies the guess, then answers from the  *)
(* copy.                                                                   *)
(***************************************************************************)
EXTENDS ServerData, Sequences

CONSTANTS
  Builds,     \* the values overflow_checks may have: TRUE in a debug build
  MaxGuesses  \* bound on the guesses of a behaviour

ASSUME BuildsAssumption == Builds \subseteq BOOLEAN
ASSUME MaxGuessesAssumption == MaxGuesses \in Nat

VARIABLES
  overflow_checks,  \* whether u8 arithmetic panics on underflow
  game,             \* the game, as long as the server keeps it
  phase,            \* "listed", "terminated", or "panicked"
  guesses,          \* history: for each guess made, whether it was right
  answers           \* history: the answers, with the attempts they announce

vars == <<overflow_checks, game, phase, guesses, answers>>

TypeOK ==
  /\ overflow_checks \in BOOLEAN
  /\ game \in Games
  /\ phase \in {"listed", "terminated", "panicked"}
  /\ guesses \in Seq(BOOLEAN)
  /\ answers \in Seq([verdict : {"VICTORY", "DEFEAT", "INCORRECT"},
                      attempts : 0 .. 255])

Init ==
  /\ overflow_checks \in Builds
  /\ game = NewGame({}, 1, 2)
  /\ phase = "listed"
  /\ guesses = <<>>
  /\ answers = <<>>

\* Mistakes: answering from the updated game, and keeping a game that was won.
AnsweredGameAfter(before, after) == after
AnsweredGame(before, after) == before

PhaseAfterKeeping(answered) == "listed"
PhaseAfter(answered) ==
  IF answered.game_state = "Victory" THEN "terminated" ELSE "listed"

Guess(right) ==
  LET after == GuessedGame(game, right)
      answered == AnsweredGame(game, after) IN
  /\ phase = "listed"
  /\ Len(guesses) < MaxGuesses
  /\ ~(overflow_checks /\ Underflows(game, right))
  /\ game' = after
  /\ guesses' = Append(guesses, right)
  /\ answers' = Append(answers, [verdict |-> Answer(answered.game_state),
                                 attempts |-> answered.attempts])
  /\ phase' = PhaseAfter(answered)
  /\ UNCHANGED overflow_checks

\* The subtraction panics while the thread holds the write lock; the guess is
\* never answered.
GuessPanics(right) ==
  /\ phase = "listed"
  /\ Len(guesses) < MaxGuesses
  /\ overflow_checks /\ Underflows(game, right)
  /\ phase' = "panicked"
  /\ guesses' = Append(guesses, right)
  /\ UNCHANGED <<overflow_checks, game, answers>>

Next == \E right \in BOOLEAN : Guess(right) \/ GuessPanics(right)

Spec == Init /\ [][Next]_vars

-----------------------------------------------------------------------------

Wrongs(history) == Cardinality({i \in DOMAIN history : ~history[i]})
Rights(history) == Cardinality({i \in DOMAIN history : history[i]})

\* The state that a list of answered guesses calls for: won once one of them was
\* right, whenever that was, else lost once as many were wrong as there were
\* attempts.
StateFor(history) ==
  IF Rights(history) > 0 THEN "Victory"
  ELSE IF Wrongs(history) >= Attempts THEN "Defeat" ELSE "Ongoing"

\* The game, which keeps no list of its guesses, is what all of them call for:
\* no guess is lost or counted twice, in either build, up to and past the last
\* attempt (update_game_guess).  The removing guess may add one more wrong.
GameMatchesHistory ==
  phase = "listed" =>
    /\ game.game_state = StateFor(guesses)
    /\ game.attempts = (Attempts - Wrongs(guesses)) % 256

\* The latest answer gives the verdict and the attempts of the guesses before
\* the one it answers: every player hears of a guess one guess late (the copy
\* made before update_game_guess in the Guess command).
AnswersLagOneGuess ==
  answers # <<>> =>
    LET before == SubSeq(guesses, 1, Len(answers) - 1)
        latest == answers[Len(answers)] IN
    /\ latest.verdict = Answer(StateFor(before))
    /\ latest.attempts = (Attempts - Wrongs(before)) % 256

\* A won game leaves the list with the guess that follows the first right one,
\* never earlier and never later.
TerminatedAfterVictory ==
  LET before == SubSeq(guesses, 1, Len(guesses) - 1) IN
  /\ phase = "terminated" => Rights(before) > 0
  /\ phase = "listed" => Rights(before) = 0

\* The subtraction underflows only where the attempts are spent: by the
\* first wrong guess after the last attempt, and so never in a game still Ongoing.
PanicsOnlyOutOfAttempts ==
  phase = "panicked" =>
    /\ overflow_checks
    /\ Wrongs(guesses) = Attempts + 1
    /\ game.game_state # "Ongoing"

\* What the code's comments promise: a guess that hits the secret makes the game
\* a victory, so nobody is told that it was incorrect.
TruthfulAnswers ==
  \A k \in DOMAIN answers : guesses[k] => answers[k].verdict # "INCORRECT"

=============================================================================
