-------------------------- MODULE GuessGameProofs --------------------------
(***************************************************************************)
(* A game is what its guesses call for and its answers are one guess late, *)
(* for any number of attempts and guesses and in both builds.              *)
(*                                                                         *)
(* The two counts of right and wrong guesses say everything the invariants *)
(* need of the history, so the proofs are about the counts, and about how  *)
(* they grow when a guess is appended.                                     *)
(***************************************************************************)
EXTENDS GuessGame, IdsProofs, FiniteSetTheorems

Histories == Seq(BOOLEAN)

\* Every guess but the latest (what an answer is about).
Before(history) == SubSeq(history, 1, Len(history) - 1)

\* The inductive invariant: the four that the runs check, and that every guess
\* of a listed game was answered and left it attempts it could lose.
GuessInv ==
  /\ TypeOK
  /\ GameMatchesHistory
  /\ AnswersLagOneGuess
  /\ TerminatedAfterVictory
  /\ PanicsOnlyOutOfAttempts
  /\ phase = "listed" =>
       /\ Len(answers) = Len(guesses)
       /\ overflow_checks => Wrongs(guesses) <= Attempts

-----------------------------------------------------------------------------

\* One more element is one more index that qualifies or not.
LEMMA CountAppend ==
  ASSUME NEW h \in Histories, NEW right \in BOOLEAN
  PROVE  /\ Wrongs(h) \in Nat /\ Rights(h) \in Nat
         /\ Wrongs(Append(h, right)) = Wrongs(h) + (IF right THEN 0 ELSE 1)
         /\ Rights(Append(h, right)) = Rights(h) + (IF right THEN 1 ELSE 0)
<1> DEFINE W(s) == {i \in DOMAIN s : ~s[i]}
           R(s) == {i \in DOMAIN s : s[i]}
           more == Append(h, right)
           n == Len(h) + 1
<1>1. /\ Len(h) \in Nat /\ DOMAIN h = 1 .. Len(h)
      /\ DOMAIN more = 1 .. n /\ more[n] = right
      /\ \A i \in 1 .. Len(h) : more[i] = h[i]
  BY DEF Histories
<1> HIDE DEF more
<1>7. /\ Wrongs(h) = Cardinality(W(h)) /\ Rights(h) = Cardinality(R(h))
      /\ Wrongs(more) = Cardinality(W(more)) /\ Rights(more) = Cardinality(R(more))
  BY DEF Wrongs, Rights
<1>2. IsFiniteSet(W(h)) /\ IsFiniteSet(R(h))
  <2>1. IsFiniteSet(1 .. Len(h))
    BY <1>1, FS_Interval
  <2>2. W(h) \in SUBSET (1 .. Len(h)) /\ R(h) \in SUBSET (1 .. Len(h))
    BY <1>1
  <2> QED
    BY <2>1, <2>2, FS_Subset
<1>3. Cardinality(W(h)) \in Nat /\ Cardinality(R(h)) \in Nat
  BY <1>2, FS_CardinalityType
<1>4. n \notin W(h) /\ n \notin R(h)
  BY <1>1
<1>8. /\ n \notin 1 .. Len(h) /\ 1 .. n = (1 .. Len(h)) \cup {n}
      /\ more[n] <=> right
      /\ \A i \in 1 .. Len(h) : more[i] <=> h[i]
  BY <1>1
<1>5. CASE right
  <2>1. W(more) = W(h) /\ R(more) = R(h) \cup {n}
    <3>1. \A i : i \in W(more) <=> i \in W(h)
      BY <1>1, <1>5, <1>8
    <3>2. \A i : i \in R(more) <=> i \in R(h) \cup {n}
      BY <1>1, <1>5, <1>8
    <3> HIDE DEF W, R
    <3> QED
      BY <3>1, <3>2
  <2>2. Cardinality(R(h) \cup {n}) = Cardinality(R(h)) + 1
    BY <1>2, <1>4, FS_AddElement
  <2> HIDE DEF W, R
  <2>3. /\ Wrongs(h) \in Nat /\ Rights(h) \in Nat
        /\ Wrongs(more) = Wrongs(h) + (IF right THEN 0 ELSE 1)
        /\ Rights(more) = Rights(h) + (IF right THEN 1 ELSE 0)
    BY <1>3, <1>5, <1>7, <2>1, <2>2
  <2> QED
    BY <2>3 DEF more
<1>6. CASE ~right
  <2>1. R(more) = R(h) /\ W(more) = W(h) \cup {n}
    BY <1>1, <1>6
  <2>2. Cardinality(W(h) \cup {n}) = Cardinality(W(h)) + 1
    BY <1>2, <1>4, FS_AddElement
  <2> HIDE DEF W, R
  <2>3. /\ Wrongs(h) \in Nat /\ Rights(h) \in Nat
        /\ Wrongs(more) = Wrongs(h) + (IF right THEN 0 ELSE 1)
        /\ Rights(more) = Rights(h) + (IF right THEN 1 ELSE 0)
    BY <1>3, <1>6, <1>7, <2>1, <2>2
  <2> QED
    BY <2>3 DEF more
<1> QED
  BY <1>5, <1>6

\* Nothing was guessed, so nothing counts.
LEMMA CountNone == Wrongs(<<>>) = 0 /\ Rights(<<>>) = 0
<1>1. {i \in DOMAIN <<>> : ~<<>>[i]} = {} /\ {i \in DOMAIN <<>> : <<>>[i]} = {}
  OBVIOUS
<1> QED
  BY <1>1, FS_EmptySet DEF Wrongs, Rights

\* What was a history is a beginning of the longer one.
LEMMA Beginnings ==
  ASSUME NEW h \in Histories, NEW right \in BOOLEAN
  PROVE  /\ Before(Append(h, right)) = h
         /\ Append(h, right) \in Histories
         /\ Len(Append(h, right)) = Len(h) + 1
         /\ \A k \in 0 .. Len(h) :
              SubSeq(Append(h, right), 1, k) = SubSeq(h, 1, k)
BY DEF Before, Histories

\* u8 arithmetic counts down with the wrong guesses.
LEMMA CountDown ==
  ASSUME NEW wrongs \in Nat, NEW left, left = (Attempts - wrongs) % 256
  PROVE  /\ left \in 0 .. 255
         /\ (left - 1) % 256 = (Attempts - (wrongs + 1)) % 256
         /\ wrongs <= Attempts => left = Attempts - wrongs
BY AttemptsAssumption

\* What a guess makes of a game (update_game_guess).
LEMMA GuessedFields ==
  ASSUME NEW g \in Games, NEW right \in BOOLEAN
  PROVE  LET left == (g.attempts - 1) % 256
             after == GuessedGame(g, right) IN
         /\ after \in Games
         /\ right => after.game_state = "Victory" /\ after.attempts = g.attempts
         /\ ~right =>
              /\ after.attempts = left
              /\ after.game_state = IF left = 0 THEN "Defeat" ELSE g.game_state
<1> DEFINE left == (g.attempts - 1) % 256
<1>1. left \in 0 .. 255
  BY DEF Games
<1>2. CASE right
  BY <1>2 DEF GuessedGame, Games, GameStates
<1>3. CASE ~right
  <2> DEFINE state == IF left = 0 THEN "Defeat" ELSE g.game_state
             lower == [g EXCEPT !.attempts = left]
             after == [lower EXCEPT !.game_state = state]
  <2>1. GuessedGame(g, right) = after
    BY <1>3 DEF GuessedGame, Games
  <2> HIDE DEF left
  <2>2. lower \in Games /\ lower.attempts = left
    BY <1>1 DEF Games
  <2>3. state \in GameStates
    BY DEF Games, GameStates
  <2> HIDE DEF lower, state
  <2>4. after \in Games /\ after.attempts = left /\ after.game_state = state
    BY <2>2, <2>3 DEF Games
  <2> QED
    BY <1>3, <2>1, <2>4 DEF state, left
<1> QED
  BY <1>2, <1>3

-----------------------------------------------------------------------------

\* A new game has had no guess.
LEMMA GuessInit == Init => GuessInv
<1> SUFFICES ASSUME Init PROVE GuessInv
  OBVIOUS
<1>1. /\ guesses = <<>> /\ answers = <<>> /\ phase = "listed"
      /\ Wrongs(guesses) = 0 /\ Rights(guesses) = 0
  BY CountNone DEF Init
<1>2. game.attempts = Attempts /\ game.game_state = "Ongoing"
  BY DEF Init, NewGame
<1>3. TypeOK
  <2> DEFINE none == {g.game_id : g \in {}}
  <2>1. NextId(none) \in Nat
    BY NextIdIsNew DEF Bounded
  <2>2. game = [game_id |-> NextId(none), host_id |-> 1, opponent_id |-> 2,
                attempts |-> Attempts, last_hint |-> 0, game_state |-> "Ongoing"]
    BY DEF Init, NewGame
  <2> HIDE DEF none
  <2>3. Attempts \in 0 .. 255
    BY AttemptsAssumption
  <2>4. game \in Games
    BY <2>1, <2>2, <2>3 DEF Games, GameStates
  <2> QED
    BY <1>1, <2>4, BuildsAssumption DEF Init, TypeOK
<1>4. GameMatchesHistory
  BY <1>1, <1>2, AttemptsAssumption DEF GameMatchesHistory, StateFor
<1>5. SubSeq(guesses, 1, Len(guesses) - 1) = <<>>
  BY <1>1
<1>6. AnswersLagOneGuess /\ PanicsOnlyOutOfAttempts
  BY <1>1 DEF AnswersLagOneGuess, PanicsOnlyOutOfAttempts
<1>7. TerminatedAfterVictory
  BY <1>1, <1>5 DEF TerminatedAfterVictory
<1>8. Len(answers) = Len(guesses) /\ Wrongs(guesses) <= Attempts
  BY <1>1, AttemptsAssumption
<1> QED
  BY <1>3, <1>4, <1>6, <1>7, <1>8 DEF GuessInv

\* What is known where the next guess of a listed game is made, and the history
\* after it.
LEMMA Listed ==
  ASSUME GuessInv, phase = "listed", NEW right \in BOOLEAN,
         guesses' = Append(guesses, right)
  PROVE  /\ game \in Games /\ guesses \in Histories /\ guesses' \in Histories
         /\ Wrongs(guesses) \in Nat /\ Rights(guesses) \in Nat
         /\ Wrongs(guesses') = Wrongs(guesses) + (IF right THEN 0 ELSE 1)
         /\ Rights(guesses') = Rights(guesses) + (IF right THEN 1 ELSE 0)
         /\ Len(guesses') = Len(guesses) + 1
         /\ Before(guesses') = guesses
         /\ game.game_state = StateFor(guesses)
         /\ game.attempts = (Attempts - Wrongs(guesses)) % 256
         /\ Len(answers) = Len(guesses)
<1>1. guesses \in Histories /\ game \in Games
  BY DEF GuessInv, TypeOK, Histories
<1> QED
  BY <1>1, CountAppend, Beginnings DEF GuessInv, GameMatchesHistory

\* A guess that is answered (the Guess command).
LEMMA AnsweredKeeps ==
  ASSUME GuessInv, NEW right \in BOOLEAN, Guess(right)
  PROVE  GuessInv'
<1> DEFINE after == GuessedGame(game, right)
           left == (game.attempts - 1) % 256
           W == Wrongs(guesses)
           R == Rights(guesses)
           answer == [verdict |-> Answer(game.game_state), attempts |-> game.attempts]
<1>1. /\ phase = "listed" /\ guesses' = Append(guesses, right)
      /\ ~(overflow_checks /\ Underflows(game, right))
      /\ game' = after /\ answers' = Append(answers, answer)
      /\ phase' = IF game.game_state = "Victory" THEN "terminated" ELSE "listed"
      /\ overflow_checks' = overflow_checks
  BY DEF Guess, AnsweredGame, PhaseAfter
<1>2. /\ game \in Games /\ guesses \in Histories /\ guesses' \in Histories
      /\ W \in Nat /\ R \in Nat
      /\ Wrongs(guesses') = W + (IF right THEN 0 ELSE 1)
      /\ Rights(guesses') = R + (IF right THEN 1 ELSE 0)
      /\ Len(guesses') = Len(guesses) + 1
      /\ Before(guesses') = guesses
      /\ game.game_state = StateFor(guesses)
      /\ game.attempts = (Attempts - W) % 256
      /\ Len(answers) = Len(guesses)
  BY <1>1, Listed
<1>3. /\ after \in Games
      /\ right => after.game_state = "Victory" /\ after.attempts = game.attempts
      /\ ~right =>
           /\ after.attempts = left
           /\ after.game_state = IF left = 0 THEN "Defeat" ELSE game.game_state
  BY <1>2, GuessedFields
<1>4. /\ game.attempts \in 0 .. 255
      /\ left = (Attempts - (W + 1)) % 256
      /\ W <= Attempts => game.attempts = Attempts - W
  BY <1>2, CountDown
<1>5. /\ R > 0 <=> game.game_state = "Victory"
      /\ R = 0 /\ W >= Attempts => game.game_state = "Defeat"
      /\ R = 0 /\ W < Attempts => game.game_state = "Ongoing"
  <2>1. game.game_state = IF R > 0 THEN "Victory"
                          ELSE IF W >= Attempts THEN "Defeat" ELSE "Ongoing"
    BY <1>2 DEF StateFor
  <2> HIDE DEF W, R
  <2> QED
    BY <1>2, <2>1, AttemptsAssumption
<1>6. /\ answers \in Seq([verdict : {"VICTORY", "DEFEAT", "INCORRECT"},
                          attempts : 0 .. 255])
      /\ overflow_checks \in BOOLEAN
  BY DEF GuessInv, TypeOK
<1>7. answer \in [verdict : {"VICTORY", "DEFEAT", "INCORRECT"}, attempts : 0 .. 255]
  BY <1>2, <1>4 DEF Answer, Games, GameStates
<1> HIDE DEF after, left, W, R, answer
<1>8. TypeOK'
  BY <1>1, <1>2, <1>3, <1>6, <1>7 DEF TypeOK, Histories
<1>9. GameMatchesHistory'
  <2> SUFFICES ASSUME R = 0
               PROVE  /\ after.game_state = StateFor(guesses')
                      /\ after.attempts = (Attempts - Wrongs(guesses')) % 256
    BY <1>1, <1>2, <1>5 DEF GameMatchesHistory
  <2>1. CASE right
    BY <1>2, <1>3, <2>1 DEF StateFor
  <2>2. CASE ~right
    <3>1. /\ W + 1 <= Attempts => left = Attempts - (W + 1)
          /\ W >= Attempts => game.game_state = "Defeat"
          /\ W < Attempts => game.game_state = "Ongoing"
      BY <1>2, <1>4, <1>5, CountDown
    <3> QED
      BY <1>2, <1>3, <1>4, <2>2, <3>1, AttemptsAssumption DEF StateFor
  <2> QED
    BY <2>1, <2>2
<1>10. AnswersLagOneGuess'
  <2>1. Len(answers') = Len(guesses') /\ answers'[Len(answers')] = answer
    BY <1>1, <1>2, <1>6, <1>7
  <2>2. SubSeq(guesses', 1, Len(answers') - 1) = guesses
    BY <1>2, <2>1 DEF Before
  <2>3. /\ answer.verdict = Answer(StateFor(guesses))
        /\ answer.attempts = (Attempts - Wrongs(guesses)) % 256
    BY <1>2 DEF answer, W
  <2> QED
    BY <2>1, <2>2, <2>3 DEF AnswersLagOneGuess
<1>11. TerminatedAfterVictory'
  <2>1. Rights(SubSeq(guesses', 1, Len(guesses') - 1)) = R
    BY <1>2 DEF Before, R
  <2> QED
    BY <1>1, <1>2, <1>5, <2>1 DEF TerminatedAfterVictory
<1>12. PanicsOnlyOutOfAttempts'
  BY <1>1 DEF PanicsOnlyOutOfAttempts
<1>13. Len(answers') = Len(guesses')
  BY <1>1, <1>2, <1>6, <1>7
<1>14. ASSUME overflow_checks PROVE Wrongs(guesses') <= Attempts
  <2>1. W <= Attempts
    BY <1>1, <1>14 DEF GuessInv, W
  <2>2. ~right => game.attempts # 0
    BY <1>1, <1>14 DEF Underflows
  <2> QED
    BY <1>2, <1>4, <2>1, <2>2, AttemptsAssumption
<1> QED
  BY <1>1, <1>8, <1>9, <1>10, <1>11, <1>12, <1>13, <1>14 DEF GuessInv

\* A guess that panics on the attempts that are not there.
LEMMA PanicKeeps ==
  ASSUME GuessInv, NEW right \in BOOLEAN, GuessPanics(right)
  PROVE  GuessInv'
<1>1. /\ phase = "listed" /\ guesses' = Append(guesses, right)
      /\ overflow_checks /\ ~right /\ game.attempts = 0
      /\ phase' = "panicked"
      /\ UNCHANGED <<overflow_checks, game, answers>>
  BY DEF GuessPanics, Underflows
<1>2. /\ game \in Games /\ guesses \in Histories /\ guesses' \in Histories
      /\ Wrongs(guesses) \in Nat /\ Rights(guesses) \in Nat
      /\ Wrongs(guesses') = Wrongs(guesses) + 1
      /\ game.game_state = StateFor(guesses)
      /\ game.attempts = (Attempts - Wrongs(guesses)) % 256
      /\ Len(answers) = Len(guesses)
  BY <1>1, Listed
<1>3. TypeOK'
  BY <1>1, <1>2 DEF GuessInv, TypeOK, Histories
<1>4. Wrongs(guesses) = Attempts
  <2>1. Wrongs(guesses) <= Attempts
    BY <1>1 DEF GuessInv
  <2>2. game.attempts = Attempts - Wrongs(guesses)
    BY <1>2, <2>1, CountDown
  <2> QED
    BY <1>1, <1>2, <2>2, AttemptsAssumption
<1>5. game.game_state # "Ongoing"
  BY <1>2, <1>4, AttemptsAssumption DEF StateFor
<1>6. PanicsOnlyOutOfAttempts'
  BY <1>1, <1>2, <1>4, <1>5 DEF PanicsOnlyOutOfAttempts
<1>7. AnswersLagOneGuess'
  <2> SUFFICES ASSUME answers # <<>> PROVE AnswersLagOneGuess'
    BY <1>1 DEF AnswersLagOneGuess
  <2>1. Len(answers) - 1 \in 0 .. Len(guesses)
    BY <1>2 DEF GuessInv, TypeOK
  <2>2. SubSeq(guesses', 1, Len(answers) - 1) = SubSeq(guesses, 1, Len(answers) - 1)
    BY <1>1, <1>2, <2>1, Beginnings
  <2> QED
    BY <1>1, <2>2 DEF GuessInv, AnswersLagOneGuess
<1>8. GameMatchesHistory' /\ TerminatedAfterVictory'
  BY <1>1 DEF GameMatchesHistory, TerminatedAfterVictory
<1> QED
  BY <1>1, <1>3, <1>6, <1>7, <1>8 DEF GuessInv

\* Every guess keeps the invariant.
LEMMA GuessStep == GuessInv /\ [Next]_vars => GuessInv'
<1> SUFFICES ASSUME GuessInv, [Next]_vars PROVE GuessInv'
  OBVIOUS
<1>1. CASE UNCHANGED vars
  BY <1>1 DEF vars, GuessInv, TypeOK, GameMatchesHistory, AnswersLagOneGuess,
              TerminatedAfterVictory, PanicsOnlyOutOfAttempts
<1> QED
  BY <1>1, AnsweredKeeps, PanicKeeps DEF Next

\* The invariant holds throughout a game.
THEOREM GuessInvariant == Spec => []GuessInv
BY GuessInit, GuessStep, PTL DEF Spec

\* The variables of a game have the types of the code's, its u8 included (TypeOK).
THEOREM GuessTypes == Spec => []TypeOK
BY GuessInvariant, PTL DEF GuessInv

\* After any number of guesses, past the last attempt and around the u8 too, a
\* game is what its guesses call for (GameMatchesHistory).
THEOREM HistoryDecides == Spec => []GameMatchesHistory
BY GuessInvariant, PTL DEF GuessInv

\* Each answer speaks of the guesses before the one it answers
\* (AnswersLagOneGuess): the Guess command copies the game too early.
THEOREM AnswersLag == Spec => []AnswersLagOneGuess
BY GuessInvariant, PTL DEF GuessInv

\* A won game is removed by the guess after, no sooner, no later
\* (TerminatedAfterVictory).
THEOREM VictoryTerminates == Spec => []TerminatedAfterVictory
BY GuessInvariant, PTL DEF GuessInv

\* The subtraction panics on one guess only: the first wrong one too many
\* (PanicsOnlyOutOfAttempts).
THEOREM PanicsExplained == Spec => []PanicsOnlyOutOfAttempts
BY GuessInvariant, PTL DEF GuessInv

=============================================================================
