----------------------------- MODULE ServerData -----------------------------
(***************************************************************************)
(* The data behind the server's RwLock and the methods that change it, as  *)
(* operators on its two lists.                                             *)
(*                                                                         *)
(* connected_users is a set: ids are pushed once, in ascending order.      *)
(* ongoing_games is a set of games numbered in the order in which they     *)
(* were pushed, so "the first game such that" is the one with the least    *)
(* game_id; the real id is a timestamp with two user ids glued to it.      *)
(* Texts are left out: whether a guess is right is a Boolean, a hint is a  *)
(* number that no other hint has, and the secret and the last guess, which *)
(* only spectators read, have no field.                                    *)
(***************************************************************************)
EXTENDS Ids

CONSTANT Attempts   \* attempts of a new game, 3 in the code

ASSUME AttemptsAssumption == Attempts \in 1 .. 255

GameStates == {"Victory", "Defeat", "Ongoing"}

\* last_hint is 0 while there is no hint.
Games == [game_id : Nat, host_id : Nat, opponent_id : Nat,
          attempts : 0 .. 255, last_hint : Nat, game_state : GameStates]

AddedUser(users) == NextId(users)

UserGames(games, id) == {g \in games : id \in {g.host_id, g.opponent_id}}

HostedGames(games, id) == {g \in games : g.host_id = id}

First(games) == CHOOSE g \in games : \A h \in games : g.game_id <= h.game_id

NewGame(games, host, guest) ==
  [game_id |-> NextId({g.game_id : g \in games}),
   host_id |-> host, opponent_id |-> guest,
   attempts |-> Attempts, last_hint |-> 0, game_state |-> "Ongoing"]

\* The two refusals of start_game; nothing refuses a user already in a game.  A
\* mistake is to forget the first.
MayStartWithAnyone(users, host, guest) == guest # host
MayStart(users, host, guest) == guest \in users /\ guest # host

HintedGame(game, hint) == [game EXCEPT !.last_hint = hint]

\* attempts is a u8: lowering 0 panics in a build with overflow checks and
\* wraps to 255 in one without.  A mistake is to be one off.
UnderflowsEarly(game, right) == ~right /\ game.attempts <= 1
Underflows(game, right) == ~right /\ game.attempts = 0

\* Two mistakes: arithmetic without a width, and a state that does not move when
\* the attempts run out.
GuessedGameUnbounded(game, right) ==
  IF right THEN [game EXCEPT !.game_state = "Victory"]
           ELSE [game EXCEPT !.attempts = @ - 1]
GuessedGameNeverLost(game, right) ==
  IF right THEN [game EXCEPT !.game_state = "Victory"]
           ELSE [game EXCEPT !.attempts = (@ - 1) % 256]

GuessedGame(game, right) ==
  IF right THEN [game EXCEPT !.game_state = "Victory"]
  ELSE LET left == (game.attempts - 1) % 256 IN
       [game EXCEPT !.attempts = left,
                    !.game_state = IF left = 0 THEN "Defeat" ELSE @]

\* What the guesser is answered and what the host is told, from the state of
\* the game the handler looked at.
Answer(state) ==
  CASE state = "Victory" -> "VICTORY"
    [] state = "Defeat"  -> "DEFEAT"
    [] state = "Ongoing" -> "INCORRECT"

HostNews(state) ==
  CASE state = "Victory" -> "DEFEAT"
    [] state = "Defeat"  -> "VICTORY"
    [] state = "Ongoing" -> "INCORRECT"

=============================================================================
