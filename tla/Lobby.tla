-------------------------------- MODULE Lobby --------------------------------
(***************************************************************************)
(* What the server promises about its data, its threads, queues and lock   *)
(* left out: a lobby where users come and go and games begin, are played   *)
(* and end, one of these at a time, until it shuts for ever.               *)
(***************************************************************************)
EXTENDS Integers

VARIABLES users, games, shut

vars == <<users, games, shut>>

Init == users = {} /\ games = {} /\ shut = FALSE

\* A game that is won stays won; one that is lost can still be won.
Later(before, after) ==
  \/ before = "Ongoing"
  \/ before = "Defeat" /\ after # "Ongoing"
  \/ after = "Victory"

\* Nobody has the id of a newcomer.
Join ==
  /\ ~shut
  /\ \E id \in users' \ users : id # 0 /\ users' = users \cup {id}
  /\ UNCHANGED <<games, shut>>

Leave ==
  /\ ~shut
  /\ \E id \in users : users' = users \ {id}
  /\ UNCHANGED <<games, shut>>

\* A user is invited, by somebody else, to a game that is a new one.
Begin ==
  /\ ~shut
  /\ \E game \in games' \ games :
       /\ games' = games \cup {game}
       /\ \A other \in games : other.game_id # game.game_id
       /\ game.opponent_id \in users \ {game.host_id}
       /\ game.game_state = "Ongoing"
  /\ UNCHANGED <<users, shut>>

\* One game moves on between the same players.
Play ==
  /\ ~shut
  /\ \E game \in games, moved \in games' :
       /\ games' = (games \ {game}) \cup {moved}
       /\ moved.game_id = game.game_id
       /\ moved.host_id = game.host_id
       /\ moved.opponent_id = game.opponent_id
       /\ Later(game.game_state, moved.game_state)
  /\ UNCHANGED <<users, shut>>

\* The end of a game may be the last thing that happens.
End ==
  /\ ~shut
  /\ \E game \in games : games' = games \ {game}
  /\ shut' \in BOOLEAN
  /\ UNCHANGED users

Close ==
  /\ shut' = TRUE
  /\ UNCHANGED <<users, games>>

Next == Join \/ Leave \/ Begin \/ Play \/ End \/ Close

Spec == Init /\ [][Next]_vars

=============================================================================
