--------------------------------- MODULE Ids ---------------------------------
(***************************************************************************)
(* The two ways the server makes an id.  Channel ids of the broadcast and  *)
(* user ids are both "one more than the largest in use", so an id comes    *)
(* back once its last holder and everybody above it are gone.  A game id   *)
(* is one decimal number, here the sequence of its digits.                 *)
(***************************************************************************)
EXTENDS Integers, Sequences, FiniteSetsExt

\* Two ways to get it wrong: going down, and forgetting the increment.
NextIdDown(ids) == Max(ids \cup {0}) - 1
NextIdNoIncrement(ids) == Max(ids \cup {0})

\* iter().max().unwrap_or(0) + 1
NextId(ids) == Max(ids \cup {0}) + 1

\* Game::new: the nanoseconds since 1970, then the ids of guest and host.
GameId(timestamp, id_guest, id_host) == timestamp \o id_guest \o id_host

=============================================================================
