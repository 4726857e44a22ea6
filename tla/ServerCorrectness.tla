------------------------- MODULE ServerCorrectness -------------------------
(***************************************************************************)
(* What makes the server correct, and what its comments promise that it    *)
(* does not keep.                                                          *)
(***************************************************************************)
EXTENDS ServerCommands

ThreadStep(c) == pc'[c] # pc[c]

-----------------------------------------------------------------------------
(* Identities.                                                             *)

\* As long as no response failed to be written, two running sessions never share
\* a user id and each is in connected_users: messages reach one client only, and
\* the user one thread drops is its own, although ids are reused (add_user,
\* drop_user, and the moments at which threads call them).
SessionsDistinct ==
  write_failed = {} =>
    \A c \in Conns : Session(c) =>
      /\ local_id[c] \in connected_users
      /\ \A d \in Conns : Session(d) /\ local_id[d] = local_id[c] => c = d

\* Every registered user is that of a thread which still runs, or which one of
\* the three exits without a drop_user ended: DROP, a panic, a lost channel.  A
\* hang-up or a refused login leaves nobody behind (process_stream,
\* validate_user).
RegisteredHasThread ==
  \A id \in connected_users : \E c \in Conns :
    /\ local_id[c] = id
    /\ Session(c) \/ pc[c] \in {"dropped", "panicked", "disconnected"}

\* A thread that is not past its login touches no game and sends nothing to the
\* others, and the only user it can add or remove is a new one of its own
\* (validate_user runs process_stream before there is an id).
UnauthenticatedInert ==
  [][\A c \in Conns : ~Session(c) /\ ThreadStep(c) =>
       /\ UNCHANGED <<ongoing_games, thread_chan>>
       /\ \/ connected_users' = connected_users
          \/ /\ local_id'[c] \notin connected_users
             /\ connected_users' = connected_users \cup {local_id'[c]}]_vars

-----------------------------------------------------------------------------
(* Games.                                                                  *)

\* A game is between two users, is lost exactly when it can be, and a poisoned
\* lock has two causes: a guess in a game with no attempt left, and a hint
\* that is no text (update_game_guess, start_game, execute).
GamesWellFormed ==
  /\ \A g, h \in ongoing_games : g.game_id = h.game_id => g = h
  /\ \A g \in ongoing_games :
       /\ g.host_id # g.opponent_id
       /\ g.game_state = "Ongoing" => g.attempts \in 1 .. Attempts
       /\ overflow_checks => g.attempts \in 0 .. Attempts
       /\ g.game_state = "Defeat" /\ overflow_checks => g.attempts = 0
  /\ poisoned =>
       \/ overflow_checks /\ \E g \in ongoing_games : g.attempts = 0
       \/ \E c \in Conns : pc[c] = "panicked" /\ "BADHINT" \in RequestKinds[c]

\* A game keeps its two players, a won game stays won while it lasts, and a
\* game moves only to where its attempts allow (Guess and its late removal).
GameMoves ==
  [][\A g \in ongoing_games, h \in ongoing_games' : g.game_id = h.game_id =>
       /\ h.host_id = g.host_id /\ h.opponent_id = g.opponent_id
       /\ g.game_state = "Victory" => h.game_state = "Victory"
       /\ h.game_state = "Ongoing" => g.game_state = "Ongoing"
       /\ h.game_state = "Defeat" => g.game_state = "Defeat" \/ g.attempts = 1
       /\ h.attempts # g.attempts =>
            g.game_state # "Victory" /\ h.attempts = (g.attempts - 1) % 256]_vars

\* A game leaves the list only by a step of a thread with the id of one of its
\* players, and that very step sends the guest its cancellation or, of a game
\* that was won, the host its defeat: no game vanishes without a word (Drop,
\* CancelGame, Guess).
EndsAreAnnounced ==
  [][\A g \in ongoing_games :
       g.game_id \notin {h.game_id : h \in ongoing_games'} =>
         /\ \E c \in Conns : Session(c) /\ ThreadStep(c)
                              /\ local_id[c] \in {g.host_id, g.opponent_id}
         /\ \/ thread_chan' = Append(thread_chan,
                                     <<g.opponent_id, "MATCH CANCELED">>)
            \/ /\ g.game_state = "Victory"
               /\ thread_chan' = Append(thread_chan, <<g.host_id, "DEFEAT">>)]_vars

\* A hint is recorded by a session that plays in the game.  If that is the host,
\* the very step sends the hint to the guest of this game and of no other, though
\* the game and the guest are looked up apart; if it is the guest, the hint goes
\* to the guest of a game it hosts itself, or to nobody if there is none (Hint,
\* get_game_id, get_opponent_id).
HintsReachTheGuest ==
  [][\A g \in ongoing_games, h \in ongoing_games' :
       g.game_id = h.game_id /\ g.last_hint # h.last_hint =>
         \E c \in Conns :
           LET hosted == HostedGames(ongoing_games, local_id[c])
               told   == {k.opponent_id : k \in hosted} IN
           /\ Session(c) /\ ThreadStep(c)
           /\ \/ /\ local_id[c] = g.host_id
                 /\ thread_chan' = Append(thread_chan, <<g.opponent_id, "HINT">>)
              \/ /\ local_id[c] = g.opponent_id
                 /\ IF hosted = {} THEN UNCHANGED thread_chan
                    ELSE \E guest \in told :
                           thread_chan' = Append(thread_chan, <<guest, "HINT">>)]_vars

\* The players of a listed game are registered, or were, and only the two ways
\* that drop a user took them off: the end of their stream and a lost response.
\* DROP and a panic leave a player registered; a game outlives its players only by
\* a hang-up, and whoever is given the id of one plays on in it (start_game,
\* drop_user, which leaves the games alone).
PlayersAccountedFor ==
  \A g \in ongoing_games : \A id \in {g.host_id, g.opponent_id} :
    \/ id \in connected_users
    \/ \E c \in Conns : local_id[c] = id /\ (pc[c] = "closed" \/ c \in write_failed)

\* Once a panic has poisoned the lock, no user and no game ever changes again and
\* no login succeeds, while the listener goes on accepting clients (every read()
\* and write() of the lock is unwrapped).
PoisonFreezes ==
  [][poisoned =>
       /\ UNCHANGED dataVars
       /\ \A c \in Conns : Session(c)' => Session(c)]_vars

\* No running thread is ever told that its channel is disconnected: whoever dies
\* and whoever's channel id is given out again, the dispatcher unsubscribes only
\* the dead (Broadcast, and client_connection, which ends on Disconnected).
NeverCutOff == \A c \in Conns : pc[c] # "disconnected"

-----------------------------------------------------------------------------
(* What it all amounts to.                                                 *)

\* A game without its attempts and its hint.
LobbyGame(g) ==
  [game_id |-> g.game_id, host_id |-> g.host_id, opponent_id |-> g.opponent_id,
   game_state |-> g.game_state]

LobbyGames == {LobbyGame(g) : g \in ongoing_games}

\* The lock is lost for good: poisoned, or held by a thread that waits for it.
Shut == poisoned \/ lock_holder # NoConn

L == INSTANCE Lobby WITH users <- connected_users, games <- LobbyGames, shut <- Shut

\* The server, its threads working on the same data in any order, is a lobby: it
\* changes one user or one game at a time, invites only who is registered, gives
\* out ids that are free, and changes nothing once the lock is lost.
ImplementsLobby == L!Spec

-----------------------------------------------------------------------------
(* Liveness.                                                               *)

Stuck == lock_holder # NoConn

\* The thread of a client that hung up ends, whatever it was doing, unless some
\* thread is blocked for ever inside the lock.
HungUpThreadsEnd ==
  \A c \in Conns :
    Started(c) /\ peer[c] = "closed" ~> pc[c] \in Ended \/ Stuck

\* A session takes the first message of its channel.
Takes(c) == channel[c] # <<>> /\ channel'[c] = Tail(channel[c])

\* Queues never stand still, however much is sent meanwhile: as long as there is
\* something in the dispatcher's queue it takes another message, and so does every
\* session with its channel, once per turn, unless the lock is blocked for ever.
\* A thread that waits for its login takes nothing (broadcast, client_connection).
QueuesMove ==
  /\ []<>(thread_chan = <<>>) \/ []<><<Bus!Dispatch>>_vars
  /\ \A c \in Conns :
       []<>(Stuck \/ ~Session(c) \/ channel[c] = <<>>) \/ []<><<Takes(c)>>_vars

-----------------------------------------------------------------------------
(* What the comments promise.                                              *)

\* drop_user: "If the user already was removed, [return] an error": a thread
\* whose user was dropped removes nobody afterwards.
SecondDropRefused ==
  [][\A c \in write_failed : ThreadStep(c) =>
       connected_users \subseteq connected_users']_vars

\* "connected_users" and "list of connected users": a registered user has a
\* running thread.
ConnectedUsersConnected ==
  \A id \in connected_users : \E c \in Conns : Session(c) /\ local_id[c] = id

\* The read timeout is there "in case a client drops connection": the thread of
\* a client that hung up ends.
EveryHungUpThreadEnds ==
  \A c \in Conns : Started(c) /\ peer[c] = "closed" ~> pc[c] \in Ended

=============================================================================
