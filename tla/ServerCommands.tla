--------------------------- MODULE ServerCommands ---------------------------
(***************************************************************************)
(* The commands of ServerCommandList::execute, one action each, on top of  *)
(* the threads of Server, and the next-state relation of the whole server. *)
(* A command holds the write lock over all of its work, what it sends to   *)
(* the dispatcher included, except StartGame, which sends after releasing  *)
(* it.                                                                     *)
(***************************************************************************)
EXTENDS Server

Request(c, kind) ==
  /\ pc[c] = "read"
  /\ kind \in RequestKinds[c]
  /\ requests < MaxRequests
  /\ requests' = requests + 1
  /\ UNCHANGED peer

\* The requests whose handler takes the lock.
LockingKinds ==
  {"SPECTATE", "REQUEST", "STARTGAME", "HINT", "GUESS", "CANCEL", "DROP",
   "BADHINT"}

MyGames(c) == UserGames(ongoing_games, local_id[c])

MyGame(c) == First(MyGames(c))

Notify(id, notice) == Bus!Send(<<id, notice>>)

\* HeartBeat, Message, Unknown, and every command refused for its arguments.
Chat(c) ==
  /\ Request(c, "CHAT")
  /\ Goto(c, "reply")
  /\ UNCHANGED <<dataVars, lockVars, busVars, local_id, opponent_id,
                 write_failed>>

RequestOpponents(c) ==
  /\ Request(c, "REQUEST")
  /\ LockFree
  /\ Goto(c, "reply")
  /\ UNCHANGED <<dataVars, lockVars, busVars, local_id, opponent_id,
                 write_failed>>

\* A browser: the page with the games is written, a failure to write it panics.
\* Allowed before the login too, where it leaves the thread waiting for one.
Spectate(c) ==
  /\ pc[c] \in {"login", "read"}
  /\ "SPECTATE" \in RequestKinds[c]
  /\ requests < MaxRequests
  /\ LockFree
  /\ requests' = requests + 1
  /\ \/ Goto(c, IF pc[c] = "read" THEN "recv" ELSE "login") /\ UNCHANGED busVars
     \/ peer[c] = "closed" /\ End(c, "panicked")
  /\ UNCHANGED <<dataVars, lockVars, peer, local_id, opponent_id, write_failed>>

\* Input that a handler unwraps outside the lock: a buffer that is not UTF-8, a
\* length beyond the buffer, a direct message with no text.
Malformed(c) ==
  /\ pc[c] \in {"login", "read"}
  /\ "MALFORMED" \in RequestKinds[c]
  /\ requests < MaxRequests
  /\ requests' = requests + 1
  /\ End(c, "panicked")
  /\ UNCHANGED <<dataVars, lockVars, peer, local_id, opponent_id, write_failed>>

\* A direct message may be read while few are on their way; of a client that is
\* gone, only what it sent before is read, which is counted.
DirectMessageRead(c) ==
  /\ pc[c] = "read"
  /\ "DM" \in RequestKinds[c]
  /\ \A d \in Conns : Len(thread_chan) + Len(channel[d]) < MaxQueued
  /\ IF peer[c] = "open" THEN UNCHANGED requests
     ELSE requests < MaxRequests /\ requests' = requests + 1
  /\ UNCHANGED peer

\* Any id will do: nothing looks for the user.
DirectMessage(c) ==
  /\ DirectMessageRead(c)
  /\ \E id \in UserIds : Notify(id, "DM")
  /\ Goto(c, "reply")
  /\ UNCHANGED <<dataVars, lockVars, local_id, opponent_id, write_failed>>

StartGame(c) ==
  /\ Request(c, "STARTGAME")
  /\ LockFree
  /\ \E guest \in UserIds :
       IF MayStart(connected_users, local_id[c], guest)
       THEN /\ ongoing_games' =
                 ongoing_games \cup {NewGame(ongoing_games, local_id[c], guest)}
            /\ opponent_id' = [opponent_id EXCEPT ![c] = guest]
            /\ Goto(c, "notify")
       ELSE /\ UNCHANGED <<ongoing_games, opponent_id>>
            /\ Goto(c, "reply")
  /\ UNCHANGED <<connected_users, lockVars, busVars, local_id, write_failed>>

\* The second half of StartGame, after the guard is gone.
NotifyGuest(c) ==
  /\ pc[c] = "notify"
  /\ Notify(opponent_id[c], "REQUESTEDGAME")
  /\ opponent_id' = [opponent_id EXCEPT ![c] = 0]
  /\ Goto(c, "reply")
  /\ UNCHANGED <<dataVars, lockVars, clientVars, local_id, write_failed>>

Replace(game, by) == (ongoing_games \ {game}) \cup {by}

\* A mistake: the hint goes back to who gave it.
HintTargetSelf(c) == local_id[c]

\* get_opponent_id: the guest of the first game that the user hosts.
HintTarget(c) == First(HostedGames(ongoing_games, local_id[c])).opponent_id

\* The hint, known by the number of its request, is recorded in the first game the
\* user plays in; it is sent to the guest of the first game the user hosts, or to
\* nobody when there is none.
Hint(c) ==
  /\ Request(c, "HINT")
  /\ LockFree
  /\ IF MyGames(c) = {}
     THEN UNCHANGED <<ongoing_games, busVars>>
     ELSE /\ ongoing_games' =
               Replace(MyGame(c), HintedGame(MyGame(c), requests'))
          /\ IF HostedGames(ongoing_games, local_id[c]) = {}
             THEN UNCHANGED busVars
             ELSE Notify(HintTarget(c), "HINT")
  /\ Goto(c, "reply")
  /\ UNCHANGED <<connected_users, lockVars, local_id, opponent_id, write_failed>>

\* A mistake: the won game stays in the list.
GamesAfterGuessKept(game, right) == Replace(game, GuessedGame(game, right))

\* The guess is applied to the game; a game that was won already is removed.
GamesAfterGuess(game, right) ==
  IF game.game_state = "Victory"
  THEN ongoing_games \ {game}
  ELSE Replace(game, GuessedGame(game, right))

\* Host and guest may both guess, and the news always goes to the host.  The
\* underflow panics inside the lock.
Guess(c) ==
  /\ Request(c, "GUESS")
  /\ LockFree
  /\ IF MyGames(c) = {}
     THEN Goto(c, "reply") /\ UNCHANGED <<ongoing_games, poisoned, busVars>>
     ELSE \E right \in BOOLEAN :
            IF overflow_checks /\ Underflows(MyGame(c), right)
            THEN /\ poisoned' = TRUE
                 /\ End(c, "panicked")
                 /\ UNCHANGED ongoing_games
            ELSE /\ ongoing_games' = GamesAfterGuess(MyGame(c), right)
                 /\ Notify(MyGame(c).host_id, HostNews(MyGame(c).game_state))
                 /\ Goto(c, "reply")
                 /\ UNCHANGED poisoned
  /\ UNCHANGED <<connected_users, lock_holder, overflow_checks, local_id,
                 opponent_id, write_failed>>

\* A hint whose length cuts it inside a character: the buffer is UTF-8 and the
\* hint is not, which panics inside the lock.
BadHint(c) ==
  /\ Request(c, "BADHINT")
  /\ LockFree
  /\ poisoned' = TRUE
  /\ End(c, "panicked")
  /\ UNCHANGED <<dataVars, lock_holder, overflow_checks, local_id, opponent_id,
                 write_failed>>

\* A mistake: the notice goes to the player who cancels.
CancelledToSelf(c) ==
  /\ ongoing_games' = ongoing_games \ {MyGame(c)}
  /\ Notify(local_id[c], "MATCH CANCELED")

\* terminate_game, and the notice that goes to the guest, whoever cancels.
Cancelled(c) ==
  /\ ongoing_games' = ongoing_games \ {MyGame(c)}
  /\ Notify(MyGame(c).opponent_id, "MATCH CANCELED")

CancelGame(c) ==
  /\ Request(c, "CANCEL")
  /\ LockFree
  /\ IF MyGames(c) = {} THEN UNCHANGED <<ongoing_games, busVars>>
                        ELSE Cancelled(c)
  /\ Goto(c, "reply")
  /\ UNCHANGED <<connected_users, lockVars, local_id, opponent_id, write_failed>>

\* The first game is cancelled.  If the user has a second one, the thread asks
\* for the lock it is holding; drop_user, which follows, is never reached.  If
\* not, the thread ends and its user stays registered.
Drop(c) ==
  /\ Request(c, "DROP")
  /\ LockFree
  /\ IF MyGames(c) = {} THEN UNCHANGED <<ongoing_games, busVars>>
                        ELSE Cancelled(c)
  /\ IF UserGames(ongoing_games', local_id[c]) = {}
     THEN Goto(c, "leaving") /\ UNCHANGED lock_holder
     ELSE Goto(c, "blocked") /\ lock_holder' = c
  /\ UNCHANGED <<connected_users, poisoned, overflow_checks, local_id,
                 opponent_id, write_failed>>

\* TerminateUser: the thread returns.
Leave(c) ==
  /\ pc[c] = "leaving"
  /\ End(c, "dropped")
  /\ UNCHANGED <<dataVars, lockVars, clientVars, local_id, opponent_id,
                 write_failed>>

-----------------------------------------------------------------------------

\* Where a thread, its client silent, finds the lock poisoned: every unwrap of
\* read() or write() panics.
AtLock(c) ==
  \/ pc[c] = "greet"
  \/ pc[c] \in {"login", "read", "reply"} /\ peer[c] = "closed"
  \/ /\ pc[c] = "recv" /\ peer[c] = "closed"
     /\ channel[c] # <<>> /\ Head(channel[c])[1] = local_id[c]

LockPoisoned(c) ==
  /\ poisoned
  /\ AtLock(c)
  /\ End(c, "panicked")
  /\ UNCHANGED <<dataVars, lockVars, clientVars, local_id, opponent_id,
                 write_failed>>

\* Where it finds it so because of what the client sent.
LoginPoisoned(c) ==
  /\ poisoned
  /\ pc[c] = "login"
  /\ End(c, "panicked")
  /\ UNCHANGED <<dataVars, lockVars, clientVars, local_id, opponent_id,
                 write_failed>>

RequestPoisoned(c) ==
  /\ poisoned
  /\ \E kind \in LockingKinds : Request(c, kind)
  /\ End(c, "panicked")
  /\ UNCHANGED <<dataVars, lockVars, local_id, opponent_id, write_failed>>

Hangup(c) ==
  /\ Started(c)
  /\ c \in Leavers
  /\ peer[c] = "open"
  /\ peer' = [peer EXCEPT ![c] = "closed"]
  /\ UNCHANGED <<dataVars, lockVars, busVars, pc, local_id, opponent_id,
                 requests, write_failed>>

Dispatch ==
  /\ Bus!Dispatch
  /\ UNCHANGED <<dataVars, lockVars, clientVars, pc, local_id, opponent_id,
                 write_failed>>

\* What a thread does by itself, its client sending nothing more.
Turn(c) ==
  Greet(c) \/ LoginEof(c) \/ RecvNothing(c) \/ Recv(c) \/ Idle(c) \/ Eof(c)
    \/ NotifyGuest(c) \/ Reply(c) \/ Leave(c) \/ LockPoisoned(c)

\* What it does on behalf of its client, or of a client that is just arriving.
Serve(c) ==
  Connect(c) \/ Login(c) \/ Reject(c) \/ LoginPoisoned(c)
    \/ Chat(c) \/ RequestOpponents(c) \/ Spectate(c) \/ Malformed(c)
    \/ DirectMessage(c) \/ StartGame(c) \/ Hint(c) \/ Guess(c)
    \/ BadHint(c) \/ CancelGame(c) \/ Drop(c) \/ RequestPoisoned(c)

Next ==
  \/ \E c \in Conns : Turn(c) \/ Serve(c) \/ Hangup(c)
  \/ Dispatch

Spec == Init /\ [][Next]_vars

\* The scheduler runs every runnable thread, and reads time out after 200 ms, so
\* a thread is never kept waiting by its client; what clients do is not fair.
Fairness ==
  /\ \A c \in Conns : WF_vars(Turn(c))
  /\ WF_vars(Dispatch)

FairSpec == Spec /\ Fairness

=============================================================================
