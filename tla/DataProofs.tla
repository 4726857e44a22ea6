----------------------------- MODULE DataProofs -----------------------------
(***************************************************************************)
(* What the steps of the threads do to the data behind the lock, for any   *)
(* number of clients and requests.                                         *)
(*                                                                         *)
(* StepKinds sorts the steps once: one leaves the data alone, registers or *)
(* drops one user, or begins, moves or ends one game; the properties about *)
(* games and players follow from the kind of the step, whatever command it *)
(* belongs to.                                                             *)
(***************************************************************************)
EXTENDS ServerProofs

GameIds(games) == {g.game_id : g \in games}

UniqueIds(games) == \A g, h \in games : g.game_id = h.game_id => g = h

\* The games are numbered, and commands find the ones they look for.
GameTypes ==
  /\ ongoing_games \in SUBSET Games
  /\ UniqueIds(ongoing_games)
  /\ Bounded(GameIds(ongoing_games))

-----------------------------------------------------------------------------
(* The kinds of steps.                                                     *)

\* The second clause of GamesWellFormed: what a thread can have panicked on while
\* it was inside the lock.
PoisonCause ==
  \/ overflow_checks /\ \E g \in ongoing_games : g.attempts = 0
  \/ \E c \in Conns : pc[c] = "panicked" /\ "BADHINT" \in RequestKinds[c]

LockKept == UNCHANGED <<lock_holder, poisoned, overflow_checks>>

\* The lock may be lost in such a step.
DataKept ==
  /\ UNCHANGED <<dataVars, overflow_checks>>
  /\ LockKept \/ (LockFree /\ PoisonCause')

Joins == \E id \in Nat \ {0} : /\ id \notin connected_users
                               /\ connected_users' = connected_users \cup {id}

Leaves(c) == /\ connected_users' = DropUser(local_id[c])
             /\ local_id' = local_id
             /\ pc'[c] = "closed" \/ c \in write_failed'

UsersStep(c) ==
  /\ LockFree /\ LockKept /\ UNCHANGED ongoing_games
  /\ Joins \/ Leaves(c)

Begins(c) ==
  \E guest \in connected_users \ {local_id[c]} :
    ongoing_games' = ongoing_games \cup {NewGame(ongoing_games, local_id[c], guest)}

Hints ==
  /\ requests' = requests + 1
  /\ \E game \in ongoing_games :
       ongoing_games' = Replace(game, HintedGame(game, requests'))

Guesses ==
  \E game \in ongoing_games, right \in BOOLEAN :
    /\ game.game_state # "Victory"
    /\ ~(overflow_checks /\ Underflows(game, right))
    /\ ongoing_games' = Replace(game, GuessedGame(game, right))

Ends == \E game \in ongoing_games : ongoing_games' = ongoing_games \ {game}

\* The end of a game may be that of the lock too, which its thread asks for again.
GamesStep(c) ==
  /\ LockFree /\ Session(c)
  /\ UNCHANGED <<connected_users, local_id, write_failed, overflow_checks, poisoned>>
  /\ \/ LockKept /\ (Begins(c) \/ Hints \/ Guesses)
     \/ Ends

\* The first of some games is one of them (get_game_id, get_opponent_id).
LEMMA FirstIsOne ==
  ASSUME NEW games \in SUBSET Games, games # {}
  PROVE  /\ First(games) \in games
         /\ \A g \in games : First(games).game_id <= g.game_id
<1>1. GameIds(games) \in SUBSET Nat /\ GameIds(games) # {}
  BY DEF GameIds, Games
<1>2. PICK m \in GameIds(games) : \A k \in GameIds(games) : m <= k
  BY <1>1, LeastNat
<1>3. PICK g \in games : g.game_id = m
  BY <1>2 DEF GameIds
<1>4. \A h \in games : g.game_id <= h.game_id
  BY <1>2, <1>3 DEF GameIds
<1> QED
  BY <1>3, <1>4 DEF First

\* The game a command is about is a listed one.
LEMMA MyGameIsListed ==
  ASSUME GameTypes, NEW c \in Conns, MyGames(c) # {}
  PROVE  MyGame(c) \in ongoing_games
<1>1. MyGames(c) \in SUBSET ongoing_games
  BY DEF MyGames, UserGames
<1> QED
  BY <1>1, FirstIsOne DEF MyGame, GameTypes

\* What the threads do by themselves: only the end of a stream and a response
\* that is lost change the data.
LEMMA TurnKinds ==
  ASSUME IdInv, GameTypes, NEW c \in Conns, Turn(c)
  PROVE  DataKept \/ UsersStep(c)
<1>1. ASSUME SendResponse(c), UNCHANGED <<ongoing_games, local_id, lockVars>>
      PROVE  DataKept \/ UsersStep(c)
  BY <1>1 DEF SendResponse, DataKept, UsersStep, LockKept, Leaves, dataVars, lockVars
<1>2. CASE Greet(c)
  BY <1>1, <1>2 DEF Greet
<1>3. CASE LoginEof(c)
  <2>1. pc'[c] = "closed"
    BY <1>3 DEF LoginEof, End, Goto, IdInv, IdTypes
  <2> QED
    BY <1>3, <2>1 DEF LoginEof, UsersStep, LockKept, Leaves, lockVars
<1>4. CASE RecvNothing(c)
  BY <1>4 DEF RecvNothing, DataKept, LockKept, lockVars
<1>5. CASE Recv(c)
  <2>1. CASE UNCHANGED <<connected_users, write_failed>>
    BY <1>5, <2>1 DEF Recv, DataKept, LockKept, dataVars, lockVars
  <2>2. CASE SendResponse(c)
    BY <1>1, <1>5, <2>2 DEF Recv
  <2> QED
    BY <1>5, <2>1, <2>2 DEF Recv
<1>6. CASE Idle(c)
  BY <1>6 DEF Idle, DataKept, LockKept, lockVars
<1>7. CASE Eof(c)
  <2>1. pc'[c] = "closed"
    BY <1>7 DEF Eof, EndOfStream, End, Goto, IdInv, IdTypes
  <2> QED
    BY <1>7, <2>1 DEF Eof, UsersAfterEof, UsersStep, LockKept, Leaves, lockVars
<1>8. CASE NotifyGuest(c)
  BY <1>8 DEF NotifyGuest, DataKept, LockKept, lockVars
<1>9. CASE Reply(c)
  BY <1>1, <1>9 DEF Reply
<1>10. CASE Leave(c)
  BY <1>10 DEF Leave, DataKept, LockKept, lockVars
<1>11. CASE LockPoisoned(c)
  BY <1>11 DEF LockPoisoned, DataKept, LockKept, lockVars
<1> QED
  BY <1>2, <1>3, <1>4, <1>5, <1>6, <1>7, <1>8, <1>9, <1>10, <1>11 DEF Turn

\* A guess moves the game, ends one that was won, or panics on the underflow.
LEMMA GuessKinds ==
  ASSUME GameTypes, NEW c \in Conns, Session(c), Guess(c)
  PROVE  DataKept \/ GamesStep(c)
<1>1. /\ LockFree
      /\ UNCHANGED <<connected_users, lock_holder, overflow_checks, local_id,
                     write_failed>>
  BY DEF Guess
<1>2. CASE MyGames(c) = {}
  BY <1>1, <1>2 DEF Guess, DataKept, LockKept, dataVars, lockVars
<1>3. CASE MyGames(c) # {}
  <2> DEFINE game == MyGame(c)
  <2>1. game \in ongoing_games
    BY <1>3, MyGameIsListed
  <2>2. PICK right \in BOOLEAN :
          IF overflow_checks /\ Underflows(game, right)
          THEN UNCHANGED ongoing_games
          ELSE /\ ongoing_games' = GamesAfterGuess(game, right)
               /\ UNCHANGED poisoned
    BY <1>3 DEF Guess
  <2> HIDE DEF game
  <2>3. CASE overflow_checks /\ Underflows(game, right)
    BY <1>1, <2>1, <2>2, <2>3 DEF DataKept, dataVars, PoisonCause, Underflows
  <2>4. CASE ~(overflow_checks /\ Underflows(game, right))
    <3>1. CASE game.game_state = "Victory"
      BY <1>1, <2>1, <2>2, <2>4, <3>1 DEF GamesAfterGuess, GamesStep, Ends
    <3>2. CASE game.game_state # "Victory"
      <4>1. Guesses
        BY <2>1, <2>2, <2>4, <3>2 DEF GamesAfterGuess, Guesses
      <4> QED
        BY <1>1, <2>2, <2>4, <4>1 DEF GamesStep, LockKept, lockVars
    <3> QED
      BY <3>1, <3>2
  <2> QED
    BY <2>3, <2>4
<1> QED
  BY <1>2, <1>3

\* A cancelled game is taken off the list.
LEMMA CancelledEnds ==
  ASSUME GameTypes, NEW c \in Conns, MyGames(c) # {}, Cancelled(c)
  PROVE  Ends
BY MyGameIsListed DEF Cancelled, Ends

\* A request is read by a session.
LEMMA ReadersAreSessions ==
  ASSUME NEW c \in Conns, pc[c] = "read"
  PROVE  Session(c)
BY DEF Session, Points, Ended

\* A login registers a user, and a command touches at most one game.
LEMMA ServeKinds ==
  ASSUME IdInv, GameTypes, NEW c \in Conns, Serve(c)
  PROVE  DataKept \/ UsersStep(c) \/ GamesStep(c)
<1>1. CASE Connect(c)
  BY <1>1 DEF Connect, DataKept, LockKept, lockVars
<1>2. CASE Login(c)
  <2>1. AddedUser(connected_users) \in Nat \ {0}
        /\ AddedUser(connected_users) \notin connected_users
    BY NextIdIsNew DEF AddedUser, IdInv, IdTypes
  <2> QED
    BY <1>2, <2>1 DEF Login, UsersStep, Joins, LockKept, lockVars
<1>3. CASE Reject(c)
  BY <1>3 DEF Reject, DataKept, LockKept, lockVars
<1>4. CASE LoginPoisoned(c)
  BY <1>4 DEF LoginPoisoned, DataKept, LockKept, lockVars
<1>5. CASE Chat(c)
  BY <1>5 DEF Chat, DataKept, LockKept, lockVars
<1>6. CASE RequestOpponents(c)
  BY <1>6 DEF RequestOpponents, DataKept, LockKept, lockVars
<1>7. CASE Spectate(c)
  BY <1>7 DEF Spectate, DataKept, LockKept, lockVars
<1>8. CASE Malformed(c)
  BY <1>8 DEF Malformed, DataKept, LockKept, lockVars
<1>9. CASE DirectMessage(c)
  BY <1>9 DEF DirectMessage, DataKept, LockKept, lockVars
<1>10. CASE StartGame(c)
  <2>1. /\ LockFree /\ LockKept /\ Session(c)
        /\ UNCHANGED <<connected_users, local_id, write_failed>>
    BY <1>10, ReadersAreSessions DEF StartGame, Request, LockKept, lockVars
  <2>2. PICK guest \in UserIds :
          IF MayStart(connected_users, local_id[c], guest)
          THEN ongoing_games' = ongoing_games
                                  \cup {NewGame(ongoing_games, local_id[c], guest)}
          ELSE UNCHANGED ongoing_games
    BY <1>10 DEF StartGame
  <2>3. CASE MayStart(connected_users, local_id[c], guest)
    <3>1. Begins(c)
      BY <2>2, <2>3 DEF MayStart, Begins
    <3> QED
      BY <2>1, <3>1 DEF GamesStep, LockKept
  <2>4. CASE ~MayStart(connected_users, local_id[c], guest)
    BY <2>1, <2>2, <2>4 DEF DataKept, dataVars, LockKept, lockVars
  <2> QED
    BY <2>3, <2>4
<1>11. CASE Hint(c)
  <2>1. /\ LockFree /\ LockKept /\ Session(c)
        /\ UNCHANGED <<connected_users, local_id, write_failed>>
    BY <1>11, ReadersAreSessions DEF Hint, Request, LockKept, lockVars
  <2>2. CASE MyGames(c) = {}
    BY <1>11, <2>1, <2>2 DEF Hint, DataKept, dataVars, LockKept
  <2>3. CASE MyGames(c) # {}
    <3>1. Hints
      BY <1>11, <2>3, MyGameIsListed DEF Hint, Hints, Request
    <3> QED
      BY <2>1, <3>1 DEF GamesStep, LockKept
  <2> QED
    BY <2>2, <2>3
<1>12. CASE Guess(c)
  BY <1>12, ReadersAreSessions, GuessKinds DEF Guess, Request
<1>13. CASE CancelGame(c)
  <2>1. /\ LockFree /\ LockKept /\ Session(c)
        /\ UNCHANGED <<connected_users, local_id, write_failed>>
    BY <1>13, ReadersAreSessions DEF CancelGame, Request, LockKept, lockVars
  <2>2. UNCHANGED ongoing_games \/ Ends
    BY <1>13, CancelledEnds DEF CancelGame
  <2> QED
    BY <2>1, <2>2 DEF GamesStep, DataKept, LockKept, dataVars
<1>14. CASE Drop(c)
  <2>1. /\ LockFree /\ Session(c)
        /\ UNCHANGED <<connected_users, local_id, write_failed, overflow_checks,
                       poisoned>>
    BY <1>14, ReadersAreSessions DEF Drop, Request
  <2>2. CASE MyGames(c) = {}
    <3>1. UNCHANGED <<ongoing_games, lock_holder>>
      BY <1>14, <2>2 DEF Drop, MyGames
    <3> QED
      BY <2>1, <3>1 DEF DataKept, LockKept, dataVars, lockVars
  <2>3. CASE MyGames(c) # {}
    <3>1. Ends
      BY <1>14, <2>3, CancelledEnds DEF Drop
    <3> QED
      BY <2>1, <3>1 DEF GamesStep, LockKept
  <2> QED
    BY <2>2, <2>3
<1>15. CASE BadHint(c)
  <2>1. /\ UNCHANGED <<dataVars, overflow_checks>> /\ LockFree
        /\ "BADHINT" \in RequestKinds[c]
        /\ pc' = [pc EXCEPT ![c] = "panicked"]
    BY <1>15 DEF BadHint, Request, End, Goto
  <2>2. pc'[c] = "panicked"
    BY <2>1 DEF IdInv, IdTypes
  <2> QED
    BY <2>1, <2>2 DEF DataKept, PoisonCause
<1>16. CASE RequestPoisoned(c)
  BY <1>16 DEF RequestPoisoned, DataKept, LockKept, lockVars
<1> QED
  BY <1>1, <1>2, <1>3, <1>4, <1>5, <1>6, <1>7, <1>8, <1>9, <1>10, <1>11, <1>12,
     <1>13, <1>14, <1>15, <1>16 DEF Serve

\* Every step of the server is of one of the kinds.
LEMMA StepKinds ==
  ASSUME IdInv, GameTypes, [Next]_vars
  PROVE  DataKept \/ \E c \in Conns : UsersStep(c) \/ GamesStep(c)
<1>1. ASSUME NEW c \in Conns, Hangup(c) PROVE DataKept
  BY <1>1 DEF Hangup, DataKept, LockKept, lockVars
<1>2. CASE Dispatch
  BY <1>2 DEF Dispatch, DataKept, LockKept, lockVars
<1>3. CASE UNCHANGED vars
  BY <1>3 DEF vars, DataKept, LockKept, lockVars
<1> QED
  BY <1>1, <1>2, <1>3, TurnKinds, ServeKinds DEF Next

-----------------------------------------------------------------------------
(* How the threads move while they do it.                                  *)

\* A step is that of one thread, which has not ended: it logs in, goes on without
\* an id, or goes on with the one it has.
Moves(c) ==
  /\ write_failed' \in {write_failed, write_failed \cup {c}}
  /\ \/ Login(c)
     \/ /\ pc[c] \in {"idle", "login"}
        /\ \E point \in {"login"} \cup (Ended \ {"disconnected"}) :
             pc' = [pc EXCEPT ![c] = point]
        /\ UNCHANGED <<local_id, write_failed>>
     \/ /\ pc[c] \in SessionPoints
        /\ \E point \in SessionPoints \cup Ended :
             /\ pc' = [pc EXCEPT ![c] = point]
             /\ point = "disconnected" => Bus!Disconnected(c)
        /\ UNCHANGED local_id

\* How a thread moves by itself.
LEMMA TurnMoves ==
  ASSUME NEW c \in Conns, Turn(c)
  PROVE  Moves(c)
<1>1. CASE Greet(c)
  BY <1>1 DEF Greet, SendResponse, Goto, Moves, Ended, SessionPoints
<1>2. CASE LoginEof(c)
  BY <1>2 DEF LoginEof, End, Goto, Moves, Ended, SessionPoints
<1>3. CASE RecvNothing(c)
  BY <1>3 DEF RecvNothing, End, Goto, Moves, Ended, SessionPoints
<1>4. CASE Recv(c)
  BY <1>4 DEF Recv, SendResponse, Goto, Moves, Ended, SessionPoints
<1>5. CASE Idle(c)
  BY <1>5 DEF Idle, Goto, Moves, Ended, SessionPoints
<1>6. CASE Eof(c)
  BY <1>6 DEF Eof, EndOfStream, End, Goto, Moves, Ended, SessionPoints
<1>7. CASE NotifyGuest(c)
  BY <1>7 DEF NotifyGuest, Goto, Moves, Ended, SessionPoints
<1>8. CASE Reply(c)
  BY <1>8 DEF Reply, SendResponse, Goto, Moves, Ended, SessionPoints
<1>9. CASE Leave(c)
  BY <1>9 DEF Leave, End, Goto, Moves, Ended, SessionPoints
<1>10. CASE LockPoisoned(c)
  <2>1. pc' = [pc EXCEPT ![c] = "panicked"] /\ UNCHANGED <<local_id, write_failed>>
    BY <1>10 DEF LockPoisoned, End, Goto
  <2>2. pc[c] \in {"idle", "login"} \cup SessionPoints
    BY <1>10 DEF LockPoisoned, AtLock, SessionPoints
  <2>3. "panicked" \in Ended \ {"disconnected"}
    BY DEF Ended
  <2> QED
    BY <2>1, <2>2, <2>3 DEF Moves
<1> QED
  BY <1>1, <1>2, <1>3, <1>4, <1>5, <1>6, <1>7, <1>8, <1>9, <1>10 DEF Turn

\* How it moves on behalf of its client.
LEMMA ServeMoves ==
  ASSUME NEW c \in Conns, Serve(c)
  PROVE  Moves(c)
<1>1. CASE Connect(c)
  BY <1>1 DEF Connect, Goto, Moves, Ended, SessionPoints
<1>2. CASE Login(c)
  BY <1>2 DEF Login, Goto, Moves, Ended, SessionPoints
<1>3. CASE Reject(c)
  BY <1>3 DEF Reject, End, Goto, Moves, Ended, SessionPoints
<1>4. CASE LoginPoisoned(c)
  BY <1>4 DEF LoginPoisoned, End, Goto, Moves, Ended, SessionPoints
<1>5. CASE Chat(c)
  BY <1>5 DEF Chat, Request, Goto, Moves, Ended, SessionPoints
<1>6. CASE RequestOpponents(c)
  BY <1>6 DEF RequestOpponents, Request, Goto, Moves, Ended, SessionPoints
<1>7. CASE Spectate(c)
  <2>1. /\ pc[c] \in {"login", "read"}
        /\ UNCHANGED <<local_id, write_failed>>
        /\ \/ pc' = [pc EXCEPT ![c] = IF pc[c] = "read" THEN "recv" ELSE "login"]
           \/ pc' = [pc EXCEPT ![c] = "panicked"]
    BY <1>7 DEF Spectate, End, Goto
  <2>2. CASE pc[c] = "login"
    BY <2>1, <2>2 DEF Moves, Ended
  <2>3. CASE pc[c] = "read"
    BY <2>1, <2>3 DEF Moves, Ended, SessionPoints
  <2> QED
    BY <2>1, <2>2, <2>3
<1>8. CASE Malformed(c)
  <2>1. /\ pc[c] \in {"login", "read"}
        /\ pc' = [pc EXCEPT ![c] = "panicked"] /\ UNCHANGED <<local_id, write_failed>>
    BY <1>8 DEF Malformed, End, Goto
  <2>2. pc[c] \in {"idle", "login"} \cup SessionPoints
    BY <2>1 DEF SessionPoints
  <2>3. "panicked" \in Ended \ {"disconnected"}
    BY DEF Ended
  <2> QED
    BY <2>1, <2>2, <2>3 DEF Moves
<1>9. CASE DirectMessage(c)
  BY <1>9 DEF DirectMessage, DirectMessageRead, Goto, Moves, Ended, SessionPoints
<1>10. CASE StartGame(c)
  BY <1>10 DEF StartGame, Request, Goto, Moves, Ended, SessionPoints
<1>11. CASE Hint(c)
  BY <1>11 DEF Hint, Request, Goto, Moves, Ended, SessionPoints
<1>12. CASE Guess(c)
  BY <1>12 DEF Guess, Request, End, Goto, Moves, Ended, SessionPoints
<1>13. CASE CancelGame(c)
  BY <1>13 DEF CancelGame, Request, Goto, Moves, Ended, SessionPoints
<1>14. CASE Drop(c)
  BY <1>14 DEF Drop, Request, Goto, Moves, Ended, SessionPoints
<1>15. CASE BadHint(c)
  BY <1>15 DEF BadHint, Request, End, Goto, Moves, Ended, SessionPoints
<1>16. CASE RequestPoisoned(c)
  BY <1>16 DEF RequestPoisoned, Request, End, Goto, Moves, Ended, SessionPoints
<1> QED
  BY <1>1, <1>2, <1>3, <1>4, <1>5, <1>6, <1>7, <1>8, <1>9, <1>10, <1>11, <1>12,
     <1>13, <1>14, <1>15, <1>16 DEF Serve

\* The threads stay where they are, or one of them moves.
ThreadsKept == UNCHANGED <<pc, local_id, write_failed>>

\* Every step of the server moves one thread or none.
LEMMA StepMoves ==
  ASSUME [Next]_vars
  PROVE  ThreadsKept \/ \E c \in Conns : Moves(c)
<1>1. ASSUME NEW c \in Conns, Hangup(c) PROVE ThreadsKept
  BY <1>1 DEF Hangup, ThreadsKept
<1>2. CASE Dispatch
  BY <1>2 DEF Dispatch, ThreadsKept
<1>3. CASE UNCHANGED vars
  BY <1>3 DEF vars, ThreadsKept
<1> QED
  BY <1>1, <1>2, <1>3, TurnMoves, ServeMoves DEF Next

-----------------------------------------------------------------------------
(* The games.                                                              *)

\* What GamesWellFormed says of one game.
GameOK(g) ==
  /\ g.host_id # g.opponent_id
  /\ g.game_state = "Ongoing" => g.attempts \in 1 .. Attempts
  /\ overflow_checks => g.attempts \in 0 .. Attempts
  /\ g.game_state = "Defeat" /\ overflow_checks => g.attempts = 0

\* What GameMoves says of one game.
Advances(g, h) ==
  /\ h.host_id = g.host_id /\ h.opponent_id = g.opponent_id
  /\ g.game_state = "Victory" => h.game_state = "Victory"
  /\ h.game_state = "Ongoing" => g.game_state = "Ongoing"
  /\ h.game_state = "Defeat" => g.game_state = "Defeat" \/ g.attempts = 1
  /\ h.attempts # g.attempts =>
       g.game_state # "Victory" /\ h.attempts = (g.attempts - 1) % 256

\* The inductive invariant.
GameInv == IdInv /\ GameTypes /\ GamesWellFormed /\ requests \in Nat

\* A hint is recorded in a game and moves nothing else.
LEMMA HintedIs ==
  ASSUME NEW g \in Games, NEW hint \in Nat, GameOK(g)
  PROVE  /\ HintedGame(g, hint) \in Games
         /\ HintedGame(g, hint).game_id = g.game_id
         /\ GameOK(HintedGame(g, hint))
         /\ Advances(g, HintedGame(g, hint))
BY DEF Games, HintedGame, GameOK, Advances

\* A u8 stays one.
LEMMA Lowered ==
  ASSUME NEW n \in 0 .. 255
  PROVE  /\ ((n - 1) % 256) \in 0 .. 255
         /\ n # 0 => ((n - 1) % 256) = n - 1
OBVIOUS

\* A guess that does not panic leaves a game that is one (Guess::update).
LEMMA GuessedIs ==
  ASSUME NEW g \in Games, NEW right \in BOOLEAN, GameOK(g),
         g.game_state # "Victory", ~(overflow_checks /\ Underflows(g, right))
  PROVE  /\ GuessedGame(g, right) \in Games
         /\ GuessedGame(g, right).game_id = g.game_id
         /\ GameOK(GuessedGame(g, right))
         /\ Advances(g, GuessedGame(g, right))
<1>1. CASE right
  BY <1>1 DEF Games, GuessedGame, GameOK, Advances, GameStates
<1>2. CASE ~right
  <2> DEFINE left == (g.attempts - 1) % 256
  <2>1. /\ left \in 0 .. 255
        /\ g.attempts # 0 => left = g.attempts - 1
        /\ left = (g.attempts - 1) % 256
    BY Lowered DEF Games
  <2>2. overflow_checks => g.attempts # 0
    BY <1>2 DEF Underflows
  <2>3. GuessedGame(g, right) =
          [g EXCEPT !.attempts = left,
                    !.game_state = IF left = 0 THEN "Defeat" ELSE @]
    BY <1>2 DEF GuessedGame
  <2> HIDE DEF left
  <2>4. CASE left = 0
    <3>1. GuessedGame(g, right) = [g EXCEPT !.attempts = 0, !.game_state = "Defeat"]
      BY <2>3, <2>4
    <3>2. g.game_state = "Defeat" \/ g.attempts = 1
      BY <2>1, <2>4 DEF Games, GameOK, GameStates
    <3> DEFINE h == [g EXCEPT !.attempts = 0, !.game_state = "Defeat"]
    <3>3. /\ h \in Games /\ h.attempts = 0
          /\ h.game_id = g.game_id /\ h.host_id = g.host_id
          /\ h.opponent_id = g.opponent_id /\ h.game_state = "Defeat"
      <4> DEFINE lower == [g EXCEPT !.attempts = 0]
      <4>1. lower \in Games /\ lower = [g EXCEPT !.attempts = 0]
            /\ h = [lower EXCEPT !.game_state = "Defeat"]
        BY DEF Games
      <4>2. /\ lower.attempts = 0 /\ lower.game_id = g.game_id
            /\ lower.host_id = g.host_id /\ lower.opponent_id = g.opponent_id
        BY DEF Games
      <4> HIDE DEF lower, h
      <4> QED
        BY <4>1, <4>2 DEF Games, GameStates
    <3> HIDE DEF h
    <3>4. GameOK(h)
      BY <3>3, AttemptsAssumption DEF GameOK
    <3>5. Advances(g, h)
      BY <2>1, <2>4, <3>2, <3>3 DEF Advances
    <3> QED
      BY <3>1, <3>3, <3>4, <3>5 DEF h
  <2>5. CASE left # 0
    <3>1. GuessedGame(g, right) = [g EXCEPT !.attempts = left]
      BY <2>3, <2>5 DEF Games
    <3>2. g.game_state = "Defeat" => ~overflow_checks
      BY <2>2 DEF GameOK
    <3> DEFINE h == [g EXCEPT !.attempts = left]
    <3>3. /\ h \in Games /\ h.attempts = left
          /\ h.game_id = g.game_id /\ h.host_id = g.host_id
          /\ h.opponent_id = g.opponent_id /\ h.game_state = g.game_state
      BY <2>1 DEF Games
    <3> HIDE DEF h
    <3>4. g.attempts \in Nat /\ left \in Nat
      BY <2>1 DEF Games
    <3>5. GameOK(h)
      BY <2>1, <2>2, <2>5, <3>2, <3>3, <3>4, AttemptsAssumption DEF GameOK
    <3>6. Advances(g, h)
      BY <2>1, <3>3 DEF Advances
    <3> QED
      BY <3>1, <3>3, <3>5, <3>6 DEF h
  <2> QED
    BY <2>4, <2>5
<1> QED
  BY <1>1, <1>2

\* What a step does to the list of games, the kinds apart: a well-formed game with
\* an id of its own is added, one moves, or none is new.
Adds == \E game \in Games :
          /\ game.game_id \notin GameIds(ongoing_games) /\ GameOK(game)
          /\ ongoing_games' = ongoing_games \cup {game}

Changes == \E game \in ongoing_games, by \in Games :
             /\ by.game_id = game.game_id
             /\ GameOK(by) /\ Advances(game, by)
             /\ ongoing_games' = Replace(game, by)

\* Hints and guesses move a game.
LEMMA HintOrGuess ==
  ASSUME GameInv, Hints \/ Guesses
  PROVE  Changes
<1>1. ongoing_games \in SUBSET Games
  BY DEF GameInv, GameTypes
<1>2. \A g \in ongoing_games : GameOK(g)
  BY DEF GameInv, GamesWellFormed, GameOK
<1>3. CASE Hints
  <2>1. requests' \in Nat
    BY <1>3 DEF Hints, GameInv
  <2> QED
    BY <1>1, <1>2, <1>3, <2>1, HintedIs DEF Hints, Changes
<1>4. CASE Guesses
  <2>1. PICK game \in ongoing_games, right \in BOOLEAN :
          /\ game.game_state # "Victory"
          /\ ~(overflow_checks /\ Underflows(game, right))
          /\ ongoing_games' = Replace(game, GuessedGame(game, right))
    BY <1>4 DEF Guesses
  <2> QED
    BY <1>1, <1>2, <2>1, GuessedIs DEF Changes
<1> QED
  BY <1>3, <1>4

\* A command that begins no game moves one or ends one.
LEMMA MovesOrEnds ==
  ASSUME GameInv, NEW c \in Conns, GamesStep(c), ~Begins(c)
  PROVE  Changes \/ ongoing_games' \in SUBSET ongoing_games
BY HintOrGuess DEF GamesStep, Ends

\* The commands of a session, by what they do to the list.
LEMMA GamesStepIs ==
  ASSUME GameInv, NEW c \in Conns, GamesStep(c)
  PROVE  Adds \/ Changes \/ ongoing_games' \in SUBSET ongoing_games
<1>1. ongoing_games \in SUBSET Games /\ local_id[c] \in Nat
      /\ connected_users \in SUBSET Nat
  BY DEF GameInv, GameTypes, IdInv, IdTypes
<1>2. \A g \in ongoing_games : GameOK(g)
  BY DEF GameInv, GamesWellFormed, GameOK
<1>3. CASE Begins(c)
  <2>1. PICK guest \in connected_users \ {local_id[c]} :
          ongoing_games' = ongoing_games
                             \cup {NewGame(ongoing_games, local_id[c], guest)}
    BY <1>3 DEF Begins
  <2> DEFINE game == NewGame(ongoing_games, local_id[c], guest)
  <2>2. GameIds(ongoing_games) \in SUBSET Nat
    BY <1>1 DEF GameIds, Games
  <2>3. /\ NextId(GameIds(ongoing_games)) \in Nat
        /\ NextId(GameIds(ongoing_games)) \notin GameIds(ongoing_games)
    BY <2>2, NextIdIsNew DEF GameInv, GameTypes
  <2>4. guest \in Nat /\ guest # local_id[c]
    BY <1>1
  <2>5. game = [game_id |-> NextId(GameIds(ongoing_games)),
                host_id |-> local_id[c], opponent_id |-> guest,
                attempts |-> Attempts, last_hint |-> 0, game_state |-> "Ongoing"]
    BY DEF NewGame, GameIds
  <2>6. Attempts \in 0 .. 255 /\ Attempts \in 1 .. Attempts
        /\ Attempts \in 0 .. Attempts
    BY AttemptsAssumption
  <2> HIDE DEF game
  <2>7. game \in Games
    BY <1>1, <2>3, <2>4, <2>5, <2>6 DEF Games, GameStates
  <2>8. game.game_id = NextId(GameIds(ongoing_games)) /\ GameOK(game)
    BY <2>4, <2>5, <2>6 DEF GameOK
  <2> QED
    BY <2>1, <2>3, <2>7, <2>8 DEF Adds, game
<1> QED
  BY <1>3, MovesOrEnds

\* Every step of the server, by what it does to the list.
LEMMA GamesChange ==
  ASSUME GameInv, [Next]_vars
  PROVE  Adds \/ Changes \/ ongoing_games' \in SUBSET ongoing_games
BY StepKinds, GamesStepIs DEF GameInv, DataKept, UsersStep, dataVars

\* In each of these cases the games keep their ids and their shape.
LEMMA GamesKept ==
  ASSUME GameInv, UNCHANGED overflow_checks,
         Adds \/ Changes \/ ongoing_games' \in SUBSET ongoing_games
  PROVE  /\ GameTypes'
         /\ \A g \in ongoing_games' : GameOK(g)'
         /\ \A g \in ongoing_games, h \in ongoing_games' :
              g.game_id = h.game_id => Advances(g, h)
<1>1. /\ ongoing_games \in SUBSET Games
      /\ UniqueIds(ongoing_games)
      /\ GameIds(ongoing_games) \in SUBSET Nat
      /\ Bounded(GameIds(ongoing_games))
  BY DEF GameInv, GameTypes, GameIds, Games
<1>2. \A g \in ongoing_games : GameOK(g)
  BY DEF GameInv, GamesWellFormed, GameOK
<1>3. \A g \in Games : GameOK(g) => GameOK(g)'
  BY DEF GameOK
<1>4. \A g, h \in ongoing_games : g.game_id = h.game_id => Advances(g, h)
  BY <1>1 DEF UniqueIds, Advances
<1>5. ASSUME ongoing_games' \in SUBSET ongoing_games
      PROVE  /\ GameTypes'
             /\ \A g \in ongoing_games' : GameOK(g)'
             /\ \A g \in ongoing_games, h \in ongoing_games' :
                  g.game_id = h.game_id => Advances(g, h)
  <2>1. GameIds(ongoing_games') \in SUBSET GameIds(ongoing_games)
    BY <1>5 DEF GameIds
  <2>2. Bounded(GameIds(ongoing_games'))
    BY <1>1, <2>1, BoundedSubset
  <2>3. UniqueIds(ongoing_games')
    BY <1>1, <1>5 DEF UniqueIds
  <2> QED
    BY <1>1, <1>2, <1>3, <1>4, <1>5, <2>2, <2>3 DEF GameTypes
<1>6. CASE Adds
  <2>1. PICK game \in Games :
          /\ game.game_id \notin GameIds(ongoing_games) /\ GameOK(game)
          /\ ongoing_games' = ongoing_games \cup {game}
    BY <1>6 DEF Adds
  <2>2. \A g \in ongoing_games : g.game_id # game.game_id
    BY <2>1 DEF GameIds
  <2>3. UniqueIds(ongoing_games')
    BY <1>1, <2>1, <2>2 DEF UniqueIds
  <2>4. GameIds(ongoing_games') = GameIds(ongoing_games) \cup {game.game_id}
    BY <2>1 DEF GameIds
  <2>5. game.game_id \in Nat
    BY DEF Games
  <2>6. Bounded(GameIds(ongoing_games'))
    BY <1>1, <2>4, <2>5, BoundedAdd
  <2>7. GameTypes'
    BY <1>1, <2>1, <2>3, <2>6 DEF GameTypes
  <2> QED
    BY <1>1, <1>2, <1>3, <1>4, <2>1, <2>2, <2>7
<1>7. CASE Changes
  <2>1. PICK game \in ongoing_games, by \in Games :
          /\ by.game_id = game.game_id
          /\ GameOK(by) /\ Advances(game, by)
          /\ ongoing_games' = (ongoing_games \ {game}) \cup {by}
    BY <1>7 DEF Changes, Replace
  <2>2. \A g \in ongoing_games : g.game_id = by.game_id => g = game
    BY <1>1, <2>1 DEF UniqueIds
  <2>3. UniqueIds(ongoing_games')
    BY <1>1, <2>1, <2>2 DEF UniqueIds
  <2>4. GameIds(ongoing_games') = GameIds(ongoing_games)
    BY <2>1 DEF GameIds
  <2>5. GameTypes'
    BY <1>1, <2>1, <2>3, <2>4 DEF GameTypes
  <2> QED
    BY <1>1, <1>2, <1>3, <1>4, <2>1, <2>2, <2>5
<1> QED
  BY <1>5, <1>6, <1>7

\* No step changes the build, and each that panics inside the lock has its cause.
LEMMA LockSteps ==
  ASSUME IdInv, GameTypes, [Next]_vars
  PROVE  /\ UNCHANGED overflow_checks
         /\ UNCHANGED poisoned \/ PoisonCause'
         /\ poisoned => UNCHANGED <<dataVars, poisoned>>
BY StepKinds DEF DataKept, UsersStep, GamesStep, LockKept, LockFree

\* A cause lasts: what poisoned the lock can be seen from then on.
LEMMA CauseLasts ==
  ASSUME IdInv, GameTypes, [Next]_vars, poisoned, PoisonCause
  PROVE  PoisonCause'
<1>1. UNCHANGED <<ongoing_games, overflow_checks>>
  BY LockSteps DEF dataVars
<1>2. ASSUME NEW d \in Conns, pc[d] = "panicked" PROVE pc'[d] = "panicked"
  BY <1>2, StepMoves DEF ThreadsKept, Moves, Login, Goto, SessionPoints, IdInv, IdTypes
<1> QED
  BY <1>1, <1>2 DEF PoisonCause

\* Requests are only counted.
LEMMA RequestsCount ==
  ASSUME requests \in Nat, [Next]_vars
  PROVE  requests' \in Nat
<1>1. ASSUME NEW c \in Conns, Turn(c) PROVE UNCHANGED requests
  BY <1>1 DEF Turn, Greet, LoginEof, RecvNothing, Recv, Idle, Eof, NotifyGuest,
              Reply, Leave, LockPoisoned, clientVars
<1>2. ASSUME NEW c \in Conns, NEW kind, Request(c, kind) PROVE requests' \in Nat
  BY <1>2 DEF Request
<1>3. ASSUME NEW c \in Conns,
             Connect(c) \/ Login(c) \/ Reject(c) \/ LoginPoisoned(c)
               \/ Spectate(c) \/ Malformed(c) \/ DirectMessage(c) \/ Hangup(c)
      PROVE  requests' \in Nat
  BY <1>3 DEF Connect, Login, Reject, LoginPoisoned, Spectate, Malformed,
              DirectMessage, DirectMessageRead, Hangup, clientVars
<1>4. ASSUME NEW c \in Conns, Serve(c) PROVE requests' \in Nat
  BY <1>2, <1>3, <1>4 DEF Serve, Chat, RequestOpponents, StartGame, Hint, Guess,
                          BadHint, CancelGame, Drop, RequestPoisoned
<1>5. CASE Dispatch \/ UNCHANGED vars
  BY <1>5 DEF Dispatch, vars, clientVars
<1> QED
  BY <1>1, <1>3, <1>4, <1>5 DEF Next

\* No game, and a sound lock, at the start.
LEMMA GameInit == Init => GameInv
<1> SUFFICES ASSUME Init PROVE GameInv
  OBVIOUS
<1>1. ongoing_games = {} /\ poisoned = FALSE /\ requests \in Nat
  BY DEF Init
<1>2. GameTypes
  BY <1>1 DEF GameTypes, UniqueIds, GameIds, Bounded
<1> QED
  BY <1>1, <1>2, IdInit DEF GameInv, GamesWellFormed

\* Every step keeps the invariant of the games.
LEMMA GameStep == GameInv /\ [Next]_vars => GameInv'
<1> SUFFICES ASSUME GameInv, [Next]_vars PROVE GameInv'
  OBVIOUS
<1>1. IdInv'
  BY IdStep DEF GameInv
<1>2. /\ UNCHANGED overflow_checks
      /\ UNCHANGED poisoned \/ PoisonCause'
      /\ poisoned => PoisonCause'
  BY LockSteps, CauseLasts DEF GameInv, GamesWellFormed, PoisonCause
<1>3. GameTypes' /\ \A g \in ongoing_games' : GameOK(g)'
  BY <1>2, GamesChange, GamesKept
<1>4. GamesWellFormed'
  BY <1>2, <1>3 DEF GamesWellFormed, GameOK, GameTypes, UniqueIds, PoisonCause
<1>5. requests' \in Nat
  BY RequestsCount DEF GameInv
<1> QED
  BY <1>1, <1>3, <1>4, <1>5 DEF GameInv

\* The invariant holds throughout (ongoing_games, and the RwLock around it).
THEOREM GameInvariant == Spec => []GameInv
BY GameInit, GameStep, PTL DEF Spec

\* However many users play however many games, a game is between two users and is
\* lost exactly when it can be, and only a guess without attempts or a hint that
\* is no text poisons the lock (GamesWellFormed).
THEOREM GamesAreWellFormed == Spec => []GamesWellFormed
BY GameInvariant, PTL DEF GameInv

\* Between two steps a game only moves as its attempts allow (GameMoves).
THEOREM GamesMoveForward == Spec => GameMoves
<1>1. GameInv /\ [Next]_vars =>
        [\A g \in ongoing_games, h \in ongoing_games' : g.game_id = h.game_id =>
       /\ h.host_id = g.host_id /\ h.opponent_id = g.opponent_id
       /\ g.game_state = "Victory" => h.game_state = "Victory"
       /\ h.game_state = "Ongoing" => g.game_state = "Ongoing"
       /\ h.game_state = "Defeat" => g.game_state = "Defeat" \/ g.attempts = 1
       /\ h.attempts # g.attempts =>
            g.game_state # "Victory" /\ h.attempts = (g.attempts - 1) % 256]_vars
  BY GamesChange, GamesKept, LockSteps DEF GameInv, Advances
<1> QED
  BY <1>1, GameInvariant, PTL DEF Spec, GameMoves

\* Once the lock is poisoned, no user, no game and no login any more, with any
\* number of threads at any point of their work (PoisonFreezes).
THEOREM PoisonIsFinal == Spec => PoisonFreezes
<1>1. GameInv /\ [Next]_vars =>
        [poisoned =>
       /\ UNCHANGED dataVars
       /\ \A c \in Conns : Session(c)' => Session(c)]_vars
  <2> SUFFICES ASSUME GameInv, [Next]_vars, poisoned,
                      NEW c \in Conns, Session(c)'
               PROVE  Session(c)
    BY LockSteps DEF GameInv
  <2>1. ~Session(c) => pc[c] \in {"idle", "login"} \cup Ended
    BY DEF GameInv, IdInv, IdTypes, Session
  <2>2. ~LockFree /\ pc \in [Conns -> Points]
    BY DEF LockFree, GameInv, IdInv, IdTypes
  <2>3. ~Login(c)
    BY <2>2 DEF Login
  <2>4. CASE ThreadsKept
    BY <2>4 DEF ThreadsKept, Session
  <2>5. ASSUME NEW d \in Conns, Moves(d), d # c PROVE Session(c)
    BY <2>2, <2>5 DEF Moves, Login, Goto, Session
  <2>6. ASSUME Moves(c), ~Session(c) PROVE FALSE
    BY <2>1, <2>2, <2>3, <2>6 DEF Moves, Session, SessionPoints, Ended
  <2> QED
    BY <2>4, <2>5, <2>6, StepMoves
<1> QED
  BY <1>1, GameInvariant, PTL DEF Spec, PoisonFreezes

-----------------------------------------------------------------------------
(* The players.                                                            *)

\* A user is registered or was taken off the list by one of the two ways to be.
Accounted(id) ==
  \/ id \in connected_users
  \/ \E c \in Conns : local_id[c] = id /\ (pc[c] = "closed" \/ c \in write_failed)

\* The inductive invariant: the sessions too are accounted for, as one of them
\* hosts the next game, and no response is lost before there is an id to drop.
PlayerInv ==
  /\ GameInv
  /\ PlayersAccountedFor
  /\ \A c \in Conns : Session(c) => Accounted(local_id[c])
  /\ \A c \in write_failed : pc[c] \notin {"idle", "login"}

\* Nobody is to be accounted for at the start.
LEMMA PlayerInit == Init => PlayerInv
BY GameInit DEF Init, PlayerInv, PlayersAccountedFor, Session

\* Past its login a thread stays so, and has a response to lose only then.
LEMMA PastLogin ==
  ASSUME PlayerInv, [Next]_vars, NEW d \in write_failed'
  PROVE  pc'[d] \notin {"idle", "login"}
<1>1. pc \in [Conns -> Points] /\ write_failed \subseteq Conns
  BY DEF PlayerInv, GameInv, IdInv, IdTypes
<1>2. \A e \in write_failed : pc[e] \notin {"idle", "login"}
  BY DEF PlayerInv
<1>3. CASE ThreadsKept
  BY <1>2, <1>3 DEF ThreadsKept
<1>4. ASSUME NEW c \in Conns, Moves(c) PROVE pc'[d] \notin {"idle", "login"}
  <2>1. CASE Login(c)
    BY <1>1, <1>2, <2>1 DEF Login, Goto
  <2>2. CASE pc[c] \in {"idle", "login"} /\ UNCHANGED write_failed /\ ~Login(c)
    <3>1. c # d
      BY <1>2, <2>2
    <3> QED
      BY <1>1, <1>2, <1>4, <2>2, <3>1 DEF Moves, SessionPoints
  <2>3. CASE pc[c] \in SessionPoints /\ ~Login(c)
    <3>1. pc'[c] \notin {"idle", "login"} /\ \A e \in Conns : e # c => pc'[e] = pc[e]
      BY <1>1, <1>4, <2>3 DEF Moves, SessionPoints, Ended
    <3> QED
      BY <1>1, <1>2, <1>4, <3>1 DEF Moves
  <2> QED
    BY <1>4, <2>1, <2>2, <2>3 DEF Moves
<1> QED
  BY <1>3, <1>4, StepMoves

\* Whoever is accounted for stays so: a user leaves only as the thread that has
\* its id ends by the end of its stream, or loses a response.
LEMMA AccountedStays ==
  ASSUME PlayerInv, [Next]_vars, NEW id, Accounted(id)
  PROVE  Accounted(id)'
<1>1. pc \in [Conns -> Points] /\ local_id \in [Conns -> Nat]
  BY DEF PlayerInv, GameInv, IdInv, IdTypes
<1>2. ASSUME NEW d \in Conns, pc[d] = "closed" \/ d \in write_failed
      PROVE  /\ local_id'[d] = local_id[d]
             /\ pc'[d] = "closed" \/ d \in write_failed'
  <2>1. pc[d] \notin {"idle", "login"}
    BY <1>2 DEF PlayerInv
  <2>2. CASE ThreadsKept
    BY <1>2, <2>2 DEF ThreadsKept
  <2>3. ASSUME NEW c \in Conns, Moves(c)
        PROVE  /\ local_id'[d] = local_id[d]
               /\ pc'[d] = "closed" \/ d \in write_failed'
    <3>1. local_id'[d] = local_id[d]
      BY <1>1, <2>1, <2>3 DEF Moves, Login
    <3>2. pc[d] = "closed" => pc'[d] = "closed"
      BY <1>1, <2>3 DEF Moves, Login, Goto, SessionPoints
    <3> QED
      BY <1>2, <2>3, <3>1, <3>2 DEF Moves
  <2> QED
    BY <2>2, <2>3, StepMoves
<1>3. ASSUME NEW d \in Conns, local_id[d] = id, pc[d] = "closed" \/ d \in write_failed
      PROVE  Accounted(id)'
  BY <1>2, <1>3 DEF Accounted
<1>4. CASE id \in connected_users
  <2>1. CASE id \in connected_users'
    BY <2>1 DEF Accounted
  <2>2. CASE id \notin connected_users'
    <3>1. PICK c \in Conns : UsersStep(c)
      BY <1>4, <2>2, StepKinds DEF PlayerInv, GameInv, DataKept, GamesStep, dataVars
    <3>2. Leaves(c)
      BY <1>4, <2>2, <3>1 DEF UsersStep, Joins
    <3> QED
      BY <1>4, <2>2, <3>2 DEF Leaves, DropUser, Accounted
  <2> QED
    BY <2>1, <2>2
<1> QED
  BY <1>3, <1>4 DEF Accounted

\* A session is one that goes on or one that logs in.
LEMMA SessionsAccounted ==
  ASSUME PlayerInv, [Next]_vars, NEW c \in Conns, Session(c)'
  PROVE  Accounted(local_id[c])'
<1>1. pc \in [Conns -> Points] /\ local_id \in [Conns -> Nat]
  BY DEF PlayerInv, GameInv, IdInv, IdTypes
<1>2. CASE Login(c)
  BY <1>1, <1>2 DEF Login, Accounted
<1>3. CASE ~Login(c)
  <2>1. Session(c) /\ local_id'[c] = local_id[c]
    <3>1. CASE ThreadsKept
      BY <3>1 DEF ThreadsKept, Session
    <3>2. ASSUME NEW d \in Conns, Moves(d), d # c
          PROVE  Session(c) /\ local_id'[c] = local_id[c]
      BY <1>1, <3>2 DEF Moves, Login, Goto, Session
    <3>3. ASSUME Moves(c)
          PROVE  Session(c) /\ local_id'[c] = local_id[c]
      BY <1>1, <1>3, <3>3 DEF Moves, Session, SessionPoints, Ended, Points
    <3> QED
      BY <3>1, <3>2, <3>3, StepMoves
  <2>2. Accounted(local_id[c])
    BY <2>1 DEF PlayerInv
  <2>3. \A id : Accounted(id) => Accounted(id)'
    BY AccountedStays
  <2> QED
    BY <2>1, <2>2, <2>3 DEF Accounted
<1> QED
  BY <1>2, <1>3

\* Every step keeps the invariant of the players.
LEMMA PlayerStep == PlayerInv /\ [Next]_vars => PlayerInv'
<1> SUFFICES ASSUME PlayerInv, [Next]_vars PROVE PlayerInv'
  OBVIOUS
<1>1. GameInv'
  BY GameStep DEF PlayerInv
<1>2. \A id : Accounted(id) => Accounted(id)'
  BY AccountedStays
<1>3. \A g \in ongoing_games : Accounted(g.host_id) /\ Accounted(g.opponent_id)
  BY DEF PlayerInv, PlayersAccountedFor, Accounted
<1>4. \A g \in ongoing_games' : Accounted(g.host_id)' /\ Accounted(g.opponent_id)'
  <2>1. CASE \E c \in Conns : Session(c) /\ Begins(c)
    <3>1. PICK c \in Conns, guest \in connected_users :
            /\ Session(c)
            /\ ongoing_games' = ongoing_games
                                  \cup {NewGame(ongoing_games, local_id[c], guest)}
      BY <2>1 DEF Begins
    <3>2. Accounted(local_id[c]) /\ Accounted(guest)
      BY <3>1 DEF PlayerInv, Accounted
    <3>3. /\ NewGame(ongoing_games, local_id[c], guest).host_id = local_id[c]
          /\ NewGame(ongoing_games, local_id[c], guest).opponent_id = guest
      BY DEF NewGame
    <3> QED
      BY <1>2, <1>3, <3>1, <3>2, <3>3
  <2>2. CASE Changes
    BY <1>2, <1>3, <2>2 DEF Changes, Replace, Advances
  <2>3. CASE ongoing_games' \in SUBSET ongoing_games
    BY <1>2, <1>3, <2>3
  <2>4. (\E c \in Conns : Session(c) /\ Begins(c)) \/ Changes
          \/ ongoing_games' \in SUBSET ongoing_games
    <3>1. ongoing_games' \in SUBSET ongoing_games
            \/ \E c \in Conns : GamesStep(c) /\ Session(c)
      BY StepKinds DEF PlayerInv, GameInv, DataKept, UsersStep, GamesStep, dataVars
    <3>2. ASSUME NEW c \in Conns, GamesStep(c), ~Begins(c)
          PROVE  Changes \/ ongoing_games' \in SUBSET ongoing_games
      BY <3>2, MovesOrEnds DEF PlayerInv
    <3> QED
      BY <3>1, <3>2
  <2> QED
    BY <2>1, <2>2, <2>3, <2>4
<1>5. PlayersAccountedFor'
  BY <1>4 DEF PlayersAccountedFor, Accounted
<1> QED
  BY <1>1, <1>5, SessionsAccounted, PastLogin DEF PlayerInv

\* A game outlives the registration of its players only through a hang-up or a
\* lost response, however often ids are handed on (PlayersAccountedFor).
THEOREM PlayersExplained == Spec => []PlayersAccountedFor
BY PlayerInit, PlayerStep, PTL DEF Spec, PlayerInv

-----------------------------------------------------------------------------
(* What a step tells the others.                                           *)

\* The thread that moves is the one whose step it is.
LEMMA MoverIs ==
  ASSUME IdInv, NEW c \in Conns, NEW d \in Conns, Turn(d) \/ Serve(d), ThreadStep(c)
  PROVE  c = d
<1>1. pc \in [Conns -> Points] /\ Moves(d)
  BY TurnMoves, ServeMoves DEF IdInv, IdTypes
<1> QED
  BY <1>1 DEF Moves, Login, Goto, ThreadStep

\* What a thread without an id can do: connect, log in, fail to, or answer a
\* browser (validate_user).
Newcomer(c) ==
  /\ UNCHANGED <<ongoing_games, thread_chan>>
  /\ \/ connected_users' = connected_users
     \/ /\ local_id'[c] \notin connected_users
        /\ connected_users' = connected_users \cup {local_id'[c]}

\* Every other action asks for a point of a session.
LEMMA NewcomerIs ==
  ASSUME IdInv, NEW c \in Conns, Turn(c) \/ Serve(c), ~Session(c)
  PROVE  Newcomer(c)
<1>1. pc[c] \notin SessionPoints
  BY SessionIs DEF IdInv, IdTypes
<1>2. CASE Turn(c)
  <2>1. LoginEof(c) \/ LockPoisoned(c)
    BY <1>1, <1>2 DEF Turn, SessionPoints, Greet, RecvNothing, Recv, Idle, Eof,
                      NotifyGuest, Reply, Leave
  <2>2. CASE LoginEof(c)
    <3>1. local_id[c] \notin connected_users
      BY <2>2 DEF LoginEof, IdInv, ZeroIsNobody
    <3> QED
      BY <2>2, <3>1 DEF LoginEof, DropUser, End, Bus!DropReceiver, Newcomer
  <2>3. CASE LockPoisoned(c)
    BY <2>3 DEF LockPoisoned, End, Bus!DropReceiver, Newcomer, dataVars
  <2> QED
    BY <2>1, <2>2, <2>3
<1>3. CASE Serve(c)
  <2>1. pc[c] # "read"
    BY <1>1 DEF SessionPoints
  <2>2. \/ Connect(c) \/ Login(c) \/ Reject(c) \/ LoginPoisoned(c)
        \/ Spectate(c) \/ Malformed(c)
    BY <1>3, <2>1 DEF Serve, Request, Chat, RequestOpponents, DirectMessage,
                      DirectMessageRead, StartGame, Hint, Guess, BadHint,
                      CancelGame, Drop, RequestPoisoned
  <2>3. CASE Login(c)
    <3>1. local_id'[c] = AddedUser(connected_users)
      BY <2>3 DEF Login, IdInv, IdTypes
    <3>2. AddedUser(connected_users) \notin connected_users
      BY NextIdIsNew DEF AddedUser, IdInv, IdTypes
    <3> QED
      BY <2>3, <3>1, <3>2 DEF Login, Newcomer, busVars
  <2>4. CASE Connect(c)
    BY <2>4 DEF Connect, Bus!Subscribe, Newcomer, dataVars
  <2>5. CASE Spectate(c)
    BY <2>5 DEF Spectate, End, Bus!DropReceiver, Newcomer, dataVars, busVars
  <2>6. CASE Reject(c) \/ LoginPoisoned(c) \/ Malformed(c)
    BY <2>6 DEF Reject, LoginPoisoned, Malformed, End, Bus!DropReceiver, Newcomer,
                dataVars
  <2> QED
    BY <2>2, <2>3, <2>4, <2>5, <2>6
<1> QED
  BY <1>2, <1>3

\* Whoever has not logged in, in any number, touches no game, sends nothing and
\* registers at most a new user of its own (UnauthenticatedInert).
THEOREM NewcomersInert == Spec => UnauthenticatedInert
<1>1. IdInv /\ [Next]_vars =>
        [\A c \in Conns : ~Session(c) /\ ThreadStep(c) =>
           /\ UNCHANGED <<ongoing_games, thread_chan>>
           /\ \/ connected_users' = connected_users
              \/ /\ local_id'[c] \notin connected_users
                 /\ connected_users' = connected_users \cup {local_id'[c]}]_vars
  <2> SUFFICES ASSUME IdInv, [Next]_vars,
                      NEW c \in Conns, ~Session(c), ThreadStep(c)
               PROVE  Newcomer(c)
    BY DEF Newcomer
  <2>1. ~(UNCHANGED pc)
    BY DEF ThreadStep
  <2>2. PICK d \in Conns : Turn(d) \/ Serve(d)
    BY <2>1 DEF Next, vars, Hangup, Dispatch
  <2> QED
    BY <2>2, MoverIs, NewcomerIs
<1> QED
  BY <1>1, IdInvariant, PTL DEF Spec, UnauthenticatedInert

\* The commands that change the list of games.
LEMMA GameCommands ==
  ASSUME IdInv, GameTypes, [Next]_vars
  PROVE  \/ UNCHANGED ongoing_games
         \/ \E c \in Conns : StartGame(c) \/ Hint(c) \/ Guess(c)
                               \/ CancelGame(c) \/ Drop(c)
<1>1. ASSUME NEW c \in Conns, Turn(c) PROVE UNCHANGED ongoing_games
  BY <1>1, TurnKinds DEF DataKept, UsersStep, dataVars
<1>2. ASSUME NEW c \in Conns, Serve(c)
      PROVE  \/ UNCHANGED ongoing_games
             \/ StartGame(c) \/ Hint(c) \/ Guess(c) \/ CancelGame(c) \/ Drop(c)
  BY <1>2 DEF Serve, Connect, Login, Reject, LoginPoisoned, Chat, RequestOpponents,
              Spectate, Malformed, DirectMessage, BadHint, RequestPoisoned, dataVars
<1>3. ASSUME NEW c \in Conns, Hangup(c) PROVE UNCHANGED ongoing_games
  BY <1>3 DEF Hangup, dataVars
<1>4. CASE Dispatch \/ UNCHANGED vars
  BY <1>4 DEF Dispatch, vars, dataVars
<1> QED
  BY <1>1, <1>2, <1>3, <1>4 DEF Next

\* A command about games moves its thread on.
LEMMA CommandSteps ==
  ASSUME IdInv, NEW c \in Conns, NEW point \in {"reply", "leaving", "blocked"},
         pc[c] = "read", Goto(c, point)
  PROVE  Session(c) /\ ThreadStep(c)
BY ReadersAreSessions DEF Goto, ThreadStep, IdInv, IdTypes

\* The game a command is about is one of its user's.
LEMMA MyGameIsMine ==
  ASSUME GameTypes, NEW c \in Conns, MyGames(c) # {}
  PROVE  local_id[c] \in {MyGame(c).host_id, MyGame(c).opponent_id}
<1>1. MyGames(c) \in SUBSET Games
  BY DEF MyGames, UserGames, GameTypes
<1>2. MyGame(c) \in MyGames(c)
  BY <1>1, FirstIsOne DEF MyGame
<1> QED
  BY <1>2 DEF MyGames, UserGames

\* What EndsAreAnnounced says of one game that is gone.
Announced(g) ==
  /\ \E c \in Conns : Session(c) /\ ThreadStep(c)
                       /\ local_id[c] \in {g.host_id, g.opponent_id}
  /\ \/ thread_chan' = Append(thread_chan, <<g.opponent_id, "MATCH CANCELED">>)
     \/ /\ g.game_state = "Victory"
        /\ thread_chan' = Append(thread_chan, <<g.host_id, "DEFEAT">>)

\* A guess keeps the game's id and its hint (Guess::update).
LEMMA GuessedKeeps ==
  ASSUME NEW g \in Games, NEW right \in BOOLEAN
  PROVE  /\ GuessedGame(g, right).game_id = g.game_id
         /\ GuessedGame(g, right).last_hint = g.last_hint
BY DEF Games, GuessedGame

\* CancelGame and Drop: the one game taken off is the user's, its guest is told.
LEMMA CancelledIsAnnounced ==
  ASSUME GameInv, NEW c \in Conns, MyGames(c) # {}, Cancelled(c),
         Session(c), ThreadStep(c), NEW g \in ongoing_games,
         g.game_id \notin GameIds(ongoing_games')
  PROVE  Announced(g)
<1>1. g = MyGame(c)
  BY DEF Cancelled, GameIds
<1> QED
  BY <1>1, MyGameIsMine
     DEF Cancelled, Notify, Bus!Send, Announced, GameInv

\* Guess: the one game taken off was won, its host is told of the defeat.
LEMMA GuessIsAnnounced ==
  ASSUME GameInv, NEW c \in Conns, Guess(c), NEW g \in ongoing_games,
         g.game_id \notin GameIds(ongoing_games')
  PROVE  Announced(g)
<1>1. ongoing_games' # ongoing_games
  BY DEF GameIds
<1>2. MyGames(c) # {} /\ pc[c] = "read"
  BY <1>1 DEF Guess, Request
<1>3. PICK right \in BOOLEAN :
        /\ ongoing_games' = GamesAfterGuess(MyGame(c), right)
        /\ Notify(MyGame(c).host_id, HostNews(MyGame(c).game_state))
        /\ Goto(c, "reply")
  BY <1>1, <1>2 DEF Guess
<1>4. Session(c) /\ ThreadStep(c)
  BY <1>2, <1>3, CommandSteps DEF GameInv
<1>5. MyGame(c) \in ongoing_games /\ MyGame(c) \in Games
  BY <1>2, MyGameIsListed DEF GameInv, GameTypes
<1>6. MyGame(c).game_state = "Victory"
  <2> SUFFICES ASSUME MyGame(c).game_state # "Victory" PROVE FALSE
    OBVIOUS
  <2>1. ongoing_games' = Replace(MyGame(c), GuessedGame(MyGame(c), right))
    BY <1>3 DEF GamesAfterGuess
  <2>2. GuessedGame(MyGame(c), right).game_id = MyGame(c).game_id
    BY <1>5, GuessedKeeps
  <2> QED
    BY <2>1, <2>2 DEF Replace, GameIds
<1>7. g = MyGame(c)
  BY <1>3, <1>6 DEF GamesAfterGuess, GameIds
<1>8. thread_chan' = Append(thread_chan, <<MyGame(c).host_id, "DEFEAT">>)
  BY <1>3, <1>6 DEF Notify, Bus!Send, HostNews
<1> QED
  BY <1>2, <1>4, <1>6, <1>7, <1>8, MyGameIsMine DEF Announced, GameInv

\* Whatever the users play, no game leaves the list without a word to a player
\* who did not end it, and only a thread with a player's id can end it
\* (EndsAreAnnounced).
THEOREM NoGameVanishes == Spec => EndsAreAnnounced
<1>1. GameInv /\ [Next]_vars =>
        [\A g \in ongoing_games :
           g.game_id \notin {h.game_id : h \in ongoing_games'} =>
             /\ \E c \in Conns : Session(c) /\ ThreadStep(c)
                                  /\ local_id[c] \in {g.host_id, g.opponent_id}
             /\ \/ thread_chan' = Append(thread_chan,
                                         <<g.opponent_id, "MATCH CANCELED">>)
                \/ /\ g.game_state = "Victory"
                   /\ thread_chan' = Append(thread_chan, <<g.host_id, "DEFEAT">>)]_vars
  <2> SUFFICES ASSUME GameInv, [Next]_vars, NEW g \in ongoing_games,
                      g.game_id \notin GameIds(ongoing_games')
               PROVE  Announced(g)
    BY DEF GameIds, Announced
  <2>1. ~(UNCHANGED ongoing_games)
    BY DEF GameIds
  <2>2. PICK c \in Conns : StartGame(c) \/ Hint(c) \/ Guess(c)
                             \/ CancelGame(c) \/ Drop(c)
    BY <2>1, GameCommands DEF GameInv
  <2>3. CASE StartGame(c)
    BY <2>3 DEF StartGame, GameIds
  <2>4. CASE Hint(c)
    <3>1. /\ MyGames(c) # {}
          /\ ongoing_games' = Replace(MyGame(c), HintedGame(MyGame(c), requests'))
      BY <2>1, <2>4 DEF Hint
    <3>2. MyGame(c) \in Games
      BY <3>1, MyGameIsListed DEF GameInv, GameTypes
    <3>3. HintedGame(MyGame(c), requests').game_id = MyGame(c).game_id
      BY <3>2 DEF HintedGame, Games
    <3> QED
      BY <3>1, <3>3 DEF Replace, GameIds
  <2>5. CASE Guess(c)
    BY <2>5, GuessIsAnnounced
  <2>6. CASE CancelGame(c)
    <3>1. /\ MyGames(c) # {} /\ Cancelled(c) /\ pc[c] = "read" /\ Goto(c, "reply")
      BY <2>1, <2>6 DEF CancelGame, Request
    <3>2. Session(c) /\ ThreadStep(c)
      BY <3>1, CommandSteps DEF GameInv
    <3> QED
      BY <3>1, <3>2, CancelledIsAnnounced
  <2>7. CASE Drop(c)
    <3>1. /\ MyGames(c) # {} /\ Cancelled(c) /\ pc[c] = "read"
          /\ Goto(c, "leaving") \/ Goto(c, "blocked")
      BY <2>1, <2>7 DEF Drop, Request
    <3>2. Session(c) /\ ThreadStep(c)
      BY <3>1, CommandSteps DEF GameInv
    <3> QED
      BY <3>1, <3>2, CancelledIsAnnounced
  <2> QED
    BY <2>2, <2>3, <2>4, <2>5, <2>6, <2>7
<1> QED
  BY <1>1, GameInvariant, PTL DEF Spec, EndsAreAnnounced

\* A player who hosts the first of all its games hosts the first of those it hosts
\* (get_game_id and get_opponent_id find the same game).
LEMMA HostsItsGame ==
  ASSUME GameTypes, NEW c \in Conns, MyGames(c) # {},
         local_id[c] = MyGame(c).host_id
  PROVE  First(HostedGames(ongoing_games, local_id[c])) = MyGame(c)
<1> DEFINE hosted == HostedGames(ongoing_games, local_id[c])
           game   == First(hosted)
<1>1. MyGames(c) \in SUBSET Games /\ hosted \in SUBSET MyGames(c)
  BY DEF MyGames, UserGames, HostedGames, GameTypes
<1>2. /\ MyGame(c) \in ongoing_games
      /\ \A g \in MyGames(c) : MyGame(c).game_id <= g.game_id
  BY <1>1, FirstIsOne, MyGameIsListed DEF MyGame
<1>3. MyGame(c) \in hosted
  BY <1>2 DEF HostedGames
<1>4. game \in hosted /\ game.game_id <= MyGame(c).game_id
  BY <1>1, <1>3, FirstIsOne
<1>5. MyGame(c).game_id <= game.game_id
  BY <1>1, <1>2, <1>4
<1>6. game.game_id \in Nat /\ MyGame(c).game_id \in Nat
  BY <1>1, <1>3, <1>4 DEF Games
<1>7. game \in ongoing_games
  BY <1>4 DEF HostedGames
<1> QED
  BY <1>2, <1>4, <1>5, <1>6, <1>7 DEF GameTypes, UniqueIds

\* What HintsReachTheGuest says of one game whose hint is a new one.
Told(g) ==
  \E c \in Conns :
    LET hosted == HostedGames(ongoing_games, local_id[c])
        told   == {k.opponent_id : k \in hosted} IN
    /\ Session(c) /\ ThreadStep(c)
    /\ \/ /\ local_id[c] = g.host_id
          /\ thread_chan' = Append(thread_chan, <<g.opponent_id, "HINT">>)
       \/ /\ local_id[c] = g.opponent_id
          /\ IF hosted = {} THEN UNCHANGED thread_chan
             ELSE \E guest \in told :
                    thread_chan' = Append(thread_chan, <<guest, "HINT">>)

\* The hint goes to the guest of the game it is recorded in, or of one that its
\* author hosts (update_game_hint, get_opponent_id).
LEMMA HintIsSent ==
  ASSUME GameInv, NEW c \in Conns, Hint(c),
         NEW g \in ongoing_games, NEW h \in ongoing_games',
         g.game_id = h.game_id, g.last_hint # h.last_hint
  PROVE  Told(g)
<1> DEFINE hosted == HostedGames(ongoing_games, local_id[c])
<1>1. h \notin ongoing_games
  BY DEF GameInv, GameTypes, UniqueIds
<1>2. /\ MyGames(c) # {}
      /\ ongoing_games' = Replace(MyGame(c), HintedGame(MyGame(c), requests'))
      /\ IF hosted = {} THEN UNCHANGED busVars ELSE Notify(HintTarget(c), "HINT")
      /\ pc[c] = "read" /\ Goto(c, "reply")
  BY <1>1 DEF Hint, Request
<1>3. MyGame(c) \in ongoing_games /\ MyGame(c) \in Games
  BY <1>2, MyGameIsListed DEF GameInv, GameTypes
<1>4. h.game_id = MyGame(c).game_id
  BY <1>1, <1>2, <1>3 DEF Replace, HintedGame, Games
<1>5. g = MyGame(c)
  BY <1>3, <1>4 DEF GameInv, GameTypes, UniqueIds
<1>6. Session(c) /\ ThreadStep(c)
  BY <1>2, CommandSteps DEF GameInv
<1>7. CASE local_id[c] = g.host_id
  <2>1. hosted # {} /\ HintTarget(c) = g.opponent_id
    BY <1>2, <1>5, <1>7, HostsItsGame DEF HintTarget, HostedGames, GameInv
  <2> QED
    BY <1>2, <1>6, <1>7, <2>1 DEF Told, Notify, Bus!Send
<1>8. CASE local_id[c] = g.opponent_id /\ hosted = {}
  BY <1>2, <1>6, <1>8 DEF Told, busVars
<1>9. CASE local_id[c] = g.opponent_id /\ hosted # {}
  <2>1. hosted \in SUBSET Games
    BY DEF HostedGames, GameInv, GameTypes
  <2>2. HintTarget(c) \in {k.opponent_id : k \in hosted}
    BY <1>9, <2>1, FirstIsOne DEF HintTarget
  <2> QED
    BY <1>2, <1>6, <1>9, <2>2 DEF Told, Notify, Bus!Send
<1> QED
  BY <1>2, <1>5, <1>7, <1>8, <1>9, MyGameIsMine DEF GameInv

\* In a list that differs from the old one by games with new ids, or by games that
\* keep their hints, no hint was given.
LEMMA NoHint ==
  ASSUME GameInv, NEW c \in Conns,
         StartGame(c) \/ Guess(c) \/ CancelGame(c) \/ Drop(c),
         NEW g \in ongoing_games, NEW h \in ongoing_games',
         g.game_id = h.game_id
  PROVE  g.last_hint = h.last_hint
<1> USE DEF GameInv
<1>1. CASE h \in ongoing_games
  BY <1>1 DEF GameTypes, UniqueIds
<1>2. CASE h \notin ongoing_games
  <2>1. CASE StartGame(c)
    <3>1. PICK guest : h = NewGame(ongoing_games, local_id[c], guest)
      BY <1>2, <2>1 DEF StartGame
    <3>2. h.game_id = NextId(GameIds(ongoing_games))
      BY <3>1 DEF NewGame, GameIds
    <3>3. GameIds(ongoing_games) \in SUBSET Nat /\ g.game_id \in GameIds(ongoing_games)
      BY DEF GameTypes, GameIds, Games
    <3> QED
      BY <3>2, <3>3, NextIdIsNew DEF GameTypes
  <2>2. CASE Guess(c)
    <3>1. MyGames(c) # {}
      BY <1>2, <2>2 DEF Guess
    <3>2. PICK right \in BOOLEAN : ongoing_games' = GamesAfterGuess(MyGame(c), right)
      BY <1>2, <2>2, <3>1 DEF Guess
    <3>3. h = GuessedGame(MyGame(c), right)
      BY <1>2, <3>2 DEF GamesAfterGuess, Replace
    <3>4. MyGame(c) \in ongoing_games /\ MyGame(c) \in Games
      BY <3>1, MyGameIsListed DEF GameTypes
    <3>5. h.game_id = MyGame(c).game_id /\ h.last_hint = MyGame(c).last_hint
      BY <3>3, <3>4, GuessedKeeps
    <3>6. g = MyGame(c)
      BY <3>4, <3>5 DEF GameTypes, UniqueIds
    <3> QED
      BY <3>5, <3>6
  <2>3. CASE CancelGame(c) \/ Drop(c)
    BY <1>2, <2>3 DEF CancelGame, Drop, Cancelled
  <2> QED
    BY <2>1, <2>2, <2>3
<1> QED
  BY <1>1, <1>2

\* In whatever games a user plays, each hint of a host is sent in the same step to
\* the guest of the game it is recorded in (HintsReachTheGuest).
THEOREM HintsArriveAtTheGuest == Spec => HintsReachTheGuest
<1>1. GameInv /\ [Next]_vars =>
        [\A g \in ongoing_games, h \in ongoing_games' :
           g.game_id = h.game_id /\ g.last_hint # h.last_hint => Told(g)]_vars
  <2> SUFFICES ASSUME GameInv, [Next]_vars,
                      NEW g \in ongoing_games, NEW h \in ongoing_games',
                      g.game_id = h.game_id, g.last_hint # h.last_hint
               PROVE  Told(g)
    OBVIOUS
  <2>1. CASE UNCHANGED ongoing_games
    BY <2>1 DEF GameInv, GameTypes, UniqueIds
  <2>2. ASSUME NEW c \in Conns,
               StartGame(c) \/ Guess(c) \/ CancelGame(c) \/ Drop(c)
        PROVE  FALSE
    BY <2>2, NoHint
  <2> QED
    BY <2>1, <2>2, HintIsSent, GameCommands DEF GameInv
<1> QED
  BY <1>1, GameInvariant, PTL DEF Spec, HintsReachTheGuest, Told

=============================================================================
