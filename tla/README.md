# luxo-tcp-app: a TLA+ verification project

The repository is a guessing game over TCP or UNIX sockets: a server with one
thread per client, a hand-made broadcast channel between those threads, and a
terminal client.  This project models both programs and the socket between
them, model-checks them with TLC on small instances, and proves the
safety properties of both with TLAPS for every number of clients and requests,
every width of a byte and every size of buffer.

## The system

| Part | State | Operations | Interacts by |
|---|---|---|---|
| Broadcast (`server.rs` 15-74) | `senders`: (Sender, channel id) pairs behind a RwLock | `subscribe`, `unsubscribe`, `broadcast` | one mpsc channel to every thread |
| Dispatcher (`server_process.rs` 450-474) | the queue of messages sent by the threads | take one message, broadcast it | mpsc from all threads, the Broadcast lock |
| ServerData (`server.rs` 83-299) | `connected_users`, `ongoing_games` behind one RwLock | add and drop users; start, hint, guess, terminate games | locked by every connection thread |
| Game (`guess_game.rs`) | players, `attempts: u8`, state | setters | owned by ServerData |
| Connection thread (`server_process.rs` 29-305) | where it is, `local_id`, its Receiver, its stream | `validate_user`, the loop of `client_connection`, `process_stream`, `send_response` | lock, bus, stream |
| Commands (`server_commands.rs`) | none of their own | DM, HEARTBEAT, DROP, HINT, GUESS, STARTGAME, CANCEL, REQUEST, Message | lock, bus |
| Wire format (`binary_message.rs`, twice) | none | `serialize`, `deserialize`, `split` | stream |
| Client (`bin/client`) | `client_id`, three queues, three threads | read the terminal, read and write the stream, show answers | stream |

What makes them hard:

* **Concurrency.** Threads interleave at every critical section of one RwLock and
  at every send.  A user id is used by its thread long after it was given out
  and may by then mean somebody else.
* **Partial failure.** A response may fail to be written (the user is dropped,
  the thread goes on), a thread may panic outside the lock (the user stays), or
  inside it (the lock is poisoned for everybody), or ask for the lock it holds.
* **Ordering.** A message crosses two queues, with a copy per thread.
* **Streams.** A read returns any part of what was written, and both ends parse
  one message per read.
* **Timeouts.** A read gives up after 200 ms (300 ms in the client, at once on its
  UNIX socket); this is what keeps each end from waiting for the other for ever.
* **Numeric edges.** `attempts` is a `u8` that is lowered past 0; a length is a
  `u16` that may be cut, may point past the buffer and must be UTF-8; a game id is
  made of digits put side by side.

What has to hold, part by part: the bus delivers every message to every running
thread once, in one order, and never forgets a running thread; running sessions
have ids of their own; games begin between registered users, move only as their
attempts allow, and never end without a notice; hints and invitations reach whom
they are for; threads of departed clients end; queues never stand still; what one
end of a socket parses is what the other wrote.  `PROJECT.json` lists the hazards with the properties that cover them.

## Modules

| Module | Models | Correspondence |
|---|---|---|
| `Ids` | `max().unwrap_or(0) + 1`, and the digits of a game id | `NextId`, for channel ids and user ids; `GameId` |
| `Broadcast` | the bus: Broadcast, dispatcher, all mpsc channels | one action per operation; each holds the Broadcast's lock or is one channel operation, so each is one step |
| `TotalOrder` | what the bus promises | one log; a subscriber joins at a point and reads on in log order |
| `BroadcastHistory` | Broadcast with history variables and the refinement mapping to TotalOrder | `ImplementsTotalOrder` |
| `ServerData` | users and games, as operators on the two lists | `GuessedGame` = `update_game_guess`, `AddedUser` = `add_user`, ... |
| `GuessGame` | one game from start to end | the Guess command, with the history of guesses and answers |
| `Server` | the connection threads; composes ServerData and Broadcast (`Bus == INSTANCE Broadcast`) | one action per step of `validate_user` and `client_connection` |
| `ServerCommands` | the commands, `Next`, `Spec`, `FairSpec` | one action per arm of `execute` |
| `Lobby` | what the server promises about its data | users join and leave, games begin, are played and end, one at a time, until it shuts |
| `ServerCorrectness` | the properties of the server, and the refinement mapping to Lobby | |
| `ServerDelivery` | the server with a count of the invitations each session took | history only: `DeliverySpec` adds one variable to `FairSpec` |
| `Codec` | the wire format, of both programs | one operator per function of `binary_message.rs`, on sequences of bytes |
| `Stream` | the socket | reads that return any part of what is there, closing, resets |
| `Client` | the client | one action per step of `handle_input`, `handle_stream` and the loop of `await_input` |
| `Session` | a client and the server's thread for it, composed over `Stream` | one action per step of `validate_user` and `client_connection`, as the client sees them; the properties of both |
| `MCBroadcast`, `MCServer`, `MCServerDelivery`, `MCSession` | instances for TLC | |
| `IdsProofs`, `BroadcastProofs`, `BroadcastHistoryProofs`, `GuessGameProofs`, `ServerProofs`, `DataProofs`, `ServerRefinements`, `SessionProofs` | proofs | each `XProofs` proves what is said of X; `ServerRefinements` shows the server to implement `Broadcast` and `Lobby` |

`Client` extends `Stream`, which extends `Codec`; `Session` extends `Client`.
`ServerCommands` extends `Server`, which extends `ServerData`.  The two halves meet
in the thread of a connection: `Server` has many of them, with the lock, the bus
and the data, and takes a request as a kind; `Session` has one of them, with its
bytes, and takes the answer to a request as a choice, and so too what may happen
at the lock: it is got, or it is poisoned and the thread panics, or it is held for
ever and the thread is `"blocked"` (`LockLost`).

### Choices of the models

* A critical section of the RwLock is one step: nobody else can be in it, and
  what happens before it (reading the stream, parsing) touches nothing shared.
  What the code does outside the lock is a step of its own: the REQUESTEDGAME of
  STARTGAME (`NotifyGuest`), every response (`Greet`, `Reply`).
* `connected_users` and `ongoing_games` are sets.  Ids are pushed in ascending
  order, and games are numbered in the order of their start, so "the first
  match" of the code is the match with the least number.  The real game id is a
  timestamp with two user ids appended.  `IdsProofs` shows that timestamps that
  differ make ids that differ, and that the users add nothing to that; that the
  clock moves on between two games is assumed.
* The texts are left out: a guess is right or wrong, a hint is the number of
  its request, so that every hint is another one.  Last
  guess and secret are read by nobody but spectators.  The page a spectator gets
  and the texts of replies are left out too; the verdicts are in `GuessGame`.
* A write to a peer that is still there succeeds.  A write to one that is gone
  succeeds or fails, as with sockets, and may bring a reset that takes away what
  was still to be read.
* `server.write()` by the thread that holds the lock blocks for ever, as the
  Linux futex lock of std does.
* A direct message may be sent without end: it is not counted as a request, and is
  read while fewer than `MaxQueued` messages are on their way to any one thread.
  Of a client that hung up only what it sent before is read, so those are counted.
* A debug build panics on `0u8 - 1`, a release build wraps: `overflow_checks` is
  chosen in the initial state and never changes.
* For `Server`, clients are the environment: they connect, send any request at any
  time, and hang up at any time.  No fairness is assumed of them.
* A hint that is no text (`BadHint`) panics inside the lock.  The other commands
  take the text apart before they lock, and panic outside it (`Malformed`).
* In `Codec` a byte has `Base` values, the lower half of them ASCII, and a read has
  a buffer of `BufferSize` bytes: 256 and 4096 in the code.  Texts are ASCII.  Then
  the buffer of a message that fits it is UTF-8 exactly if the bytes of its length
  are ASCII: a high byte that starts a longer character means a length of 49152 or
  more, which does not fit, and a low byte is followed by the type.
* A stream is a list of writes, so that a read may end between two of them or
  after some byte inside one (`CutPoints`, or wherever the buffer is full).  The
  reader is given bytes and nothing else.  `cut` records who was given a part.
* In `Session`, `typed`, `received`, `shown`, `written` and `requests` are history.
  `typed` holds what the terminal gave, before `pop`: a line with its newline, or a
  last line without one.

## Runs

| Run | Question | Bounds |
|---|---|---|
| `broadcast` | Does the bus implement one total order while threads come and die? Are channel ids unique and running threads subscribed? | 3 threads, 2 messages, 3 sends: two threads may die before a third joins and takes over an id, and messages may be in both queues at once |
| `guess_game` | Does the game remember its guesses? What is answered? When does it end, when does it panic? | 3 attempts as in the code, 262 guesses: past the point where a wrapping u8 is 0 again |
| `server_identity` | Who holds which user id, through logins, hang-ups, lost responses, drop-outs and panics? | 3 connections (an id, its reuse, and a witness), 2 requests; a DM goes to id 2, so it passes the bus while threads die, to a session that holds the id, held it, or gets it meanwhile |
| `server_games` | How do games begin, move and end, who is told, and whom do they outlive? What is left after a panic inside the lock? Is the server a lobby? | 2 users who may hang up, 3 requests: two games at once and a command in one of them, a hint that is no text while a game is on, and, as there is 1 attempt per game, a game guessed past its end; both builds (the 3 attempts of the code are in `guess_game`) |
| `server_delivery` | Do threads end, do queues move, do invitations arrive, under traffic that never ends? | 2 users; c1 guesses, drops out and may hang up, c2 starts games and sends messages to id 1 without end, at most 2 on their way to a thread; 3 requests beside them reach the panic and the self-deadlock |
| `session` | Do the two ends of a socket understand each other? Do they end together? | `Base` 8 and `BufferSize` 11, so that a line of 4 bytes has a length that is no text, one of 9 does not fit the buffer, one of 65 does not fit its length; 2 lines (the password or not, then a request or DROP), the last one with a newline or without, 1 notice, so that a notice and a reply may be read at once; reads may end after 4 bytes, which is inside the text of a greeting or of a line, and wherever the buffer is full |
| `guess_answers` | violated: `TruthfulAnswers` | 2 states are enough |
| `server_second_drop` | violated: `SecondDropRefused` | no request is needed |
| `server_zombies` | violated: `ConnectedUsersConnected` | clients that send nothing but DROP, one of them |
| `server_hangup` | violated: `EveryHungUpThreadEnds` | two STARTGAMEs and a DROP, under fairness |
| `session_lost_reply` | violated: `NothingSkipped` | a notice and a reply |
| `session_no_id` | violated: `IdAssigned` | one login |

Deadlock is not checked: a model with finitely many connections, guesses or
messages stops when they are used up, and a session stops when both ends have.  Symmetry is used in the safety runs where
all clients may make the same requests.

What bounds a behaviour is the number of connections and of requests; queues are
bounded by nothing else, but for the direct messages (`MaxQueued`).  `Attempts` is a parameter of the model and 3 in the code.

### What the passing runs show

* `ImplementsTotalOrder`: every running thread reads a gap-free run of one global
  order, although the dispatcher removes channels while it broadcasts.  The
  "disconnected" exit of `client_connection` is never taken (`LiveSubscribed`).
* `GameMatchesHistory`: three attempts and a state are enough memory for the
  list of guesses, in both builds.  `AnswersLagOneGuess`: every answer tells the
  outcome of the guess before; `TerminatedAfterVictory`: a won game stays in the
  list until one more guess; `PanicsOnlyOutOfAttempts`: a debug build panics on
  the first wrong guess after a lost game's last attempt, and on no other.
* `SessionsDistinct`: ids are reused safely as long as every response could be
  written.  `RegisteredHasThread`: a registered id without a running thread was
  left by DROP or a panic, never by a hang-up.  `NeverCutOff`: no thread takes the
  exit for a disconnected channel.  `UnauthenticatedInert`: a thread
  before its login changes nothing but by adding its own fresh user.
* `GamesWellFormed`, `GameMoves`, `EndsAreAnnounced`: games, in both builds, a panic
  on `0u8 - 1` or on a hint that is no text included.  A cancellation is sent to the
  guest even when the guest cancels, so the host does not hear of it.
* `HintsReachTheGuest`: a hint of a host is recorded in a game and sent to the guest of
  that game, though the two are looked up apart.  A hint of a guest is recorded in the
  game it plays in, and sent to the guest of a game it hosts, or to nobody.
* `ImplementsLobby`: with the threads, the queues and the lock taken away, what is
  left is a lobby: users join under free ids and leave, a registered user is
  invited to a new game, a game is played or ends, one of these per step, and
  nothing more once the lock is poisoned or held for ever.
* `PlayersAccountedFor`: a game outlives the registration of a player only by a
  hang-up or a lost response.
* `PoisonFreezes`: after the panic inside the lock nobody ever joins again.
* `HungUpThreadsEnd`, `QueuesMove`, `InvitationsArrive`: liveness, while messages are
  sent without end.  The queues need not become empty then, and do not: the dispatcher
  takes one message per 200 ms and a thread about one per 400 ms, whatever comes
  in.  But each takes another message again and again, and every invitation is taken by
  the session it is for: the invitations taken are counted, so an older one on its
  way does not stand in for the one meant.  All three hold unless a DROP has blocked the lock or,
  for a session's channel, the session ends.
* `RepliesInOrder`, `RequestsInOrder`: as long as no read ends inside a message,
  each end parses a part of what the other wrote, in order and ungarbled, although
  messages share reads.  For the server that is what was typed, but for the last
  letter of a last line that has no newline.  Messages may be missing.  A read that does end inside a message makes garbage of
  what follows; the code does not handle that, and the properties say so.
* `RefusalShown`: the client ends by a panic when it is refused, but only after it has
  shown why.  It excludes the garbage of a read that ended inside a message.
* `EndsTogether`, and `QueuesDrain` of `Session`: each end notices that the other
  is gone, unless the server's thread is blocked at the lock that it needs to drop
  the user (as in `server_hangup`), and neither waits in a read for the other for
  ever, however little is typed.

### Fairness

`Fairness` of `ServerCommands`, in `FairSpec` and in `DeliverySpec`, asks weak fairness of each thread's own steps (`Turn`) and of the
dispatcher.  The scheduler runs both, no step waits for a client because reads
time out after 200 ms (`set_read_timeout`), and the mpsc sends never block.
Logins, requests and hang-ups are not fair.  A step that needs the lock is only
enabled when the lock is free; no critical section waits for anything, so the
lock comes free again unless its holder is blocked for ever, which the
properties say.

`FairSpec` of `Session` asks weak fairness of the main loop and the stream thread of
the client and of the server's thread.  They poll, sleep at most 500 ms and read
with a timeout.  The input thread is not fair: nobody has to type.

### Where the code and its comments disagree

1. `TruthfulAnswers`: the guess that hits the secret is answered INCORRECT, since
   the Guess command answers from the copy made before the guess
   (`server_commands.rs` 210, 215, 218).
2. `SecondDropRefused`: after a lost response the thread keeps its `local_id`
   although the user was dropped; the id goes to the next client, whom the old
   thread unregisters when its stream ends.
3. `ConnectedUsersConnected`: DROP leaves its user in the list of connected users
   (`drop_user` stands inside the `if let` of a second game).
4. `EveryHungUpThreadEnds`: DROP by a user in two games takes the lock twice.
5. `NothingSkipped`: a notice and a reply in one read are two messages, and the
   client parses the first (`stream.rs` 38-56).
6. `IdAssigned`: the answer to a right password is a message with the text "ID n"
   (`server_process.rs` 146), and the client takes its id from a command ID only
   (`client_commands.rs` 159): it shows the answer and keeps the id 0, which
   `client_commands.rs` 72 says it would not go on with.

These have no run of their own:

* `server.rs` 139 says "Check if user is already in a game", and nothing is checked
  there.  The models let users play several games.
* A hint of a user who is the guest of one game and hosts another is recorded in the
  first and sent to the guest of the second, when the first is the older one
  (`HintsReachTheGuest`); nothing says where it should go.
* The host is not told when the guest cancels (`EndsAreAnnounced`).
* `pop` takes the last byte of what was read, which is a letter when stdin ends without
  a newline (client `stream.rs` 94, `RequestsInOrder`).

## Proofs

TLAPS checks, for every number of connections, messages, requests, guesses and
ids:

* `IdsProofs`: an id made by `NextId` is above all ids in use (`NextIdIsNew`).  `Max`
  is a CHOOSE, so the proof first shows that a bounded nonempty set of naturals
  has a largest element: its upper bounds have a least one (well-founded
  induction), and that one is in the set.  Game ids: `GameIdsDiffer`,
  `PlayersDoNotSeparate`.
* `BroadcastProofs`: `TypeOK`, `UniqueChannelIds`, `LiveSubscribed`.  The
  inductive invariant `BusInv` is their conjunction and a bound on the channel
  ids.  `LiveSubscribed` needs `UniqueChannelIds`, because channels are removed
  by id, and that needs the freshness of a new id.
* `BroadcastHistoryProofs`: the bus implements `TotalOrder` (`BusIsTotalOrder`).
  The mapping says where a thread stands in the log from the lengths of two queues;
  that it then reads the right message needs to know what they hold.
  `HistoryInv` says it: the dispatcher's queue is the end of the log, and a running
  thread's queue is the run of the log that ends where the dispatcher stands.  A
  dispatch keeps this only if it reaches every running thread, which is `BusInv`.
* `GuessGameProofs`: all invariants of the `guess_game` run.  `GuessInv` is
  their conjunction and two facts about a listed game: every guess was answered,
  and in a debug build no more were wrong than there were attempts.  `CountAppend`
  counts right and wrong guesses from one guess to the next.
* `ServerProofs`: `SessionsDistinct` and `RegisteredHasThread`.  The inductive
  invariant `IdInv` adds the types of the four variables concerned, that 0 is
  registered by nobody and is the id of every thread before its login (so that
  the `drop_user(0)` of an interrupted login removes nobody), and a bound on the
  registered ids.  Steps fall into five kinds (a session moves, a newcomer
  moves, a response is lost, a login, an end of stream), each one a lemma.
* `DataProofs`: `GamesWellFormed`, `PlayersAccountedFor`, and five action properties:
  `GameMoves`, `PoisonFreezes`, `UnauthenticatedInert`, `EndsAreAnnounced`,
  `HintsReachTheGuest`.  `GameInv` is `IdInv`, `GamesWellFormed`, the
  types of games, a bound on their numbers, which makes a new one new, and that
  requests are counted by naturals, which numbers the hints.  Steps again fall into
  kinds by what they do to the games: none, a new one, one that moves, one that
  goes.  `HostsItsGame` brings the two lookups of a hint together: the first game a user
  plays in is the first one it hosts, if it hosts that one.  `PlayerInv` adds that the id of every session is accounted for, and that
  only a session has a response to lose.  `NewcomersInert` needs `IdInv`: the user a
  login adds is new because ids are bounded, and the one it may remove is 0.
* `ServerRefinements`: the server implements `Broadcast` (`ServerUsesBus`, through an
  INSTANCE of `BroadcastProofs`), which brings all that was proved of the bus into the
  server: `NeverCutOff`, and with `RestTypes` the types of all variables.  It
  implements `Lobby` too (`ServerImplementsLobby`): each kind of step is a step of
  `Lobby` or leaves it alone; that a newcomer's id is free comes from `IdInv`, that a
  new game is new from `GameInv`.
* `SessionProofs`, the wire format: one lemma says where the bytes of a message stand
  in the buffer (`BufferHolds`).  From it follow that the first message of a read is
  parsed as it was written (`FirstMessageParsed`), and two panics: `OverlongPanics`
  and `HalfOfTheLengthsPanic`, which for the numbers of the code says that the
  server's thread panics on every message of 128 to 255 bytes, 384 to 511, and so on.
  `SplitTakesApart`: the word and the arguments of a command.
* `SessionProofs`, client and thread: all invariants of the `session` run.  What a
  read returns joins a list of writes by a recursive function (`FlattenSeq`), and
  an id is read digit by digit by another (`IdOf`); `Recursion` shows, by induction over
  how far the function is defined, that such functions have the values their equations
  say, and `ReadsTake` what a read takes from the stream.  `RepliesInOrder` and
  `RequestsInOrder` are not inductive: they speak of what was parsed, and a
  message has to come through the stream and the queues first.  `Pipe` is the
  strengthening, once for each direction: what was parsed, what is in the stream
  and what waits before it stand, one after the other, at increasing positions of
  what was sent.  `PipeIn`, `PipeOut`, `PipeSkip` (messages lost in a shared read) and
  `PipeLost` (a reset) keep it.  For the requests, what was sent is what was typed
  without its last byte, up to the lines still in the input queue (`InputLast`); that
  this is what the lines ask for is `AskedMeant`.  `NoIdArrives` says why `session_no_id`
  is no accident: nothing in the client's queue is ever an ID, so it keeps the id 0.  `RefusalIsShown` follows the refusal from the stream to the queue to the
  screen (`RefusalStands`), the client going on until it is there; its hard case is a reset,
  which can take away the refusal only while requests are still unread, and there are
  none left.

No assumption is used beyond the named ASSUMEs of the modules, which TLC evaluates
in the runs.  Those about the code rather than about the types of parameters:

* `CodecAssumption`: a buffer is smaller than what a u16 can count (4096 and 65536).
* `SessionAssumption`: replies and notices are made by `new_message` or
  `new_command`; none is an ID command (the commands the server sends are DEFEAT,
  VICTORY, REQUESTEDGAME, REQUESTACK and CANCELED); a greeting is no refusal (one
  begins with ID, the other with ERROR); a refusal fits the buffer (the two are
  constant strings of 24 and 23 bytes, `server_process.rs` 160, 174).

The bounds on ids, and that the messages of a session stand at increasing positions,
are invariants, not assumptions; TLC checks the other conjuncts, and cannot
evaluate a quantifier over all naturals.

Model-checked only: liveness, `HungUpThreadsEnd`, `QueuesMove`, `InvitationsArrive`,
`EndsTogether` and `QueuesDrain`; the prover has no ENABLED, and so no fairness.
Every other property of the passing runs is a theorem.

## Not modelled

* Sockets that are full.  `write_all` on the server has no timeout: a client that
  does not read can block its thread.  The client writes to a UNIX socket in
  nonblocking mode, where a full buffer makes it panic.  How much fits is up to the
  system.
* Texts beyond ASCII on the wire, and so the errors of `try_into` on a command word
  that is no UTF-8 (an error is printed and the message skipped).
* Whom a message in a queue was meant for, once its id has passed to another
  client: a message carries the id and nothing else.
* `main`, the listeners and the removal of the socket file: start-up I/O.
  The TCP and the UNIX arm of `run_server` do the same thing to each connection.
* `bin/server/message.rs`, which no crate includes, and `src/main.rs`, which
  prints a usage text.  What the client prints around a response.

## Plan

The modules and runs of the first plan are there, and so are the proofs of every
safety invariant and action property.  What is left, in this order:

1. `Session`'s thread as a refinement of one thread of `Server`: a read that parses a
   request is a step of that thread with the kind of the request, a read of 0
   bytes is `EndOfStream`.
2. What a thread reads of a stream in which a read did end inside a message: how
   far the garbage reaches.
