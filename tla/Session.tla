------------------------------ MODULE Session -------------------------------
(***************************************************************************)
(* A client and the server's thread for it, with the socket between them.  *)
(* Of the server's thread this is what the client can see of it: what it   *)
(* reads, what it writes and when it closes; Server has the rest.  A step  *)
(* that needs the lock of the data may find it free, or poisoned, and then *)
(* panic, or held by a thread that never lets go, and then wait for ever.  *)
(***************************************************************************)
EXTENDS Client

CONSTANTS
  Password,    \* the server's password
  Greeting,    \* "ID 1"
  Refusals,    \* the texts "ERROR .."
  DropWord,    \* "DROP"
  Replies,     \* messages that answer requests
  Notices,     \* messages of other users, as they come from the dispatcher
  MaxNotices   \* bound on them

\* What new_message and new_command make.  The commands that the server sends are
\* DEFEAT, VICTORY, REQUESTEDGAME, REQUESTACK and CANCELED, never an ID; only a
\* greeting begins with that, and a refusal with ERROR.  A refusal is a line of
\* text, far shorter than the buffer.
ASSUME SessionAssumption ==
  /\ {Password, Greeting, DropWord} \cup Refusals \subseteq Texts
  /\ Greeting \notin Refusals
  /\ \A text \in Refusals : Len(text) + HeaderSize <= BufferSize
  /\ \A m \in Replies \cup Notices :
       /\ m.message \in Texts
       /\ m \in {NewMessage(m.message), NewCommand(m.message)}
       /\ m.message_type = Command => Split(m).command # IdWord
  /\ MaxNotices \in Nat

VARIABLES
  server,    \* the thread: at its "login", before "recv", before "read",
             \* "closing" after its last write, "closed", or "blocked" at the lock
  notices,   \* how many notices were written
  written,   \* history: the messages the server wrote
  requests   \* history: the messages the server parsed

serverVars == <<server, notices, written, requests>>
vars == <<streamVars, clientVars, serverVars>>

TypeOK ==
  /\ StreamTypeOK
  /\ ClientTypeOK
  /\ server \in {"login", "recv", "read", "closing", "closed", "blocked"}
  /\ notices \in 0 .. MaxNotices
  /\ written \in Seq(BinaryMessages)
  /\ requests \in Seq(BinaryMessages)

Init ==
  /\ StreamInit
  /\ ClientInit
  /\ server = "login" /\ notices = 0
  /\ written = <<>> /\ requests = <<>>

\* send_response: to a client that is gone, the bytes go nowhere, and may bring a
\* reset that takes away what is still to be read.
SendResponse(m, unread) ==
  /\ written' = Append(written, m)
  /\ IF "client" \in closed
     THEN up' \in {unread, <<>>} /\ UNCHANGED down
     ELSE up' = unread /\ down' = Append(down, Serialize(m))

\* process_stream panics on a buffer that is no text, its header included, and
\* deserialize on a length that goes beyond the buffer.
Parses(r) == IsText(Buffer(r.bytes)) /\ SliceFits(Buffer(r.bytes))

ServerReads(r) ==
  /\ CutBy("server", r)
  /\ requests' = IF Parses(r)
                 THEN Append(requests, Deserialize(Buffer(r.bytes)))
                 ELSE requests
  /\ UNCHANGED closed

Silent(unread) == up' = unread /\ UNCHANGED <<down, written>>

\* Where a thread ends up at a lock that is lost: it panics, or waits for ever.
LockLost == {"closing", "blocked"}

\* Where it goes on after a response: a write that fails drops the user, under
\* the lock.
AfterResponse(next) ==
  {next} \cup IF "client" \in closed THEN LockLost ELSE {}

\* validate_user: the password is a message, and all else is refused.
Validated(m) == m.message_type = Message /\ m.message = Password

\* Who is let in is in the list before the answer, and locks it after.
LetIn(unread) ==
  /\ server' \in {"recv"} \cup LockLost
  /\ SendResponse(NewMessage(Greeting), unread)

Refused(unread) ==
  /\ server' \in AfterResponse("closing")
  /\ \E text \in Refusals : SendResponse(NewMessage(text), unread)

\* Only a message is compared with the password, under the lock.
LoginRequest ==
  /\ server = "login"
  /\ \E r \in Reads(up) :
       LET m == Deserialize(Buffer(r.bytes)) IN
       /\ ServerReads(r)
       /\ IF ~Parses(r)
          THEN server' = "closing" /\ Silent(r.rest)
          ELSE \/ IF Validated(m) THEN LetIn(r.rest) ELSE Refused(r.rest)
               \/ /\ m.message_type = Message
                  /\ server' \in LockLost /\ Silent(r.rest)
  /\ UNCHANGED <<clientVars, notices>>

\* try_recv of client_connection, and a message for this client.
Notify ==
  /\ server = "recv"
  /\ notices < MaxNotices
  /\ notices' = notices + 1
  /\ \E m \in Notices : SendResponse(m, up)
  /\ server' \in AfterResponse("read")
  /\ UNCHANGED <<clientVars, closed, cut, requests>>

NoNotice ==
  /\ server = "recv"
  /\ server' = "read"
  /\ UNCHANGED <<clientVars, streamVars, notices, written, requests>>

IsDrop(m) == m.message_type = Command /\ Split(m).command = DropWord

\* One request is parsed, whatever the read brought, and answered.  After DROP the
\* thread ends without an answer, or waits for the lock it holds; any handler may
\* find the lock lost, or panic by itself.
ServeRequest ==
  /\ server = "read"
  /\ \E r \in Reads(up) :
       /\ ServerReads(r)
       /\ IF ~Parses(r)
          THEN server' = "closing" /\ Silent(r.rest)
          ELSE \/ /\ ~IsDrop(Deserialize(Buffer(r.bytes)))
                  /\ server' \in AfterResponse("recv")
                  /\ \E m \in Replies : SendResponse(m, r.rest)
               \/ server' \in LockLost /\ Silent(r.rest)
  /\ UNCHANGED <<clientVars, notices>>

\* The read times out, or finds the end of the stream, and locks to drop the user.
\* A mistake is to take both for the same.
AfterEmptyReadAlways == {IF server = "read" THEN "recv" ELSE "login"}
AfterEmptyRead == IF "client" \in closed THEN LockLost
                  ELSE {IF server = "read" THEN "recv" ELSE "login"}

ReadNoRequest ==
  /\ server \in {"login", "read"}
  /\ up = <<>>
  /\ server' \in AfterEmptyRead
  /\ UNCHANGED <<clientVars, streamVars, notices, written, requests>>

\* The thread is over and drops its stream.
Close ==
  /\ server = "closing"
  /\ server' = "closed"
  /\ ServerCloses
  /\ UNCHANGED <<clientVars, notices, written, requests>>

ServerThread ==
  LoginRequest \/ Notify \/ NoNotice \/ ServeRequest \/ ReadNoRequest \/ Close

\* What the client's threads and its user do.
ClientSide ==
  /\ TypeLine \/ InputEnds \/ TakeIncoming \/ TakeInput \/ StreamThread
  /\ UNCHANGED serverVars

Next == ServerThread \/ ClientSide

Spec == Init /\ [][Next]_vars

\* Every thread runs on; nobody has to type.
FairSpec ==
  /\ Spec
  /\ WF_vars(MainThread /\ UNCHANGED serverVars)
  /\ WF_vars(StreamThread /\ UNCHANGED serverVars)
  /\ WF_vars(ServerThread)

-----------------------------------------------------------------------------

\* A sequence is another one, or the rest of one, with some elements left out.
Within(s, t) ==
  \E at \in [DOMAIN s -> DOMAIN t] :
    /\ \A i \in DOMAIN s : s[i] = t[at[i]]
    /\ \A i, j \in DOMAIN s : i < j => at[i] < at[j]

Over == main \in {"panicked", "exited"}

\* What the client received is what the server wrote, in that order and with
\* nothing garbled or twice, as long as no read ended inside a message: messages
\* may be missing, though (serialize, read, deserialize, two threads, a notice
\* and a reply at once).
RepliesInOrder == "client" \notin cut => Within(received, written)

\* The lines the user typed that are not empty.
Meaningful == {i \in DOMAIN typed : typed[i] # <<Newline>>}

\* What a line asks of the server: all of it but its newline.  A last line that has
\* no newline may lack its last letter.
Asks(m, line) ==
  IF Last(line) = Newline
  THEN m = ToServer(Front(line))
  ELSE \E k \in {Len(line) - 1, Len(line)} \ {0} : m = ToServer(SubSeq(line, 1, k))

\* What the server parsed is what the user typed, in that order and with nothing
\* garbled or twice, under the same condition and for lines that fit a message;
\* only the last letter of a line without a newline may be missing (handle_input, await_input,
\* serialize, process_stream, deserialize, several messages in one read).
RequestsInOrder ==
  "server" \notin cut =>
    \E at \in [DOMAIN requests -> Meaningful] :
      /\ \A i \in DOMAIN requests : Asks(requests[i], typed[at[i]])
      /\ \A i, j \in DOMAIN requests : i < j => at[i] < at[j]

\* A user who types one line, and is refused for it, sees why before the client
\* ends, although the end of the stream and the refusal race through two threads
\* (the main loop empties its queue before it looks at the state of the channel).
RefusalShown ==
  /\ Over /\ input # "panicked" /\ Len(typed) = 1 /\ cut = {}
  /\ Len(written) = 1 /\ written[1].message \in Refusals
  => shown = <<Response(written[1])>>

\* Whoever ends first, the other end follows: the client when the server closed;
\* the server's thread when the client is gone, unless it is blocked for ever at
\* the lock it needs to drop the user (the reads that return 0 bytes, the panic of
\* the stream thread, the main loop that finds its channel closed).
EndsTogether ==
  /\ server = "closed" ~> Over
  /\ Over ~> server \in {"closed", "blocked"}

\* What the user types is sent, and what the server wrote is printed, again and
\* again, unless the client ends: no thread of the two waits for the other (the
\* reads that time out).
QueuesDrain ==
  []<>(Over \/ <<input_chan, outgoing, incoming, down>> = <<<<>>, <<>>, <<>>, <<>>>>)

\* "reads from the stream and writes to the incoming channel": when the client has
\* read all that the server wrote, and no read ended inside a message, it has
\* received all of it.
NothingSkipped ==
  down = <<>> /\ closed = {} /\ "client" \notin cut => received = written


\* "If ID == 0 we exit as the ID wasn't assigned by server": a client that goes on
\* after it was let in has an ID.
IdAssigned ==
  Alive /\ Response(NewMessage(Greeting)) \in Range(shown) => client_id # 0

=============================================================================
