------------------------------- MODULE Client -------------------------------
(***************************************************************************)
(* The client: a thread that reads lines from the terminal, a thread that  *)
(* serves the socket, and the main loop between them, joined by three      *)
(* queues.                                                                 *)
(*                                                                         *)
(* The main loop takes at most one response and one line per round; the    *)
(* stream thread writes at most one message and reads once per round.  A   *)
(* thread that panics ends alone and drops its ends of the queues and the  *)
(* socket; when the main thread ends, the process does.                    *)
(***************************************************************************)
EXTENDS Stream

CONSTANTS
  Lines,     \* what the user may type
  MaxLines,  \* bound on the lines typed
  Slash,     \* the byte '/'
  Newline,   \* the byte that ends a line
  IdWord,    \* "ID"
  IdSize     \* the bytes of an id: 8

Texts == Seq(Byte)

ASSUME ClientAssumption ==
  /\ Lines \subseteq Texts
  /\ MaxLines \in Nat
  /\ {Slash, Newline} \subseteq Byte
  /\ \A line \in Lines : \A i \in DOMAIN line : line[i] # Newline
  /\ IdWord \in Texts
  /\ IdSize \in Nat

VARIABLES
  input,       \* the input thread: "reading", "eof" (stdin has ended) or "panicked"
  input_chan,  \* lines on their way to the main loop
  main,        \* the main loop: before "incoming", before "input", or ended
  client_id,   \* ClientData.client_id
  outgoing,    \* messages on their way to the stream thread
  stream,      \* the stream thread: before "write", before "read", or "panicked"
  incoming,    \* responses on their way to the main loop
  typed,       \* history: the lines typed, with their newlines
  received,    \* history: the messages the stream thread parsed
  shown        \* history: the responses the main loop printed

inputVars == <<input, input_chan, typed>>
mainVars == <<main, client_id, shown>>
clientVars == <<inputVars, mainVars, outgoing, stream, incoming, received>>

BinaryMessages ==
  [length : 0 .. LengthLimit - 1, message_type : 0 .. 2, message : Texts]
Responses == [kind : {"ID", "COMMAND", "MESSAGE", "UNKNOWN"}, data : Texts]

ClientTypeOK ==
  /\ input \in {"reading", "eof", "panicked"}
  /\ input_chan \in Seq(Texts)
  /\ main \in {"incoming", "input", "panicked", "exited"}
  /\ client_id \in Nat
  /\ outgoing \in Seq(BinaryMessages)
  /\ stream \in {"write", "read", "panicked"}
  /\ incoming \in Seq(Responses)
  /\ typed \in Seq(Texts) /\ Len(typed) <= MaxLines
  /\ received \in Seq(BinaryMessages)
  /\ shown \in Seq(Responses)

ClientInit ==
  /\ input = "reading" /\ input_chan = <<>>
  /\ main = "incoming" /\ client_id = 0
  /\ outgoing = <<>> /\ stream = "write" /\ incoming = <<>>
  /\ typed = <<>> /\ received = <<>> /\ shown = <<>>

Alive == main \in {"incoming", "input"}

-----------------------------------------------------------------------------
(* The input thread.                                                       *)

\* pop takes off the last byte, whatever it is.
Popped(line) == Front(line)

Entered(line) ==
  /\ input_chan' = Append(input_chan, Popped(line))
  /\ typed' = Append(typed, line)

\* A line comes with its newline; the last line may come without one.
TypeLine ==
  /\ Alive /\ input = "reading"
  /\ Len(typed) < MaxLines
  /\ \E line \in Lines :
       \/ Entered(Append(line, Newline)) /\ UNCHANGED input
       \/ line # <<>> /\ Entered(line) /\ input' = "eof"
  /\ UNCHANGED <<streamVars, mainVars, outgoing, stream, incoming, received>>

\* At the end of stdin the thread spins; input that is no text makes it panic.
InputEnds ==
  /\ Alive /\ input = "reading"
  /\ input' \in {"eof", "panicked"}
  /\ UNCHANGED <<streamVars, input_chan, typed, mainVars, outgoing, stream,
                 incoming, received>>

-----------------------------------------------------------------------------
(* The main loop.                                                          *)

\* The process ends, and its socket with it.
Exit(how) == main' = how /\ ClientCloses

\* An id is 8 bytes, read as one number; anything else is read as 0.
IdOf(data) ==
  LET value[i \in 0 .. Len(data)] ==
        IF i = 0 THEN 0 ELSE value[i - 1] * Base + data[i]
  IN IF Len(data) = IdSize THEN value[IdSize] ELSE 0

\* handle_server_reply: an ID of 0 ends the client, everything else is printed.
HandleReply(response) ==
  /\ client_id' = IF response.kind = "ID" THEN IdOf(response.data) ELSE client_id
  /\ IF response.kind = "ID" /\ client_id' = 0
     THEN Exit("exited") /\ UNCHANGED shown
     ELSE /\ main' = "input"
          /\ shown' = Append(shown, response)
          /\ UNCHANGED streamVars

\* What try_recv finds in the queue.  A mistake is to look at the state of the
\* channel before what is in it.
DisconnectedEarly == stream = "panicked"
Disconnected == incoming = <<>> /\ stream = "panicked"

TakeIncoming ==
  /\ main = "incoming"
  /\ IF Disconnected
     THEN Exit("panicked") /\ UNCHANGED <<incoming, client_id, shown>>
     ELSE IF incoming = <<>>
     THEN main' = "input" /\ UNCHANGED <<streamVars, incoming, client_id, shown>>
     ELSE HandleReply(Head(incoming)) /\ incoming' = Tail(incoming)
  /\ UNCHANGED <<inputVars, outgoing, stream, received>>

\* A line with a slash is a command.
ToServer(line) == IF Head(line) = Slash THEN NewCommand(Tail(line)) ELSE NewMessage(line)

\* The line goes to the stream thread; if that is gone, unwrap panics.
TakeInput ==
  /\ main = "input"
  /\ IF input_chan = <<>>
     THEN /\ IF input = "panicked" THEN Exit("panicked")
                                   ELSE main' = "incoming" /\ UNCHANGED streamVars
          /\ UNCHANGED <<input_chan, outgoing>>
     ELSE /\ input_chan' = Tail(input_chan)
          /\ IF Head(input_chan) = <<>>
             THEN main' = "incoming" /\ UNCHANGED <<streamVars, outgoing>>
             ELSE IF stream = "panicked"
             THEN Exit("panicked") /\ UNCHANGED outgoing
             ELSE /\ main' = "incoming"
                  /\ outgoing' = Append(outgoing, ToServer(Head(input_chan)))
                  /\ UNCHANGED streamVars
  /\ UNCHANGED <<input, typed, client_id, shown, stream, incoming, received>>

-----------------------------------------------------------------------------
(* The stream thread.                                                      *)

\* One message at most.  To a closed peer, the write fails or is lost, and may
\* bring a reset that takes away what is still to be read.
WriteStream ==
  /\ Alive /\ stream = "write"
  /\ IF outgoing = <<>>
     THEN stream' = "read" /\ UNCHANGED <<streamVars, outgoing>>
     ELSE /\ outgoing' = Tail(outgoing)
          /\ IF "server" \in closed
             THEN \/ stream' = "panicked" /\ ClientCloses
                  \/ /\ stream' = "read"
                     /\ down' \in {down, <<>>}
                     /\ UNCHANGED <<up, closed, cut>>
             ELSE /\ stream' = "read"
                  /\ up' = Append(up, Serialize(Head(outgoing)))
                  /\ UNCHANGED <<down, closed, cut>>
  /\ UNCHANGED <<inputVars, mainVars, incoming, received>>

Response(m) ==
  CASE m.message_type = Command /\ Split(m).command = IdWord ->
         [kind |-> "ID", data |-> Split(m).arguments]
    [] m.message_type = Command /\ Split(m).command # IdWord ->
         [kind |-> "COMMAND", data |-> m.message]
    [] m.message_type = Message -> [kind |-> "MESSAGE", data |-> m.message]
    [] m.message_type = Unknown -> [kind |-> "UNKNOWN", data |-> <<>>]

\* One message is parsed, whatever the read brought.
ReadStream ==
  /\ Alive /\ stream = "read"
  /\ \E r \in Reads(down) :
       IF SliceFits(Buffer(r.bytes))
       THEN LET m == Deserialize(Buffer(r.bytes)) IN
            /\ received' = Append(received, m)
            /\ incoming' = Append(incoming, Response(m))
            /\ stream' = "write"
            /\ down' = r.rest
            /\ CutBy("client", r)
            /\ UNCHANGED <<up, closed>>
       ELSE /\ stream' = "panicked"
            /\ ClientCloses
            /\ UNCHANGED <<incoming, received>>
  /\ UNCHANGED <<inputVars, mainVars, outgoing>>

\* WouldBlock.  A mistake is a socket that blocks.
ReadBlocks == FALSE
ReadTimesOut == down = <<>> /\ "server" \notin closed

ReadNothing ==
  /\ Alive /\ stream = "read"
  /\ \/ ReadTimesOut /\ stream' = "write" /\ UNCHANGED streamVars
     \/ /\ down = <<>> /\ "server" \in closed
        /\ stream' = "panicked" /\ ClientCloses
  /\ UNCHANGED <<inputVars, mainVars, outgoing, incoming, received>>

StreamThread == WriteStream \/ ReadStream \/ ReadNothing
MainThread == TakeIncoming \/ TakeInput

=============================================================================
