------------------------------- MODULE Stream -------------------------------
(***************************************************************************)
(* The socket between a client and the server's thread for it: two streams *)
(* of bytes.  A stream is kept as the list of the writes that are still in *)
(* it, but a reader does not see where one ends and the next begins: it    *)
(* gets any number of bytes that are there, up to the size of its buffer.  *)
(*                                                                         *)
(* Writes never block: the limits of the system's buffers are left out.    *)
(***************************************************************************)
EXTENDS Codec, SequencesExt

CONSTANT CutPoints   \* bound: the bytes of a message that a read may end after

ASSUME StreamAssumption == CutPoints \subseteq Nat

VARIABLES
  up,      \* from the client to the server
  down,    \* from the server to the client
  closed,  \* the ends that have closed their socket
  cut      \* history: the readers that were given a part of a message

Ends == {"client", "server"}

streamVars == <<up, down, closed, cut>>

StreamTypeOK ==
  /\ up \in Seq(Seq(Byte))
  /\ down \in Seq(Seq(Byte))
  /\ closed \subseteq Ends
  /\ cut \subseteq Ends

StreamInit ==
  /\ up = <<>> /\ down = <<>>
  /\ closed = {} /\ cut = {}

\* The first n writes and p bytes of the next are read, and the rest stays.
Taken(stream, n, p) ==
  LET whole == FlattenSeq(SubSeq(stream, 1, n))
      after == SubSeq(stream, n + 1, Len(stream))
      cuts  == after # <<>> /\ p \in 1 .. Len(Head(after)) - 1
  IN [bytes |-> IF cuts THEN whole \o SubSeq(Head(after), 1, p) ELSE whole,
      rest  |-> IF cuts THEN <<SubSeq(Head(after), p + 1, Len(Head(after)))>> \o Tail(after)
                        ELSE after,
      part  |-> IF cuts THEN p ELSE 0]

\* What read may answer with Ok(size), size > 0; a full buffer ends a read anywhere.
Reads(stream) ==
  {r \in {Taken(stream, n, p) : n \in 0 .. Len(stream), p \in 0 .. BufferSize} :
     /\ Len(r.bytes) \in 1 .. BufferSize
     /\ r.part = 0 \/ r.part \in CutPoints \/ Len(r.bytes) = BufferSize}

\* A reader of the stream that was given this.
CutBy(reader, r) == cut' = IF r.part > 0 THEN cut \cup {reader} ELSE cut

\* An end closes its socket: nothing is read from it any more.
Closes(end) ==
  /\ closed' = closed \cup {end}
  /\ UNCHANGED cut


\* If an end leaves bytes unread the connection is reset, which may take away what
\* the other has not read yet.
ClientCloses ==
  /\ Closes("client")
  /\ down' = <<>>
  /\ \/ UNCHANGED up
     \/ down # <<>> /\ up' = <<>>

ServerCloses ==
  /\ Closes("server")
  /\ up' = <<>>
  /\ \/ UNCHANGED down
     \/ up # <<>> /\ down' = <<>>

=============================================================================
