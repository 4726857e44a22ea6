------------------------------- MODULE Codec -------------------------------
(***************************************************************************)
(* The wire format.  Server and client each have a copy of it, alike but   *)
(* for a println: a message is its length in two bytes, its type in one,   *)
(* and its text.  A byte is a number; the width of a byte and the size of  *)
(* the read buffer are parameters, so that small instances reach the       *)
(* lengths at which a text no longer fits.                                 *)
(*                                                                         *)
(* Texts are ASCII, the lower half of the bytes.                           *)
(***************************************************************************)
EXTENDS Integers, Sequences

CONSTANTS
  Base,        \* the values of a byte: 256
  BufferSize,  \* the size of the buffer of a read: 4096
  Space        \* the byte ' ': 32

ASSUME CodecAssumption ==
  /\ Base \in Nat /\ Base > 2
  /\ BufferSize \in Nat /\ BufferSize >= 3 /\ BufferSize < Base * Base
  /\ Space \in 1 .. Base - 1

Byte == 0 .. Base - 1

\* A length is a u16.
LengthLimit == Base * Base

Unknown == 0
Command == 1
Message == 2

\* A mistake: to forget the type.
HeaderSizeWithoutType == 2
HeaderSize == 3

\* A mistake: a length without a width.
NewMessageUncut(text) ==
  [length |-> Len(text), message_type |-> Message, message |-> text]

NewCommand(text) ==
  [length |-> Len(text) % LengthLimit, message_type |-> Command, message |-> text]

NewMessage(text) ==
  [length |-> Len(text) % LengthLimit, message_type |-> Message, message |-> text]

Serialize(m) ==
  <<m.length \div Base, m.length % Base, m.message_type>> \o m.message

\* vec![0; 4096] after a read of these bytes.
Buffer(bytes) ==
  [i \in 1 .. BufferSize |-> IF i <= Len(bytes) THEN bytes[i] ELSE 0]

\* String::from_utf8(buffer) is Ok: the text always is, and a length that fits the
\* buffer only if its bytes are ASCII too.
IsText(buffer) == \A i \in DOMAIN buffer : buffer[i] < Base \div 2

WireLength(buffer) == buffer[1] * Base + buffer[2]

\* Whether the slice of the text is inside the buffer; deserialize panics if not.
SliceFits(buffer) == WireLength(buffer) + HeaderSize <= Len(buffer)

\* A mistake: the text is all there is in the buffer.
DeserializeToEnd(buffer) ==
  [length |-> WireLength(buffer),
   message_type |-> IF buffer[3] \in {Command, Message} THEN buffer[3] ELSE Unknown,
   message |-> SubSeq(buffer, HeaderSize + 1, Len(buffer))]

Deserialize(buffer) ==
  LET length == WireLength(buffer) IN
  [length |-> length,
   message_type |-> IF buffer[3] \in {Command, Message} THEN buffer[3] ELSE Unknown,
   message |-> [i \in 1 .. length |-> buffer[HeaderSize + i]]]

Spaces(text) == {i \in DOMAIN text : text[i] = Space}

FirstSpace(text) == CHOOSE i \in Spaces(text) : \A j \in Spaces(text) : i <= j

Slice(text, from, to) == [i \in 1 .. to - from + 1 |-> text[from + i - 1]]

\* The word of a command, and what follows its first space.
Split(m) ==
  IF Spaces(m.message) = {}
  THEN [command |-> m.message, arguments |-> <<>>]
  ELSE LET space == FirstSpace(m.message) IN
       [command |-> Slice(m.message, 1, space - 1),
        arguments |-> IF m.length > space THEN Slice(m.message, space + 1, m.length)
                                          ELSE <<>>]

=============================================================================
