--------------------------- MODULE SessionProofs ---------------------------
(***************************************************************************)
(* A client and its thread, for every width of a byte, every size of the   *)
(* buffer and everything that may be typed and answered.                   *)
(*                                                                         *)
(* The wire format first: the length survives its two bytes by the         *)
(* division theorem (DivMod), and each position of the text is followed    *)
(* through Serialize, Buffer and Deserialize.  With it, a read that ends   *)
(* between two writes parses the first of them (WholeReadParsed).          *)
(*                                                                         *)
(* Order then rests on one invariant for each direction (Pipe): what was   *)
(* parsed, what is in the stream and what is queued before it stand, one   *)
(* after the other, at increasing positions of what was sent.  A step      *)
(* appends a position, hands one on, or drops some.  The two invariants    *)
(* about the content of what arrives, that no id does and that a refusal   *)
(* is seen, follow a message through the same places.                      *)
(***************************************************************************)
EXTENDS Session, IdsProofs, SequenceTheorems

-----------------------------------------------------------------------------
(* The wire format.                                                        *)

\* Two bytes hold every length below the limit (to_be_bytes, from_be_bytes).
LEMMA DivMod ==
  ASSUME NEW n \in Nat, n < LengthLimit
  PROVE  /\ n \div Base \in Byte
         /\ n % Base \in Byte
         /\ (n \div Base) * Base + (n % Base) = n
<1>1. Base \in Nat /\ Base > 2
  BY CodecAssumption
<1>2. n % Base \in 0 .. Base - 1
  BY <1>1
<1>3. n = Base * (n \div Base) + (n % Base)
  BY <1>1
<1>4. n \div Base \in Int /\ n \div Base >= 0
  BY <1>1
<1>5. n \div Base < Base
  BY <1>1, <1>3, <1>4 DEF LengthLimit
<1> QED
  BY <1>1, <1>2, <1>3, <1>4, <1>5 DEF Byte

\* A u16 holds every length below the limit (text.len() as u16).
LEMMA ShortLength ==
  ASSUME NEW n \in Nat, n < LengthLimit
  PROVE  n % LengthLimit = n
<1> DEFINE limit == LengthLimit
<1>1. limit \in Nat
  BY CodecAssumption DEF LengthLimit
<1> HIDE DEF limit
<1>2. n < limit
  BY DEF limit
<1>3. n % limit = n
  BY <1>1, <1>2
<1> QED
  BY <1>3 DEF limit

\* Where the elements of two sequences stand in their concatenation.
LEMMA Concatenation ==
  ASSUME NEW s \in Seq(Int), NEW t \in Seq(Int)
  PROVE  /\ s \o t \in Seq(Int)
         /\ Len(s \o t) = Len(s) + Len(t)
         /\ DOMAIN (s \o t) = 1 .. Len(s) + Len(t)
         /\ \A i \in 1 .. Len(s) : (s \o t)[i] = s[i]
         /\ \A i \in 1 .. Len(t) : (s \o t)[Len(s) + i] = t[i]
  OBVIOUS

\* A message of either type, as new_message and new_command make it.
TypedMessage(type, text) ==
  [length |-> Len(text) % LengthLimit, message_type |-> type, message |-> text]

\* Where the bytes of a message stand in the buffer (serialize, read).
LEMMA BufferHolds ==
  ASSUME NEW type \in {Command, Message}, NEW text \in Seq(Byte),
         NEW rest \in Seq(Byte),
         NEW n \in Nat, n = Len(text) % LengthLimit
  PROVE  LET buffer == Buffer(Serialize(TypedMessage(type, text)) \o rest) IN
         /\ buffer[1] = n \div Base
         /\ buffer[2] = n % Base
         /\ buffer[3] = type
         /\ \A i \in 1 .. Len(text) :
              HeaderSize + i <= BufferSize => buffer[HeaderSize + i] = text[i]
         /\ Len(buffer) = BufferSize
<1> DEFINE header == <<n \div Base, n % Base, type>>
           bytes == header \o text
           all == bytes \o rest
           buffer == Buffer(all)
<1>1. Serialize(TypedMessage(type, text)) = bytes
  BY DEF Serialize, TypedMessage
<1>2. header \in Seq(Int) /\ Len(header) = 3 /\ text \in Seq(Int)
      /\ rest \in Seq(Int) /\ Len(text) \in Nat /\ Len(rest) \in Nat
  BY CodecAssumption DEF Byte, Command, Message
<1>3. /\ header[1] = n \div Base
      /\ header[2] = n % Base
      /\ header[3] = type
  OBVIOUS
<1> HIDE DEF header
<1>4. /\ bytes \in Seq(Int)
      /\ Len(bytes) = 3 + Len(text)
      /\ \A i \in 1 .. 3 : bytes[i] = header[i]
      /\ \A i \in 1 .. Len(text) : bytes[3 + i] = text[i]
  <2>1. /\ bytes \in Seq(Int)
        /\ Len(bytes) = Len(header) + Len(text)
        /\ \A i \in 1 .. Len(header) : bytes[i] = header[i]
        /\ \A i \in 1 .. Len(text) : bytes[Len(header) + i] = text[i]
    BY <1>2, Concatenation
  <2> HIDE DEF bytes
  <2> QED
    BY <1>2, <2>1
<1> HIDE DEF bytes
<1>5. /\ Len(all) = 3 + Len(text) + Len(rest)
      /\ \A i \in 1 .. 3 + Len(text) : all[i] = bytes[i]
  <2>1. /\ Len(all) = Len(bytes) + Len(rest)
        /\ \A i \in 1 .. Len(bytes) : all[i] = bytes[i]
    BY <1>2, <1>4, Concatenation
  <2> HIDE DEF all
  <2> QED
    BY <1>2, <1>4, <2>1
<1> HIDE DEF all
<1>6. BufferSize \in Nat /\ BufferSize >= 3
  BY CodecAssumption
<1>7. \A i \in 1 .. BufferSize : i <= Len(all) => buffer[i] = all[i]
  BY DEF Buffer
<1>8. Len(buffer) = BufferSize
  BY <1>6 DEF Buffer
<1> HIDE DEF buffer
<1>9. \A i \in 1 .. 3 : buffer[i] = header[i]
  BY <1>2, <1>4, <1>5, <1>6, <1>7
<1>10. \A i \in 1 .. Len(text) : 3 + i <= BufferSize => buffer[3 + i] = text[i]
  <2> SUFFICES ASSUME NEW i \in 1 .. Len(text), 3 + i <= BufferSize
               PROVE  buffer[3 + i] = text[i]
    OBVIOUS
  <2>1. 3 + i \in 1 .. BufferSize /\ 3 + i \in 1 .. 3 + Len(text)
        /\ 3 + i <= Len(all)
    BY <1>2, <1>5, <1>6
  <2>2. buffer[3 + i] = all[3 + i] /\ all[3 + i] = bytes[3 + i]
    BY <1>5, <1>7, <2>1
  <2> QED
    BY <1>4, <2>2
<1>11. buffer = Buffer(Serialize(TypedMessage(type, text)) \o rest)
  BY <1>1 DEF buffer, all
<1> QED
  BY <1>3, <1>8, <1>9, <1>10, <1>11 DEF HeaderSize

\* The first message of a read is what was written, whatever follows it in the
\* buffer, as long as it fits: a message is neither garbled by its neighbour nor
\* cut short (serialize, deserialize).  What follows it, no read sees again.
THEOREM FirstMessageParsed ==
  ASSUME NEW type \in {Command, Message}, NEW text \in Seq(Byte),
         NEW rest \in Seq(Byte),
         Len(text) < LengthLimit, Len(text) + HeaderSize <= BufferSize
  PROVE  LET m == TypedMessage(type, text)
             buffer == Buffer(Serialize(m) \o rest) IN
         SliceFits(buffer) /\ Deserialize(buffer) = m
<1> DEFINE n == Len(text)
           m == TypedMessage(type, text)
           buffer == Buffer(Serialize(m) \o rest)
<1>1. n \in Nat /\ BufferSize \in Nat /\ LengthLimit \in Nat
  BY CodecAssumption DEF LengthLimit
<1>2. n % LengthLimit = n
  BY <1>1
<1>3. /\ buffer[1] = n \div Base
      /\ buffer[2] = n % Base
      /\ buffer[3] = type
      /\ \A i \in 1 .. n :
           HeaderSize + i <= BufferSize => buffer[HeaderSize + i] = text[i]
      /\ Len(buffer) = BufferSize
  BY <1>1, <1>2, BufferHolds
<1> HIDE DEF buffer
<1>4. WireLength(buffer) = n
  BY <1>1, <1>3, DivMod DEF WireLength
<1>5. SliceFits(buffer)
  BY <1>1, <1>3, <1>4 DEF SliceFits, HeaderSize
<1>6. [i \in 1 .. n |-> buffer[HeaderSize + i]] = text
  <2>1. \A i \in 1 .. n : HeaderSize + i <= BufferSize
    BY <1>1 DEF HeaderSize
  <2>2. \A i \in 1 .. n : buffer[HeaderSize + i] = text[i]
    BY <1>3, <2>1
  <2> QED
    BY <2>2
<1>7. Deserialize(buffer) = [length |-> n, message_type |-> type, message |-> text]
  BY <1>3, <1>4, <1>6 DEF Deserialize
<1>8. Deserialize(buffer) = m
  BY <1>2, <1>7 DEF TypedMessage
<1> QED
  BY <1>5, <1>8 DEF buffer

\* A message that is longer than the buffer, and whose length still fits its two
\* bytes, makes deserialize slice past the buffer, and its thread panics.
THEOREM OverlongPanics ==
  ASSUME NEW type \in {Command, Message}, NEW text \in Seq(Byte),
         NEW rest \in Seq(Byte),
         Len(text) < LengthLimit, Len(text) + HeaderSize > BufferSize
  PROVE  ~SliceFits(Buffer(Serialize(TypedMessage(type, text)) \o rest))
<1> DEFINE n == Len(text)
           buffer == Buffer(Serialize(TypedMessage(type, text)) \o rest)
<1>1. n \in Nat /\ BufferSize \in Nat /\ LengthLimit \in Nat
  BY CodecAssumption DEF LengthLimit
<1>2. n % LengthLimit = n
  BY <1>1
<1>3. /\ buffer[1] = n \div Base
      /\ buffer[2] = n % Base
      /\ Len(buffer) = BufferSize
  BY <1>1, <1>2, BufferHolds
<1> HIDE DEF buffer
<1>4. WireLength(buffer) = n
  BY <1>1, <1>3, DivMod DEF WireLength
<1>5. ~SliceFits(buffer)
  BY <1>1, <1>3, <1>4 DEF SliceFits, HeaderSize
<1> QED
  BY <1>5 DEF buffer

\* A message whose length has a byte that is not ASCII is no text, though its own
\* text is: process_stream, which unwraps the buffer as UTF-8 with the header in
\* it, panics on every message of 128 to 255 bytes, of 384 to 511, and so on.
THEOREM HalfOfTheLengthsPanic ==
  ASSUME NEW type \in {Command, Message}, NEW text \in Seq(Byte),
         NEW rest \in Seq(Byte),
         Len(text) < LengthLimit, Len(text) % Base >= Base \div 2
  PROVE  ~IsText(Buffer(Serialize(TypedMessage(type, text)) \o rest))
<1> DEFINE n == Len(text)
           buffer == Buffer(Serialize(TypedMessage(type, text)) \o rest)
<1>1. n \in Nat /\ BufferSize \in Nat /\ BufferSize >= 3 /\ LengthLimit \in Nat
  BY CodecAssumption DEF LengthLimit
<1>2. n % LengthLimit = n
  BY <1>1
<1>3. buffer[2] = n % Base
  BY <1>1, <1>2, BufferHolds
<1>4. 2 \in DOMAIN buffer
  BY <1>1 DEF Buffer
<1>5. (n % Base) \in Nat /\ (Base \div 2) \in Nat
  BY <1>1, CodecAssumption
<1> HIDE DEF buffer
<1>6. ~IsText(buffer)
  BY <1>3, <1>4, <1>5 DEF IsText
<1> QED
  BY <1>6 DEF buffer

\* The word of a command and its arguments come apart as they were put together,
\* though the arguments may hold spaces of their own (split).
THEOREM SplitTakesApart ==
  ASSUME NEW word \in Seq(Byte), NEW args \in Seq(Byte),
         Spaces(word) = {},
         Len(word) + 1 + Len(args) < LengthLimit
  PROVE  Split(NewCommand(word \o <<Space>> \o args)) =
           [command |-> word, arguments |-> args]
<1> DEFINE w == Len(word)
           text == word \o <<Space>> \o args
           m == NewCommand(text)
<1>1. /\ w \in Nat /\ Len(args) \in Nat
      /\ LengthLimit \in Nat
      /\ word \in Seq(Int) /\ args \in Seq(Int) /\ <<Space>> \in Seq(Int)
  BY CodecAssumption DEF Byte, LengthLimit
<1>2. /\ Len(text) = w + 1 + Len(args)
      /\ \A i \in 1 .. w : text[i] = word[i]
      /\ text[w + 1] = Space
      /\ \A i \in 1 .. Len(args) : text[w + 1 + i] = args[i]
      /\ DOMAIN text = 1 .. Len(text)
  <2> DEFINE tail == <<Space>> \o args
  <2>1. /\ tail \in Seq(Int) /\ Len(tail) = 1 + Len(args) /\ tail[1] = Space
        /\ \A i \in 1 .. Len(args) : tail[1 + i] = args[i]
    BY <1>1
  <2> HIDE DEF tail
  <2>2. /\ Len(word \o tail) = w + Len(tail)
        /\ \A i \in 1 .. w : (word \o tail)[i] = word[i]
        /\ \A i \in 1 .. Len(tail) : (word \o tail)[w + i] = tail[i]
        /\ DOMAIN (word \o tail) = 1 .. w + Len(tail)
    <3>1. word \in Seq(Int) /\ tail \in Seq(Int)
      BY <1>1, <2>1
    <3> QED
      BY <3>1, Concatenation
  <2>3. text = word \o tail
    BY DEF tail
  <2>4. \A i \in 1 .. Len(args) : 1 + i \in 1 .. 1 + Len(args)
                                 /\ w + 1 + i = w + (1 + i)
    BY <1>1
  <2>5. 1 \in 1 .. 1 + Len(args) /\ w + 1 + Len(args) = w + (1 + Len(args))
    BY <1>1
  <2> HIDE DEF text, w
  <2> QED
    BY <2>1, <2>2, <2>3, <2>4, <2>5
<1> HIDE DEF text
<1>3. m.message = text /\ m.length = w + 1 + Len(args)
  <2>1. Len(text) % LengthLimit = w + 1 + Len(args)
    BY <1>1, <1>2, ShortLength
  <2> QED
    BY <2>1 DEF NewCommand
<1> HIDE DEF m
<1>4. w + 1 \in Spaces(text)
  BY <1>1, <1>2 DEF Spaces
<1>5. \A i \in Spaces(text) : i \in Nat /\ w + 1 <= i
  <2> SUFFICES ASSUME NEW i \in Spaces(text), i < w + 1 PROVE FALSE
    BY <1>1, <1>2 DEF Spaces
  <2>1. i \in 1 .. w /\ text[i] = Space
    BY <1>1, <1>2 DEF Spaces
  <2>2. word[i] = Space /\ i \in DOMAIN word
    BY <1>1, <1>2, <2>1
  <2> QED
    BY <2>2 DEF Spaces
<1>6. FirstSpace(text) = w + 1
  <2>1. FirstSpace(text) \in Spaces(text)
        /\ \A j \in Spaces(text) : FirstSpace(text) <= j
    BY <1>4, <1>5 DEF FirstSpace
  <2> QED
    BY <1>1, <1>4, <1>5, <2>1
<1>7. Slice(text, 1, w) = word
  <2>1. \A i \in 1 .. w : 1 + i - 1 = i
    BY <1>1
  <2>2. w - 1 + 1 = w
    BY <1>1
  <2>3. \A i \in 1 .. w : text[i + 1 - 1] = word[i]
    BY <1>1, <1>2, <2>1
  <2> QED
    BY <1>1, <1>2, <2>2, <2>3 DEF Slice
<1>8. Slice(text, w + 2, w + 1 + Len(args)) = args
  <2>1. (w + 1 + Len(args)) - (w + 2) + 1 = Len(args)
    BY <1>1
  <2>2. \A i \in 1 .. Len(args) : text[w + 2 + i - 1] = args[i]
    BY <1>1, <1>2
  <2> QED
    <3>1. Slice(text, w + 2, w + 1 + Len(args)) =
            [i \in 1 .. Len(args) |-> text[w + 2 + i - 1]]
      BY <2>1 DEF Slice
    <3>2. args = [i \in 1 .. Len(args) |-> args[i]]
      OBVIOUS
    <3> QED
      BY <2>2, <3>1, <3>2
<1>9. Split(m) = [command |-> Slice(text, 1, w + 1 - 1),
                 arguments |-> IF w + 1 + Len(args) > w + 1
                               THEN Slice(text, w + 1 + 1, w + 1 + Len(args))
                               ELSE <<>>]
  BY <1>3, <1>4, <1>6 DEF Split
<1>10. w + 1 - 1 = w /\ w + 1 + 1 = w + 2
  BY <1>1
<1>11. (IF w + 1 + Len(args) > w + 1 THEN args ELSE <<>>) = args
  BY <1>1
<1>12. Split(m) = [command |-> word, arguments |-> args]
  BY <1>7, <1>8, <1>9, <1>10, <1>11
<1> QED
  BY <1>12 DEF m, text

-----------------------------------------------------------------------------
(* Functions defined by recursion have values, and what they are.           *)

\* Induction over a range, stated for a set: no operator has to be guessed.
LEMMA RangeInduction ==
  ASSUME NEW n \in Nat, NEW T \in SUBSET (0 .. n), 0 \in T,
         \A i \in 1 .. n : i - 1 \in T => i \in T
  PROVE  T = 0 .. n
<1> SUFFICES ASSUME (0 .. n) \ T # {} PROVE FALSE
  OBVIOUS
<1>1. (0 .. n) \ T \in SUBSET Nat
  OBVIOUS
<1>2. PICK m \in (0 .. n) \ T : \A k \in (0 .. n) \ T : m <= k
  BY <1>1, LeastNat
<1>3. m \in 1 .. n /\ m - 1 \in 0 .. n /\ m - 1 < m
  BY <1>2
<1>4. m - 1 \in T
  BY <1>2, <1>3
<1> QED
  BY <1>2, <1>3, <1>4

\* The first n + 1 values of a recursion with this start and these steps.
Follows(f, n, base, step) ==
  f[0] = base /\ \A i \in 1 .. n : f[i] = step[i][f[i - 1]]

\* They exist.
LEMMA Recursion ==
  ASSUME NEW S, NEW n \in Nat, NEW base \in S, NEW step \in [1 .. n -> [S -> S]]
  PROVE  \E f \in [0 .. n -> S] : Follows(f, n, base, step)
<1> DEFINE T == {k \in 0 .. n : \E f \in [0 .. k -> S] : Follows(f, k, base, step)}
<1>1. 0 \in T
  <2> DEFINE f == [i \in 0 .. 0 |-> base]
  <2>1. f \in [0 .. 0 -> S] /\ Follows(f, 0, base, step)
    BY DEF Follows
  <2> HIDE DEF f
  <2>2. 0 \in 0 .. n
    OBVIOUS
  <2> QED
    BY <2>1, <2>2
<1>2. ASSUME NEW k \in 1 .. n, k - 1 \in T PROVE k \in T
  <2>1. PICK f \in [0 .. k - 1 -> S] : Follows(f, k - 1, base, step)
    BY <1>2
  <2> DEFINE g == [i \in 0 .. k |-> IF i = k THEN step[k][f[k - 1]] ELSE f[i]]
  <2>2. k - 1 \in 0 .. k - 1 /\ step[k][f[k - 1]] \in S
    BY <2>1
  <2>3. \A i \in 0 .. k : i # k => i \in 0 .. k - 1 /\ g[i] = f[i]
    OBVIOUS
  <2>4. g \in [0 .. k -> S]
    BY <2>1, <2>2, <2>3
  <2>5. g[k] = step[k][f[k - 1]] /\ g[0] = f[0]
    OBVIOUS
  <2> HIDE DEF g
  <2>6. ASSUME NEW i \in 1 .. k PROVE g[i] = step[i][g[i - 1]]
    <3>1. g[i - 1] = f[i - 1]
      BY <2>3
    <3>2. CASE i = k
      BY <2>5, <3>1, <3>2
    <3>3. CASE i # k
      <4>1. i \in 1 .. k - 1 /\ g[i] = f[i]
        BY <2>3, <3>3
      <4> QED
        BY <2>1, <3>1, <4>1 DEF Follows
    <3> QED
      BY <3>2, <3>3
  <2>7. Follows(g, k, base, step)
    BY <2>1, <2>5, <2>6 DEF Follows
  <2> QED
    BY <2>4, <2>7
<1>3. T \in SUBSET (0 .. n)
  OBVIOUS
<1> HIDE DEF T
<1>4. n \in T
  BY <1>1, <1>2, <1>3, RangeInduction
<1> QED
  BY <1>4 DEF T

\* What a read got first, whatever came with it.
StartsWith(bytes, first) ==
  bytes \in Seq(Byte) /\ \E rest \in Seq(Byte) : bytes = first \o rest

\* The order in which reads are put together does not matter.
LEMMA BytesJoin ==
  ASSUME NEW s \in Seq(Byte), NEW t \in Seq(Byte), NEW u \in Seq(Byte)
  PROVE  (s \o t) \o u = s \o (t \o u)
BY ConcatAssociative

\* Some writes, one after the other, are bytes, those of the first write first.
LEMMA FlattenStarts ==
  ASSUME NEW s \in Seq(Seq(Byte)), s # <<>>
  PROVE  StartsWith(FlattenSeq(s), s[1])
<1> DEFINE n == Len(s)
           Def(f) == f = [i \in 1 .. n |-> IF i = 1 THEN s[i] ELSE f[i-1] \o s[i]]
<1>1. n \in Nat \ {0} /\ \A i \in 1 .. n : s[i] \in Seq(Byte)
  OBVIOUS
<1>2. FlattenSeq(s) = (CHOOSE f : Def(f))[n]
  BY <1>1 DEF FlattenSeq
<1>3. \E f : Def(f)
  <2> DEFINE step == [i \in 1 .. n |-> [v \in Seq(Byte) |->
                        IF i = 1 THEN s[1] ELSE v \o s[i]]]
  <2>1. step \in [1 .. n -> [Seq(Byte) -> Seq(Byte)]]
    <3>1. \A i \in 1 .. n, v \in Seq(Byte) : v \o s[i] \in Seq(Byte)
      BY <1>1, ConcatProperties
    <3> QED
      BY <1>1, <3>1
  <2>2. \A i \in 1 .. n, v \in Seq(Byte) :
          step[i][v] = IF i = 1 THEN s[1] ELSE v \o s[i]
    OBVIOUS
  <2> HIDE DEF step
  <2>3. n \in Nat /\ <<>> \in Seq(Byte)
    BY <1>1
  <2>4. PICK f \in [0 .. n -> Seq(Byte)] : Follows(f, n, <<>>, step)
    <3> HIDE DEF n
    <3> QED
      BY <2>1, <2>3, Recursion
  <2> DEFINE g == [i \in 1 .. n |-> f[i]]
  <2>5. ASSUME NEW i \in 1 .. n
        PROVE  g[i] = IF i = 1 THEN s[i] ELSE g[i - 1] \o s[i]
    <3>0. i - 1 \in 0 .. n
      BY <1>1
    <3>1. f[i - 1] \in Seq(Byte)
      <4> HIDE DEF n
      <4> QED
        BY <2>4, <3>0
    <3>2. f[i] = IF i = 1 THEN s[1] ELSE f[i - 1] \o s[i]
      BY <2>2, <2>4, <3>1 DEF Follows
    <3>3. i # 1 => g[i - 1] = f[i - 1]
      BY <1>1
    <3> QED
      BY <3>2, <3>3
  <2>6. g = [i \in 1 .. n |-> g[i]]
    OBVIOUS
  <2> HIDE DEF g
  <2>7. Def(g)
    BY <2>5, <2>6
  <2> QED
    BY <2>7
<1> DEFINE f == CHOOSE f : Def(f)
<1>4. Def(f)
  BY <1>3
<1> HIDE DEF f
<1>5. \A i \in 1 .. n : f[i] = IF i = 1 THEN s[i] ELSE f[i - 1] \o s[i]
  BY <1>4
<1> DEFINE T == {i \in 0 .. n : i = 0 \/ StartsWith(f[i], s[1])}
<1> HIDE DEF Def
<1>6. ASSUME NEW i \in 1 .. n, i - 1 \in T PROVE StartsWith(f[i], s[1])
  <2>1. CASE i = 1
    <3>1. f[i] = s[1] /\ s[1] \in Seq(Byte)
      BY <1>1, <1>5, <2>1
    <3>2. s[1] = s[1] \o <<>> /\ <<>> \in Seq(Byte)
      BY <3>1
    <3> HIDE DEF n
    <3> QED
      BY <3>1, <3>2 DEF StartsWith
  <2>2. CASE i # 1
    <3>1. StartsWith(f[i - 1], s[1])
      BY <1>1, <1>6, <2>2
    <3>2. PICK rest \in Seq(Byte) : f[i - 1] = s[1] \o rest
      BY <3>1 DEF StartsWith
    <3>3. f[i] = f[i - 1] \o s[i]
      BY <1>5, <2>2
    <3>4. f[i - 1] \in Seq(Byte) /\ s[i] \in Seq(Byte) /\ s[1] \in Seq(Byte)
      BY <1>1, <3>1 DEF StartsWith
    <3> DEFINE before == f[i - 1]
               after == s[i]
               first == s[1]
    <3>5. /\ before \in Seq(Byte) /\ after \in Seq(Byte) /\ first \in Seq(Byte)
          /\ before = first \o rest /\ f[i] = before \o after
      BY <3>2, <3>3, <3>4
    <3> HIDE DEF before, after
    <3>6. StartsWith(f[i], first)
      <4> HIDE DEF first
      <4>1. before \o after \in Seq(Byte) /\ rest \o after \in Seq(Byte)
        BY <3>5, ConcatProperties
      <4>2. (first \o rest) \o after = first \o (rest \o after)
        BY <3>5, BytesJoin
      <4> QED
        BY <3>5, <4>1, <4>2 DEF StartsWith
    <3> QED
      BY <3>6
  <2> QED
    BY <2>1, <2>2
<1>7. T \in SUBSET (0 .. n) /\ 0 \in T /\ n \in Nat
  BY <1>1
<1>8. \A i \in 1 .. n : i - 1 \in T => i \in T
  BY <1>6
<1>9. n \in 0 .. n /\ n # 0
  BY <1>1
<1> HIDE DEF T, n
<1>10. n \in T
  BY <1>7, <1>8, <1>9, RangeInduction
<1> QED
  BY <1>2, <1>9, <1>10 DEF T, f

\* An id is a number (u64::from_be_bytes).
LEMMA IdIsNat ==
  ASSUME NEW data \in Texts
  PROVE  IdOf(data) \in Nat
<1> DEFINE n == Len(data)
           Def(f) == f = [i \in 0 .. n |-> IF i = 0 THEN 0 ELSE f[i-1] * Base + data[i]]
<1>1. /\ n \in Nat /\ Base \in Nat
      /\ \A i \in 1 .. n : data[i] \in Nat
  BY CodecAssumption DEF Texts, Byte
<1>2. Len(data) = IdSize => IdOf(data) = (CHOOSE f : Def(f))[n]
  BY DEF IdOf
<1>3. \E f : Def(f)
  <2> DEFINE step == [i \in 1 .. n |-> [v \in Nat |-> v * Base + data[i]]]
  <2>1. step \in [1 .. n -> [Nat -> Nat]]
    <3>1. \A i \in 1 .. n, v \in Nat : v * Base + data[i] \in Nat
      BY <1>1
    <3> QED
      BY <3>1
  <2>2. \A i \in 1 .. n, v \in Nat : step[i][v] = v * Base + data[i]
    OBVIOUS
  <2> HIDE DEF step
  <2>3. PICK f \in [0 .. n -> Nat] : Follows(f, n, 0, step)
    <3> HIDE DEF n
    <3> QED
      BY <1>1, <2>1, Recursion
  <2>4. ASSUME NEW i \in 0 .. n
        PROVE  f[i] = IF i = 0 THEN 0 ELSE f[i - 1] * Base + data[i]
    <3>1. CASE i = 0
      BY <2>3, <3>1 DEF Follows
    <3>2. CASE i # 0
      <4>1. i \in 1 .. n /\ i - 1 \in 0 .. n
        BY <1>1, <3>2
      <4> QED
        BY <2>2, <2>3, <3>2, <4>1 DEF Follows
    <3> QED
      BY <3>1, <3>2
  <2>5. f = [i \in 0 .. n |-> f[i]]
    BY <2>3
  <2>6. Def(f)
    BY <2>4, <2>5
  <2> QED
    BY <2>6
<1> DEFINE f == CHOOSE f : Def(f)
<1>4. Def(f)
  BY <1>3
<1> HIDE DEF f
<1> DEFINE T == {i \in 0 .. n : f[i] \in Nat}
<1>5. 0 \in T
  BY <1>1, <1>4
<1>6. ASSUME NEW i \in 1 .. n, i - 1 \in T PROVE i \in T
  <2>1. f[i] = f[i - 1] * Base + data[i] /\ f[i - 1] \in Nat
    BY <1>1, <1>4, <1>6
  <2>2. f[i - 1] * Base \in Nat
    BY <1>1, <2>1
  <2>3. f[i] \in Nat
    <3> DEFINE v == f[i - 1] * Base
    <3>1. v \in Nat /\ data[i] \in Nat /\ f[i] = v + data[i]
      BY <1>1, <2>1, <2>2
    <3> HIDE DEF v
    <3> QED
      BY <3>1
  <2> QED
    BY <2>3
<1>7. T \in SUBSET (0 .. n)
  OBVIOUS
<1> HIDE DEF T
<1>8. T = 0 .. n
  BY <1>1, <1>5, <1>6, <1>7, RangeInduction
<1>9. f[n] \in Nat
  BY <1>1, <1>8 DEF T
<1>10. CASE Len(data) = IdSize
  BY <1>2, <1>9, <1>10 DEF f
<1>11. CASE Len(data) # IdSize
  BY <1>11 DEF IdOf
<1> QED
  BY <1>10, <1>11

-----------------------------------------------------------------------------
(* Types of what is written, read and parsed.                              *)

\* The sizes, in one place.
LEMMA Sizes ==
  /\ Base \in Nat /\ Base > 2
  /\ BufferSize \in Nat /\ BufferSize >= 3
  /\ LengthLimit \in Nat /\ LengthLimit > 3
  /\ BufferSize < LengthLimit
  /\ 0 \in Byte /\ 1 \in Byte /\ 2 \in Byte
<1> DEFINE square == Base * Base
<1>1. Base \in Nat /\ Base > 2 /\ BufferSize < square /\ BufferSize \in Nat
      /\ BufferSize >= 3
  BY CodecAssumption
<1>2. square \in Nat
  BY <1>1
<1> HIDE DEF square
<1>3. square > 3
  BY <1>1, <1>2
<1>4. LengthLimit = square
  BY DEF LengthLimit, square
<1> QED
  BY <1>1, <1>2, <1>3, <1>4 DEF Byte

\* A message has a length of two bytes (new_message, new_command).
LEMMA MadeTyped ==
  ASSUME NEW text \in Texts
  PROVE  /\ NewMessage(text) \in BinaryMessages
         /\ NewCommand(text) \in BinaryMessages
<1> DEFINE length == Len(text) % LengthLimit
<1>1. length \in 0 .. LengthLimit - 1
  <2>1. Len(text) \in Nat
    BY DEF Texts
  <2> QED
    BY <2>1, Sizes
<1> HIDE DEF length
<1>2. /\ NewMessage(text) = [length |-> length, message_type |-> 2, message |-> text]
      /\ NewCommand(text) = [length |-> length, message_type |-> 1, message |-> text]
  BY DEF NewMessage, NewCommand, Message, Command, length
<1> QED
  BY <1>1, <1>2 DEF BinaryMessages

\* A message is written as bytes (serialize).
LEMMA SerializeTyped ==
  ASSUME NEW m \in BinaryMessages
  PROVE  Serialize(m) \in Seq(Byte)
<1>1. /\ m.length \in 0 .. LengthLimit - 1
      /\ m.message_type \in 0 .. 2
      /\ m.message \in Seq(Byte)
  BY DEF BinaryMessages, Texts
<1>2. m.length \in Nat /\ m.length < LengthLimit
  BY <1>1, Sizes
<1>3. m.length \div Base \in Byte /\ m.length % Base \in Byte
  BY <1>2, DivMod
<1>4. m.message_type \in Byte
  BY <1>1, Sizes DEF Byte
<1> DEFINE header == <<m.length \div Base, m.length % Base, m.message_type>>
<1>5. header \in Seq(Byte)
  BY <1>3, <1>4
<1> HIDE DEF header
<1>6. header \o m.message \in Seq(Byte)
  BY <1>1, <1>5, ConcatProperties
<1> QED
  BY <1>6 DEF Serialize, header

\* A read fills the buffer with bytes.
LEMMA BufferTyped ==
  ASSUME NEW bytes \in Seq(Byte)
  PROVE  Buffer(bytes) \in [1 .. BufferSize -> Byte]
<1>1. \A i \in 1 .. BufferSize : i <= Len(bytes) => i \in 1 .. Len(bytes)
  OBVIOUS
<1>2. \A i \in 1 .. BufferSize :
        (IF i <= Len(bytes) THEN bytes[i] ELSE 0) \in Byte
  BY <1>1, Sizes
<1> QED
  BY <1>2 DEF Buffer

\* What is parsed is a message, of the length it says (deserialize).
LEMMA ParsedTyped ==
  ASSUME NEW bytes \in Seq(Byte), SliceFits(Buffer(bytes))
  PROVE  /\ Deserialize(Buffer(bytes)) \in BinaryMessages
         /\ Len(Deserialize(Buffer(bytes)).message) =
              Deserialize(Buffer(bytes)).length
<1> DEFINE buffer == Buffer(bytes)
           length == WireLength(buffer)
           text == [i \in 1 .. length |-> buffer[HeaderSize + i]]
           type == IF buffer[3] \in {Command, Message} THEN buffer[3] ELSE Unknown
<1>1. buffer \in [1 .. BufferSize -> Byte]
  BY BufferTyped
<1> HIDE DEF buffer
<1>2. Len(buffer) = BufferSize
  BY <1>1, Sizes
<1>3. length \in Nat
  <2>1. buffer[1] \in Nat /\ buffer[2] \in Nat
    BY <1>1, Sizes DEF Byte
  <2> QED
    BY <2>1, Sizes DEF WireLength
<1>4. length + 3 <= BufferSize
  BY <1>2 DEF SliceFits, buffer, HeaderSize
<1>5. length \in 0 .. LengthLimit - 1
  BY <1>3, <1>4, Sizes
<1> HIDE DEF length
<1>6. \A i \in 1 .. length : buffer[HeaderSize + i] \in Byte
  BY <1>1, <1>3, <1>4, Sizes DEF HeaderSize
<1>7. text \in Seq(Byte) /\ Len(text) = length
  BY <1>3, <1>6
<1>8. type \in 0 .. 2
  BY DEF Command, Message, Unknown
<1> HIDE DEF text, type
<1>9. Deserialize(buffer) = [length |-> length, message_type |-> type, message |-> text]
  BY DEF Deserialize, length, text, type
<1>10. /\ Deserialize(buffer) \in BinaryMessages
       /\ Len(Deserialize(buffer).message) = Deserialize(buffer).length
  BY <1>5, <1>7, <1>8, <1>9 DEF BinaryMessages, Texts
<1> QED
  BY <1>10 DEF buffer

\* A piece of a text is a text.
LEMMA SliceTyped ==
  ASSUME NEW text \in Texts, NEW from \in Nat, NEW to \in Nat,
         1 <= from, to <= Len(text)
  PROVE  Slice(text, from, to) \in Texts
<1> DEFINE n == to - from + 1
<1>1. \A i \in 1 .. n : from + i - 1 \in 1 .. Len(text)
  OBVIOUS
<1>2. \A i \in 1 .. n : text[from + i - 1] \in Byte
  BY <1>1 DEF Texts
<1>3. n \in Int
  OBVIOUS
<1>4. CASE n < 0
  <2>1. 1 .. n = 1 .. 0
    BY <1>3, <1>4
  <2>2. Slice(text, from, to) = [i \in 1 .. 0 |-> text[from + i - 1]]
    BY <2>1 DEF Slice
  <2>3. [i \in 1 .. 0 |-> text[from + i - 1]] \in Seq(Byte)
    OBVIOUS
  <2> QED
    BY <2>2, <2>3 DEF Texts
<1>5. CASE n >= 0
  <2>1. n \in Nat
    BY <1>3, <1>5
  <2> QED
    BY <1>2, <2>1 DEF Slice, Texts
<1> QED
  BY <1>3, <1>4, <1>5

\* A command comes apart into texts, and a response is one (split, on_command).
LEMMA ResponseTyped ==
  ASSUME NEW m \in BinaryMessages, Len(m.message) = m.length
  PROVE  Response(m) \in Responses
<1> DEFINE text == m.message
<1>1. text \in Texts /\ m.message_type \in 0 .. 2 /\ m.length = Len(text)
      /\ Len(text) \in Nat /\ <<>> \in Texts
  BY DEF BinaryMessages, Texts
<1> HIDE DEF text
<1>2. Split(m).arguments \in Texts
  <2>1. CASE Spaces(text) = {}
    <3>1. Split(m).arguments = <<>>
      BY <2>1 DEF Split, text
    <3> QED
      BY <1>1, <3>1
  <2>2. CASE Spaces(text) # {}
    <3>1. Spaces(text) \in SUBSET Nat /\ Spaces(text) \subseteq 1 .. Len(text)
      BY <1>1 DEF Spaces, Texts
    <3>2. PICK first \in Spaces(text) : \A k \in Spaces(text) : first <= k
      BY <2>2, <3>1, LeastNat
    <3>3. FirstSpace(text) \in Spaces(text)
      BY <3>2 DEF FirstSpace
    <3> DEFINE space == FirstSpace(text)
    <3>4. space \in 1 .. Len(text)
      BY <3>1, <3>3
    <3> HIDE DEF space
    <3>5. Split(m).arguments = IF m.length > space
                               THEN Slice(text, space + 1, m.length) ELSE <<>>
      BY <2>2 DEF Split, text, space
    <3>6. Slice(text, space + 1, m.length) \in Texts
      BY <1>1, <3>4, SliceTyped
    <3> QED
      BY <1>1, <3>5, <3>6
  <2> QED
    BY <2>1, <2>2
<1> DEFINE arguments == Split(m).arguments
           isId == Split(m).command = IdWord
<1> HIDE DEF arguments, isId
<1>3. CASE m.message_type = 0
  BY <1>1, <1>3 DEF Response, Responses, Unknown, Command, Message
<1>4. CASE m.message_type = 2
  BY <1>1, <1>4 DEF Response, Responses, Unknown, Command, Message, text
<1>5. CASE m.message_type = 1 /\ isId
  BY <1>2, <1>5 DEF Response, Responses, Unknown, Command, Message, isId
<1>6. CASE m.message_type = 1 /\ ~isId
  BY <1>1, <1>6 DEF Response, Responses, Unknown, Command, Message, isId, text
<1> QED
  BY <1>1, <1>3, <1>4, <1>5, <1>6

-----------------------------------------------------------------------------
(* Reads of a stream.                                                      *)

\* What some writes have in them are bytes.
LEMMA FlattenTyped ==
  ASSUME NEW s \in Seq(Seq(Byte))
  PROVE  FlattenSeq(s) \in Seq(Byte)
<1>1. CASE s = <<>>
  BY <1>1 DEF FlattenSeq
<1>2. CASE s # <<>>
  BY <1>2, FlattenStarts DEF StartsWith
<1> QED
  BY <1>1, <1>2

\* A read that took this from the stream ended where a write ends: it got one
\* write or more, the first of them first.
WholeRead(s, r) ==
  /\ StartsWith(r.bytes, s[1])
  /\ \E n \in 1 .. Len(s) : r.rest = SubSeq(s, n + 1, Len(s))

\* A read that does not end inside a message takes the next one (read).
LEMMA ReadsTake ==
  ASSUME NEW s \in Seq(Seq(Byte)), NEW r \in Reads(s)
  PROVE  /\ r.bytes \in Seq(Byte)
         /\ r.rest \in Seq(Seq(Byte))
         /\ r.part \in Nat
         /\ s # <<>>
         /\ r.part = 0 => WholeRead(s, r)
<1> DEFINE W == Seq(Byte)
<1>1. PICK n \in 0 .. Len(s), p \in 0 .. BufferSize :
        r = Taken(s, n, p) /\ Len(r.bytes) \in 1 .. BufferSize
  BY DEF Reads
<1> DEFINE taken == SubSeq(s, 1, n)
           whole == FlattenSeq(taken)
           after == SubSeq(s, n + 1, Len(s))
           cuts == after # <<>> /\ p \in 1 .. Len(Head(after)) - 1
           start == SubSeq(Head(after), 1, p)
           left == SubSeq(Head(after), p + 1, Len(Head(after)))
<1>2. /\ taken \in Seq(W) /\ Len(taken) = n
      /\ \A i \in 1 .. n : taken[i] = s[i]
      /\ after \in Seq(W) /\ Len(after) = Len(s) - n
  <2>1. taken \in Seq(W) /\ Len(taken) = n /\ \A i \in 1 .. n : taken[i] = s[i]
    OBVIOUS
  <2>2. after \in Seq(W) /\ Len(after) = Len(s) - n
    OBVIOUS
  <2> QED
    BY <2>1, <2>2
<1>3. whole \in Seq(Byte)
  <2> HIDE DEF taken
  <2> QED
    BY <1>2, FlattenTyped
<1>4. r.bytes = IF cuts THEN whole \o start ELSE whole
  BY <1>1 DEF Taken
<1>5. r.rest = IF cuts THEN <<left>> \o Tail(after) ELSE after
  BY <1>1 DEF Taken
<1>6. r.part = IF cuts THEN p ELSE 0
  BY <1>1 DEF Taken
<1> HIDE DEF taken, whole, after
<1>7. CASE cuts
  <2>1. Head(after) \in Seq(Byte) /\ Tail(after) \in Seq(W)
    <3> HIDE DEF W
    <3>1. Head(after) \in W /\ Tail(after) \in Seq(W)
      BY <1>2, <1>7
    <3> QED
      BY <3>1 DEF W
  <2>2. start \in Seq(Byte) /\ left \in Seq(Byte)
    BY <2>1, <1>7
  <2>3. whole \o start \in Seq(Byte)
    <3> HIDE DEF start
    <3> QED
      BY <1>3, <2>2, ConcatProperties
  <2>4. <<left>> \o Tail(after) \in Seq(W)
    <3> DEFINE rest == Tail(after)
    <3> HIDE DEF rest, left
    <3>1. left \in W /\ rest \in Seq(W)
      BY <2>1, <2>2 DEF rest
    <3> HIDE DEF W
    <3>2. <<left>> \o rest \in Seq(W)
      BY <3>1
    <3> QED
      BY <3>2 DEF rest
  <2>5. s # <<>> /\ p \in Nat /\ p # 0
    <3> HIDE DEF W
    <3> QED
      BY <1>2, <1>7, Sizes
  <2> HIDE DEF cuts, start, left
  <2> QED
    BY <1>4, <1>5, <1>6, <1>7, <2>3, <2>4, <2>5
<1>8. CASE ~cuts
  <2>1. r.bytes = whole /\ r.rest = after /\ r.part = 0
    BY <1>4, <1>5, <1>6, <1>8
  <2>2. n # 0
    <3> SUFFICES ASSUME n = 0 PROVE FALSE
      OBVIOUS
    <3>1. Len(taken) = 0
      BY <1>2
    <3>2. taken = <<>>
      <4> HIDE DEF W
      <4> QED
        BY <1>2, <3>1
    <3>3. whole = <<>>
      BY <3>2 DEF whole, FlattenSeq
    <3>4. Len(whole) = 0
      BY <3>3
    <3> QED
      BY <1>1, <2>1, <3>4
  <2>3. n \in 1 .. Len(s) /\ taken # <<>> /\ taken[1] = s[1] /\ s # <<>>
    <3> HIDE DEF W
    <3> QED
      BY <1>2, <2>2
  <2>4. StartsWith(whole, taken[1])
    BY <1>2, <2>3, FlattenStarts DEF whole
  <2>5. r.rest = SubSeq(s, n + 1, Len(s))
    BY <2>1 DEF after
  <2>6. WholeRead(s, r)
    BY <2>1, <2>3, <2>4, <2>5 DEF WholeRead
  <2> QED
    BY <1>2, <1>3, <2>1, <2>3, <2>6
<1> QED
  BY <1>7, <1>8

\* One of our messages, as it was made.
Made(m) ==
  m.message \in Texts /\ m \in {NewMessage(m.message), NewCommand(m.message)}

\* A read that does not end inside a message gives the one that was written first,
\* if the messages of the stream are some that we made.
LEMMA WholeReadParsed ==
  ASSUME NEW s \in Seq(Seq(Byte)), NEW r \in Reads(s), r.part = 0,
         NEW m, Made(m), s[1] = Serialize(m)
  PROVE  SliceFits(Buffer(r.bytes)) /\ Deserialize(Buffer(r.bytes)) = m
<1> DEFINE text == m.message
<1>1. PICK type \in {Command, Message} : m = TypedMessage(type, text)
  BY DEF Made, NewMessage, NewCommand, TypedMessage
<1>2. text \in Seq(Byte)
  BY DEF Made, Texts
<1>3. StartsWith(r.bytes, Serialize(m)) /\ Len(r.bytes) <= BufferSize
      /\ Len(r.bytes) \in Nat
  <2>1. WholeRead(s, r) /\ Len(r.bytes) \in 1 .. BufferSize
    BY ReadsTake DEF Reads
  <2> QED
    BY <2>1, Sizes DEF WholeRead
<1>4. PICK rest \in Seq(Byte) : r.bytes = Serialize(m) \o rest
  BY <1>3 DEF StartsWith
<1>5. Len(Serialize(m)) = 3 + Len(text) /\ Serialize(m) \in Seq(Byte)
  <2> DEFINE header == <<m.length \div Base, m.length % Base, m.message_type>>
  <2>1. m \in BinaryMessages
    BY MadeTyped DEF Made
  <2>2. Serialize(m) \in Seq(Byte)
    BY <2>1, SerializeTyped
  <2>3. header \in Seq(Int) /\ Len(header) = 3 /\ text \in Seq(Int)
    <3>1. /\ m.length \in 0 .. LengthLimit - 1 /\ m.message_type \in 0 .. 2
      BY <2>1 DEF BinaryMessages
    <3> QED
      BY <1>2, <3>1, Sizes DEF Byte
  <2>4. Serialize(m) = header \o text
    BY DEF Serialize
  <2> HIDE DEF header
  <2>5. Len(header \o text) = Len(header) + Len(text)
    BY <2>3, Concatenation
  <2> QED
    BY <2>2, <2>3, <2>4, <2>5
<1>6. Len(r.bytes) = Len(Serialize(m)) + Len(rest) /\ Len(rest) \in Nat
  <2> DEFINE first == Serialize(m)
  <2>1. first \in Seq(Byte)
    BY <1>5
  <2> HIDE DEF first
  <2>2. Len(first \o rest) = Len(first) + Len(rest)
    BY <2>1
  <2> QED
    BY <1>4, <2>2 DEF first
<1>7. Len(text) \in Nat
  BY <1>2
<1>8. Len(text) + 3 <= BufferSize /\ Len(text) < LengthLimit
  BY <1>3, <1>5, <1>6, <1>7, Sizes
<1> HIDE DEF text
<1>9. /\ SliceFits(Buffer(Serialize(m) \o rest))
      /\ Deserialize(Buffer(Serialize(m) \o rest)) = m
  BY <1>1, <1>2, <1>8, FirstMessageParsed DEF HeaderSize
<1> QED
  BY <1>4, <1>9

-----------------------------------------------------------------------------
(* Type correctness.                                                       *)

\* What the first of some elements and the others are.
LEMMA HeadAndTail ==
  ASSUME NEW S, NEW s \in Seq(S), s # <<>>
  PROVE  Head(s) \in S /\ Tail(s) \in Seq(S)
OBVIOUS

\* What we make is a message.
LEMMA MadeIsMessage ==
  ASSUME NEW m, Made(m)
  PROVE  m \in BinaryMessages
BY MadeTyped DEF Made

\* The client would not take it for an id.
IdFree(m) == m.message_type = Command => Split(m).command # IdWord

\* All that the server's thread sends.
Sent == Replies \cup Notices \cup {NewMessage(text) : text \in {Greeting} \cup Refusals}

\* It made all of that, and has not put an ID into a command.
LEMMA SentMade ==
  ASSUME NEW m \in Sent
  PROVE  Made(m) /\ IdFree(m)
<1>1. CASE m \in Replies \cup Notices
  BY <1>1, SessionAssumption DEF Made, IdFree
<1>2. ASSUME NEW text \in {Greeting} \cup Refusals, m = NewMessage(text)
      PROVE  Made(m) /\ IdFree(m)
  <2>1. text \in Texts /\ m.message = text /\ m.message_type = Message
    BY <1>2, SessionAssumption DEF NewMessage
  <2> QED
    BY <1>2, <2>1 DEF Made, IdFree, Message, Command
<1> QED
  BY <1>1, <1>2 DEF Sent

\* A line becomes a message (send_to_server).
LEMMA ToServerMade ==
  ASSUME NEW line \in Texts, line # <<>>
  PROVE  Made(ToServer(line))
<1>1. line \in Texts /\ Tail(line) \in Texts
  BY HeadAndTail DEF Texts
<1>2. \A text \in Texts : Made(NewMessage(text)) /\ Made(NewCommand(text))
  BY DEF Made, NewMessage, NewCommand
<1> QED
  BY <1>1, <1>2 DEF ToServer

\* An end that closes leaves streams of bytes behind.
LEMMA ClosesTyped ==
  ASSUME StreamTypeOK, ClientCloses \/ ServerCloses
  PROVE  StreamTypeOK'
<1> DEFINE W == Seq(Byte)
<1>1. up \in Seq(W) /\ down \in Seq(W) /\ <<>> \in Seq(W)
      /\ closed \subseteq Ends /\ cut \subseteq Ends
  BY DEF StreamTypeOK
<1> HIDE DEF W
<1>2. up' \in Seq(W) /\ down' \in Seq(W) /\ closed' \subseteq Ends
      /\ cut' \subseteq Ends
  BY <1>1 DEF ClientCloses, ServerCloses, Closes, Ends
<1> QED
  BY <1>2 DEF StreamTypeOK, W

\* A read leaves a stream of bytes behind.
LEMMA CutTyped ==
  ASSUME StreamTypeOK, NEW reader \in Ends, NEW r, CutBy(reader, r)
  PROVE  cut' \subseteq Ends
BY DEF StreamTypeOK, CutBy

\* A message that is sent is bytes.
LEMMA SendTyped ==
  ASSUME TypeOK, NEW m \in BinaryMessages, NEW unread \in Seq(Seq(Byte)),
         SendResponse(m, unread)
  PROVE  /\ up' \in Seq(Seq(Byte)) /\ down' \in Seq(Seq(Byte))
         /\ written' \in Seq(BinaryMessages)
<1> DEFINE W == Seq(Byte)
<1>1. Serialize(m) \in W /\ down \in Seq(W) /\ unread \in Seq(W) /\ <<>> \in Seq(W)
  BY SerializeTyped DEF TypeOK, StreamTypeOK
<1> HIDE DEF W
<1>2. Append(down, Serialize(m)) \in Seq(W)
  BY <1>1, AppendProperties
<1>3. up' \in {unread, <<>>} /\ down' \in {down, Append(down, Serialize(m))}
  BY DEF SendResponse
<1>4. up' \in Seq(W) /\ down' \in Seq(W)
  BY <1>1, <1>2, <1>3
<1>5. written' \in Seq(BinaryMessages)
  BY DEF SendResponse, TypeOK
<1> QED
  BY <1>4, <1>5 DEF W

\* Initially all is empty.
LEMMA SessionTypesInit ==
  Init => TypeOK
<1> SUFFICES ASSUME Init PROVE TypeOK
  OBVIOUS
<1>1. StreamTypeOK
  BY DEF Init, StreamInit, StreamTypeOK, Ends
<1>2. ClientTypeOK
  BY ClientAssumption DEF Init, ClientInit, ClientTypeOK
<1> QED
  BY <1>1, <1>2, SessionAssumption DEF Init, TypeOK

\* A line without its last byte is a text, and empty only if there was no other.
LEMMA PoppedTyped ==
  ASSUME NEW line \in Texts
  PROVE  /\ Popped(line) \in Texts
         /\ Popped(line) # <<>> => /\ Len(line) \in Nat /\ Len(line) >= 2
                                   /\ Popped(line) = SubSeq(line, 1, Len(line) - 1)
<1>1. line \in Seq(Byte) /\ Popped(line) = SubSeq(line, 1, Len(line) - 1)
  BY DEF Texts, Popped, Front
<1>2. Popped(line) \in Seq(Byte) /\ Len(line) \in Nat
  BY <1>1
<1>3. Len(line) < 2 => Popped(line) = <<>>
  BY <1>1
<1> QED
  BY <1>1, <1>2, <1>3 DEF Texts

\* What is typed is a text, with its newline or without.
LEMMA LinesTyped ==
  ASSUME TypeLine
  PROVE  \E line \in Texts : Entered(line)
<1>1. PICK line \in Lines : Entered(Append(line, Newline)) \/ Entered(line)
  BY DEF TypeLine
<1>2. line \in Seq(Byte) /\ Newline \in Byte
  BY ClientAssumption DEF Texts
<1>3. Append(line, Newline) \in Seq(Byte)
  BY <1>2
<1> QED
  BY <1>1, <1>2, <1>3 DEF Texts

\* The input thread keeps the types.
LEMMA InputTypes ==
  ASSUME TypeOK, TypeLine \/ InputEnds, UNCHANGED serverVars
  PROVE  TypeOK'
<1>1. /\ input \in {"reading", "eof", "panicked"}
      /\ input_chan \in Seq(Texts) /\ typed \in Seq(Texts)
      /\ Len(typed) <= MaxLines
  BY DEF TypeOK, ClientTypeOK
<1>2. /\ input' \in {"reading", "eof", "panicked"}
      /\ input_chan' \in Seq(Texts) /\ typed' \in Seq(Texts)
      /\ Len(typed') <= MaxLines
  <2>1. CASE InputEnds
    BY <1>1, <2>1 DEF InputEnds
  <2>2. CASE TypeLine
    <3>1. PICK line \in Texts : Entered(line)
      BY <2>2, LinesTyped
    <3>2. input_chan' = Append(input_chan, Popped(line)) /\ typed' = Append(typed, line)
          /\ Popped(line) \in Texts
      BY <3>1, PoppedTyped DEF Entered
    <3>3. Len(typed) < MaxLines /\ input' \in {input, "eof"} /\ MaxLines \in Nat
      BY <2>2, ClientAssumption DEF TypeLine
    <3> QED
      BY <1>1, <3>2, <3>3
  <2> QED
    BY <2>1, <2>2
<1>3. UNCHANGED <<streamVars, mainVars, outgoing, stream, incoming, received>>
  BY DEF TypeLine, InputEnds
<1> QED
  BY <1>2, <1>3 DEF TypeOK, StreamTypeOK, ClientTypeOK, streamVars, mainVars,
     serverVars

\* The main loop takes responses with the types kept.
LEMMA IncomingTypes ==
  ASSUME TypeOK, TakeIncoming, UNCHANGED serverVars
  PROVE  TypeOK'
<1>1. /\ main = "incoming" /\ client_id \in Nat
      /\ incoming \in Seq(Responses) /\ shown \in Seq(Responses)
  BY DEF TypeOK, ClientTypeOK, TakeIncoming
<1>2. /\ StreamTypeOK' /\ main' \in {"incoming", "input", "panicked", "exited"}
      /\ client_id' \in Nat
      /\ incoming' \in Seq(Responses) /\ shown' \in Seq(Responses)
  <2>1. CASE Disconnected
    BY <1>1, <2>1, ClosesTyped DEF TakeIncoming, Exit, TypeOK
  <2>2. CASE ~Disconnected /\ incoming = <<>>
    BY <1>1, <2>2 DEF TakeIncoming, streamVars, TypeOK, StreamTypeOK
  <2>3. CASE ~Disconnected /\ incoming # <<>>
    <3>1. HandleReply(Head(incoming)) /\ incoming' = Tail(incoming)
      BY <2>3 DEF TakeIncoming
    <3> DEFINE response == Head(incoming)
    <3>2. response \in Responses /\ incoming' \in Seq(Responses)
      BY <1>1, <2>3, <3>1
    <3> HIDE DEF response
    <3>3. IdOf(response.data) \in Nat
      BY <3>2, IdIsNat DEF Responses
    <3>4. client_id' \in Nat
      BY <1>1, <3>1, <3>3 DEF HandleReply, response
    <3>5. \/ Exit("exited") /\ UNCHANGED shown
          \/ /\ main' = "input" /\ shown' = Append(shown, response)
             /\ UNCHANGED streamVars
      BY <3>1 DEF HandleReply, response
    <3>6. shown' \in Seq(Responses)
      BY <1>1, <3>2, <3>5
    <3>7. StreamTypeOK'
      BY <3>5, ClosesTyped DEF Exit, TypeOK, StreamTypeOK, streamVars
    <3> QED
      BY <3>2, <3>4, <3>5, <3>6, <3>7 DEF Exit
  <2> QED
    BY <2>1, <2>2, <2>3
<1>3. UNCHANGED <<inputVars, outgoing, stream, received>>
  BY DEF TakeIncoming
<1> QED
  BY <1>2, <1>3 DEF TypeOK, ClientTypeOK, inputVars, serverVars

\* The main loop takes lines with the types kept.
LEMMA LineTypes ==
  ASSUME TypeOK, TakeInput, UNCHANGED serverVars
  PROVE  TypeOK'
<1>1. /\ input_chan \in Seq(Texts) /\ outgoing \in Seq(BinaryMessages)
      /\ StreamTypeOK
  BY DEF TypeOK, ClientTypeOK
<1>2. \/ Exit("panicked")
      \/ main' = "incoming" /\ UNCHANGED streamVars
  BY DEF TakeInput
<1>3. StreamTypeOK' /\ main' \in {"incoming", "input", "panicked", "exited"}
  BY <1>1, <1>2, ClosesTyped DEF Exit, StreamTypeOK, streamVars
<1>4. input_chan' \in Seq(Texts) /\ outgoing' \in Seq(BinaryMessages)
  <2>1. CASE input_chan = <<>>
    BY <1>1, <2>1 DEF TakeInput
  <2>2. CASE input_chan # <<>>
    <3>1. Head(input_chan) \in Texts /\ input_chan' = Tail(input_chan)
      BY <1>1, <2>2, HeadAndTail DEF TakeInput
    <3>2. \/ UNCHANGED outgoing
          \/ /\ Head(input_chan) # <<>>
             /\ outgoing' = Append(outgoing, ToServer(Head(input_chan)))
      BY <2>2 DEF TakeInput
    <3>3. Head(input_chan) # <<>> => ToServer(Head(input_chan)) \in BinaryMessages
      BY <3>1, ToServerMade, MadeIsMessage
    <3> QED
      BY <1>1, <2>2, <3>1, <3>2, <3>3, HeadAndTail
  <2> QED
    BY <2>1, <2>2
<1>5. UNCHANGED <<input, typed, client_id, shown, stream, incoming, received>>
  BY DEF TakeInput
<1> QED
  BY <1>3, <1>4, <1>5 DEF TypeOK, ClientTypeOK, serverVars

\* The stream thread keeps the types.
LEMMA StreamTypes ==
  ASSUME TypeOK, StreamThread, UNCHANGED serverVars
  PROVE  TypeOK'
<1> DEFINE W == Seq(Byte)
<1>1. /\ StreamTypeOK /\ outgoing \in Seq(BinaryMessages)
      /\ stream \in {"write", "read", "panicked"}
      /\ incoming \in Seq(Responses) /\ received \in Seq(BinaryMessages)
      /\ up \in Seq(W) /\ down \in Seq(W) /\ <<>> \in Seq(W)
  BY DEF TypeOK, ClientTypeOK, StreamTypeOK
<1>2. /\ StreamTypeOK' /\ outgoing' \in Seq(BinaryMessages)
      /\ stream' \in {"write", "read", "panicked"}
      /\ incoming' \in Seq(Responses) /\ received' \in Seq(BinaryMessages)
  <2>1. CASE WriteStream
    <3>1. CASE outgoing = <<>>
      BY <1>1, <2>1, <3>1 DEF WriteStream, StreamTypeOK, streamVars
    <3>2. CASE outgoing # <<>>
      <4>1. Head(outgoing) \in BinaryMessages /\ outgoing' \in Seq(BinaryMessages)
        BY <1>1, <2>1, <3>2 DEF WriteStream
      <4>2. Serialize(Head(outgoing)) \in W
        BY <4>1, SerializeTyped
      <4>3. \/ stream' = "panicked" /\ ClientCloses
            \/ /\ stream' = "read" /\ UNCHANGED <<closed, cut>>
               /\ up' \in {up, Append(up, Serialize(Head(outgoing)))}
               /\ down' \in {down, <<>>}
        BY <2>1, <3>2 DEF WriteStream
      <4>4. StreamTypeOK'
        <5>1. CASE ClientCloses
          BY <1>1, <5>1, ClosesTyped
        <5>2. CASE /\ UNCHANGED <<closed, cut>>
                   /\ up' \in {up, Append(up, Serialize(Head(outgoing)))}
                   /\ down' \in {down, <<>>}
          <6> HIDE DEF W
          <6>1. Append(up, Serialize(Head(outgoing))) \in Seq(W)
            BY <1>1, <4>2, AppendProperties
          <6>2. up' \in Seq(W) /\ down' \in Seq(W)
            BY <1>1, <5>2, <6>1
          <6> QED
            BY <1>1, <5>2, <6>2 DEF StreamTypeOK, W
        <5> QED
          BY <4>3, <5>1, <5>2
      <4>5. UNCHANGED <<incoming, received>> /\ stream' \in {"panicked", "read"}
        BY <2>1, <4>3 DEF WriteStream
      <4> QED
        BY <1>1, <4>1, <4>4, <4>5
    <3> QED
      BY <3>1, <3>2
  <2>2. CASE ReadStream
    <3>1. PICK r \in Reads(down) :
            IF SliceFits(Buffer(r.bytes))
            THEN LET m == Deserialize(Buffer(r.bytes)) IN
                 /\ received' = Append(received, m)
                 /\ incoming' = Append(incoming, Response(m))
                 /\ stream' = "write"
                 /\ down' = r.rest
                 /\ CutBy("client", r)
                 /\ UNCHANGED <<up, closed>>
            ELSE /\ stream' = "panicked"
                 /\ ClientCloses
                 /\ UNCHANGED <<incoming, received>>
      BY <2>2 DEF ReadStream
    <3>2. outgoing' = outgoing
      BY <2>2 DEF ReadStream
    <3>3. CASE ~SliceFits(Buffer(r.bytes))
      BY <1>1, <3>1, <3>2, <3>3, ClosesTyped
    <3>4. CASE SliceFits(Buffer(r.bytes))
      <4> DEFINE m == Deserialize(Buffer(r.bytes))
      <4>1. r.bytes \in Seq(Byte) /\ r.rest \in Seq(Seq(Byte))
        BY <1>1, ReadsTake
      <4>2. m \in BinaryMessages /\ Response(m) \in Responses
        BY <3>4, <4>1, ParsedTyped, ResponseTyped
      <4>3. /\ received' = Append(received, m)
            /\ incoming' = Append(incoming, Response(m))
            /\ stream' = "write" /\ down' = r.rest
            /\ CutBy("client", r) /\ UNCHANGED <<up, closed>>
        BY <3>1, <3>4
      <4> HIDE DEF m
      <4>4. received' \in Seq(BinaryMessages) /\ incoming' \in Seq(Responses)
        BY <1>1, <4>2, <4>3
      <4>5. cut' \subseteq Ends
        BY <1>1, <4>3, CutTyped DEF Ends
      <4>6. StreamTypeOK'
        BY <1>1, <4>1, <4>3, <4>5 DEF StreamTypeOK
      <4> QED
        BY <1>1, <3>2, <4>3, <4>4, <4>6
    <3> QED
      BY <3>3, <3>4
  <2>3. CASE ReadNothing
    <3>1. \/ stream' = "write" /\ UNCHANGED streamVars
          \/ stream' = "panicked" /\ ClientCloses
      BY <2>3 DEF ReadNothing
    <3>2. StreamTypeOK'
      BY <1>1, <3>1, ClosesTyped DEF StreamTypeOK, streamVars
    <3> QED
      BY <1>1, <2>3, <3>1, <3>2 DEF ReadNothing
  <2> QED
    BY <2>1, <2>2, <2>3 DEF StreamThread
<1>3. UNCHANGED <<inputVars, mainVars>>
  BY DEF StreamThread, WriteStream, ReadStream, ReadNothing
<1> QED
  BY <1>2, <1>3 DEF TypeOK, ClientTypeOK, inputVars, mainVars, serverVars

\* What the server's thread does with its stream, beside reading it.
Writes(unread) == Silent(unread) \/ \E m \in Sent : SendResponse(m, unread)

\* One read, one request, and an answer to it or none.
RequestRead ==
  \E r \in Reads(up) : ServerReads(r) /\ Writes(r.rest) /\ UNCHANGED notices

\* The steps of the thread, by what they do with the stream.
LEMMA ThreadSteps ==
  ASSUME ServerThread
  PROVE  /\ UNCHANGED clientVars
         /\ \/ RequestRead
            \/ /\ Writes(up) /\ UNCHANGED <<closed, cut, requests>>
               /\ notices < MaxNotices /\ notices' = notices + 1
            \/ UNCHANGED <<streamVars, notices, written, requests>>
            \/ ServerCloses /\ UNCHANGED <<notices, written, requests>>
         /\ server' \in {server, "login", "recv", "read", "closing", "closed",
                         "blocked"}
<1>0. /\ LockLost = {"closing", "blocked"}
      /\ \A next : AfterResponse(next) \subseteq {next, "closing", "blocked"}
  BY DEF LockLost, AfterResponse
<1>1. CASE LoginRequest
  <2>1. PICK r \in Reads(up) :
          /\ ServerReads(r)
          /\ \/ server' \in {"closing", "blocked"} /\ Silent(r.rest)
             \/ LetIn(r.rest)
             \/ Refused(r.rest)
    BY <1>0, <1>1 DEF LoginRequest
  <2>2. Writes(r.rest)
    BY <2>1 DEF Writes, Sent, LetIn, Refused
  <2>3. server' \in {"recv", "closing", "blocked"}
    BY <1>0, <2>1 DEF LetIn, Refused
  <2> QED
    BY <1>1, <2>1, <2>2, <2>3 DEF LoginRequest, RequestRead
<1>2. CASE ServeRequest
  <2>1. PICK r \in Reads(up) :
          /\ ServerReads(r)
          /\ \/ /\ server' \in {"recv", "closing", "blocked"}
                /\ \E m \in Replies : SendResponse(m, r.rest)
             \/ server' \in {"closing", "blocked"} /\ Silent(r.rest)
    BY <1>0, <1>2 DEF ServeRequest
  <2>2. Writes(r.rest)
    BY <2>1 DEF Writes, Sent
  <2> QED
    BY <1>2, <2>1, <2>2 DEF ServeRequest, RequestRead
<1>3. CASE Notify
  BY <1>0, <1>3 DEF Notify, Writes, Sent
<1>4. CASE NoNotice
  BY <1>4 DEF NoNotice
<1>5. CASE ReadNoRequest
  BY <1>0, <1>5 DEF ReadNoRequest, AfterEmptyRead
<1>6. CASE Close
  BY <1>6 DEF Close
<1> QED
  BY <1>1, <1>2, <1>3, <1>4, <1>5, <1>6 DEF ServerThread

\* A request that is parsed has the type of one.
LEMMA RequestTyped ==
  ASSUME TypeOK, NEW r \in Reads(up), ServerReads(r)
  PROVE  /\ r.rest \in Seq(Seq(Byte))
         /\ requests' \in Seq(BinaryMessages)
         /\ closed' = closed /\ cut' \subseteq Ends
<1>1. /\ up \in Seq(Seq(Byte)) /\ StreamTypeOK
      /\ requests \in Seq(BinaryMessages)
  BY DEF TypeOK, StreamTypeOK
<1>2. r.bytes \in Seq(Byte) /\ r.rest \in Seq(Seq(Byte))
  BY <1>1, ReadsTake
<1>3. closed' = closed /\ cut' \subseteq Ends
  BY <1>1, CutTyped DEF ServerReads, Ends
<1> DEFINE m == Deserialize(Buffer(r.bytes))
<1>4. Parses(r) => m \in BinaryMessages
  BY <1>2, ParsedTyped DEF Parses
<1>5. requests' = IF Parses(r) THEN Append(requests, m) ELSE requests
  BY DEF ServerReads
<1> HIDE DEF m
<1>6. requests' \in Seq(BinaryMessages)
  BY <1>1, <1>4, <1>5
<1> QED
  BY <1>2, <1>3, <1>6

\* An answer, or none, has the type of one.
LEMMA WritesTyped ==
  ASSUME TypeOK, NEW unread \in Seq(Seq(Byte)), Writes(unread)
  PROVE  /\ up' \in Seq(Seq(Byte)) /\ down' \in Seq(Seq(Byte))
         /\ written' \in Seq(BinaryMessages)
<1>1. CASE Silent(unread)
  BY <1>1 DEF Silent, TypeOK, StreamTypeOK
<1>2. ASSUME NEW m \in Sent, SendResponse(m, unread)
      PROVE  /\ up' \in Seq(Seq(Byte)) /\ down' \in Seq(Seq(Byte))
             /\ written' \in Seq(BinaryMessages)
  BY <1>2, SentMade, MadeIsMessage, SendTyped
<1> QED
  BY <1>1, <1>2 DEF Writes

\* The server's thread keeps the types.
LEMMA ThreadTypes ==
  ASSUME TypeOK, ServerThread
  PROVE  TypeOK'
<1>1. /\ StreamTypeOK /\ up \in Seq(Seq(Byte))
      /\ server \in {"login", "recv", "read", "closing", "closed", "blocked"}
      /\ notices \in 0 .. MaxNotices /\ MaxNotices \in Nat
      /\ written \in Seq(BinaryMessages)
      /\ requests \in Seq(BinaryMessages)
  BY SessionAssumption DEF TypeOK, StreamTypeOK
<1>2. /\ StreamTypeOK' /\ notices' \in 0 .. MaxNotices
      /\ written' \in Seq(BinaryMessages)
      /\ requests' \in Seq(BinaryMessages)
  <2>1. CASE RequestRead
    <3>1. PICK r \in Reads(up) :
            ServerReads(r) /\ Writes(r.rest) /\ UNCHANGED notices
      BY <2>1 DEF RequestRead
    <3>2. /\ r.rest \in Seq(Seq(Byte)) /\ requests' \in Seq(BinaryMessages)
          /\ closed' = closed /\ cut' \subseteq Ends
      BY <3>1, RequestTyped
    <3>3. /\ up' \in Seq(Seq(Byte)) /\ down' \in Seq(Seq(Byte))
          /\ written' \in Seq(BinaryMessages)
      BY <3>1, <3>2, WritesTyped
    <3> QED
      BY <1>1, <3>1, <3>2, <3>3 DEF StreamTypeOK
  <2>2. CASE /\ Writes(up) /\ UNCHANGED <<closed, cut, requests>>
             /\ notices < MaxNotices /\ notices' = notices + 1
    <3>1. /\ up' \in Seq(Seq(Byte)) /\ down' \in Seq(Seq(Byte))
          /\ written' \in Seq(BinaryMessages)
      BY <1>1, <2>2, WritesTyped
    <3> QED
      BY <1>1, <2>2, <3>1 DEF StreamTypeOK
  <2>3. CASE UNCHANGED <<streamVars, notices, written, requests>>
    BY <1>1, <2>3 DEF StreamTypeOK, streamVars
  <2>4. CASE ServerCloses /\ UNCHANGED <<notices, written, requests>>
    BY <1>1, <2>4, ClosesTyped
  <2> QED
    BY <2>1, <2>2, <2>3, <2>4, ThreadSteps
<1>3. /\ server' \in {"login", "recv", "read", "closing", "closed", "blocked"}
      /\ UNCHANGED clientVars
  BY <1>1, ThreadSteps
<1> QED
  BY <1>2, <1>3 DEF TypeOK, ClientTypeOK, clientVars, inputVars, mainVars

\* Both ends of a session and the streams between them keep their types, whatever
\* is typed and however the reads cut what was written: what comes out of a buffer
\* is a message even when its header is the middle of a text, because a length that
\* goes beyond the buffer ends the thread (deserialize).
THEOREM SessionTypes == Spec => []TypeOK
<1>1. TypeOK /\ [Next]_vars => TypeOK'
  <2> SUFFICES ASSUME TypeOK, [Next]_vars PROVE TypeOK'
    OBVIOUS
  <2>1. CASE ServerThread
    BY <2>1, ThreadTypes
  <2>2. CASE ClientSide
    BY <2>2, InputTypes, IncomingTypes, LineTypes, StreamTypes DEF ClientSide
  <2>3. CASE UNCHANGED vars
    BY <2>3 DEF TypeOK, StreamTypeOK, ClientTypeOK, vars, streamVars, clientVars,
       inputVars, mainVars, serverVars
  <2> QED
    BY <2>1, <2>2, <2>3 DEF Next
<1> QED
  BY <1>1, SessionTypesInit, PTL DEF Spec

-----------------------------------------------------------------------------
(* Order.  What a reader parsed, what is still in the stream and what is   *)
(* still in a queue before it are, one after the other, a subsequence of   *)
(* what was sent: they stand at increasing positions of it.                *)

Positions(n, S) ==
  {at \in [1 .. n -> S] : \A i, j \in 1 .. n : i < j => at[i] < at[j]}

Pipe(parsed, sent, queued, source) ==
  \E at \in Positions(Len(parsed) + Len(sent) + Len(queued), DOMAIN source) :
    /\ \A i \in 1 .. Len(parsed) : parsed[i] = source[at[i]]
    /\ \A i \in 1 .. Len(sent) :
         sent[i] = Serialize(source[at[Len(parsed) + i]])
    /\ \A i \in 1 .. Len(queued) :
         queued[i] = source[at[Len(parsed) + Len(sent) + i]]

\* The positions at, of which there are n, without the d that follow the first a.
Without(left, at, n, a, d) ==
  /\ \A i \in 1 .. a : left[i] = at[i]
  /\ \A i \in a + 1 .. n - d : left[i] = at[i + d]

\* They still increase.
LEMMA PositionsLeft ==
  ASSUME NEW S \in SUBSET Nat, NEW n \in Nat, NEW a \in Nat, NEW d \in Nat, a + d <= n,
         NEW at \in Positions(n, S)
  PROVE  \E left \in Positions(n - d, S) : Without(left, at, n, a, d)
<1> DEFINE left == [i \in 1 .. n - d |-> IF i <= a THEN at[i] ELSE at[i + d]]
<1>1. /\ at \in [1 .. n -> S]
      /\ \A i, j \in 1 .. n : i < j => at[i] < at[j]
  BY DEF Positions
<1>2. \A i \in 1 .. n - d : i \in 1 .. n /\ i + d \in 1 .. n
  OBVIOUS
<1>3. left \in [1 .. n - d -> S]
  BY <1>1, <1>2
<1>4. ASSUME NEW i \in 1 .. n - d, NEW j \in 1 .. n - d, i < j
      PROVE  left[i] < left[j]
  <2>1. i \in 1 .. n /\ j \in 1 .. n /\ i + d \in 1 .. n /\ j + d \in 1 .. n
        /\ i < j + d /\ i + d < j + d
    BY <1>2, <1>4
  <2>2. at[i] < at[j] /\ at[i] < at[j + d] /\ at[i + d] < at[j + d]
    BY <1>1, <1>4, <2>1
  <2>3. j <= a => i <= a
    BY <1>4
  <2> QED
    BY <2>2, <2>3
<1>5. left \in Positions(n - d, S)
  BY <1>3, <1>4 DEF Positions
<1>6. \A i \in 1 .. a : i \in 1 .. n - d
  OBVIOUS
<1>7. /\ \A i \in 1 .. a : left[i] = at[i]
      /\ \A i \in a + 1 .. n - d : left[i] = at[i + d]
  BY <1>6
<1> HIDE DEF left
<1> QED
  BY <1>5, <1>7 DEF Without

\* A further position behind the others.
LEMMA PositionAdded ==
  ASSUME NEW S \in SUBSET Nat, NEW S2 \in SUBSET Nat, S \subseteq S2,
         NEW n \in Nat, NEW at \in Positions(n, S),
         NEW k \in S2, \A i \in S : i < k
  PROVE  \E more \in Positions(n + 1, S2) :
           /\ \A i \in 1 .. n : more[i] = at[i]
           /\ more[n + 1] = k
<1> DEFINE more == [i \in 1 .. n + 1 |-> IF i <= n THEN at[i] ELSE k]
<1>1. /\ at \in [1 .. n -> S]
      /\ \A i, j \in 1 .. n : i < j => at[i] < at[j]
  BY DEF Positions
<1>2. more \in [1 .. n + 1 -> S2]
  <2>1. \A i \in 1 .. n + 1 : i <= n => i \in 1 .. n
    OBVIOUS
  <2>2. \A i \in 1 .. n : at[i] \in S2
    BY <1>1
  <2> QED
    BY <2>1, <2>2
<1>3. ASSUME NEW i \in 1 .. n + 1, NEW j \in 1 .. n + 1, i < j
      PROVE  more[i] < more[j]
  <2>0. i \in 1 .. n
    BY <1>3
  <2>1. at[i] < k /\ more[i] = at[i]
    <3>1. at[i] \in S
      BY <1>1, <2>0
    <3>2. more[i] = at[i]
      BY <2>0
    <3> QED
      BY <3>1, <3>2
  <2>2. CASE j \in 1 .. n
    BY <1>1, <1>3, <2>0, <2>1, <2>2
  <2>3. CASE j \notin 1 .. n
    BY <2>0, <2>1, <2>3
  <2> QED
    BY <2>2, <2>3
<1>4. more \in Positions(n + 1, S2)
  BY <1>2, <1>3 DEF Positions
<1>5. \A i \in 1 .. n : more[i] = at[i]
  OBVIOUS
<1>6. more[n + 1] = k
  OBVIOUS
<1> QED
  BY <1>4, <1>5, <1>6

\* What was sent grows, and what is queued with it or without it.
LEMMA PipeIn ==
  ASSUME NEW parsed \in Seq(BinaryMessages), NEW sent \in Seq(Seq(Byte)),
         NEW queued \in Seq(BinaryMessages),
         NEW source, NEW more, DOMAIN source \subseteq DOMAIN more,
         DOMAIN more \subseteq Nat,
         \A i \in DOMAIN source : more[i] = source[i],
         Pipe(parsed, sent, queued, source)
  PROVE  /\ Pipe(parsed, sent, queued, more)
         /\ \A k \in DOMAIN more :
              (\A i \in DOMAIN source : i < k) =>
                Pipe(parsed, sent, Append(queued, more[k]), more)
<1> DEFINE lp == Len(parsed)
           ls == Len(sent)
           lq == Len(queued)
           n == lp + ls + lq
           S == DOMAIN source
           S2 == DOMAIN more
<1>1. lp \in Nat /\ ls \in Nat /\ lq \in Nat /\ n \in Nat
  OBVIOUS
<1>2. PICK at \in Positions(n, S) :
        /\ \A i \in 1 .. lp : parsed[i] = source[at[i]]
        /\ \A i \in 1 .. ls : sent[i] = Serialize(source[at[lp + i]])
        /\ \A i \in 1 .. lq : queued[i] = source[at[lp + ls + i]]
  BY DEF Pipe
<1>3. at \in [1 .. n -> S] /\ \A i, j \in 1 .. n : i < j => at[i] < at[j]
  BY <1>2 DEF Positions
<1> HIDE DEF lp, ls, lq
<1>4. /\ \A i \in 1 .. lp : i \in 1 .. n
      /\ \A i \in 1 .. ls : lp + i \in 1 .. n
      /\ \A i \in 1 .. lq : lp + ls + i \in 1 .. n
  BY <1>1
<1>5. at \in Positions(n, S2)
  BY <1>3 DEF Positions
<1>6. /\ \A i \in 1 .. lp : parsed[i] = more[at[i]]
      /\ \A i \in 1 .. ls : sent[i] = Serialize(more[at[lp + i]])
      /\ \A i \in 1 .. lq : queued[i] = more[at[lp + ls + i]]
  BY <1>2, <1>3, <1>4
<1>7. Pipe(parsed, sent, queued, more)
  BY <1>5, <1>6 DEF Pipe, lp, ls, lq
<1>8. ASSUME NEW k \in S2, \A i \in S : i < k
      PROVE  Pipe(parsed, sent, Append(queued, more[k]), more)
  <2> DEFINE q == Append(queued, more[k])
  <2>1. /\ Len(q) = lq + 1
        /\ \A i \in 1 .. lq : q[i] = queued[i]
        /\ q[lq + 1] = more[k]
    BY DEF lq
  <2> HIDE DEF q
  <2>2. S \in SUBSET Nat /\ S2 \in SUBSET Nat /\ S \subseteq S2
    OBVIOUS
  <2> HIDE DEF n, S, S2
  <2>3. PICK at2 \in Positions(n + 1, S2) :
          (\A i \in 1 .. n : at2[i] = at[i]) /\ at2[n + 1] = k
    <3>1. n \in Nat /\ at \in Positions(n, S) /\ \A i \in S : i < k
      BY <1>1, <1>2, <1>8
    <3> QED
      BY <2>2, <3>1, PositionAdded
  <2>4. Len(parsed) + Len(sent) + Len(q) = n + 1
    <3>1. lp + ls + Len(q) = n + 1
      BY <1>1, <2>1 DEF n
    <3> QED
      BY <3>1 DEF lp, ls
  <2>5. \A i \in 1 .. lp : parsed[i] = more[at2[i]]
    BY <1>4, <1>6, <2>3
  <2>6. \A i \in 1 .. ls : sent[i] = Serialize(more[at2[lp + i]])
    BY <1>4, <1>6, <2>3
  <2>7. ASSUME NEW i \in 1 .. Len(q) PROVE q[i] = more[at2[lp + ls + i]]
    <3>1. CASE i \in 1 .. lq
      BY <1>4, <1>6, <2>1, <2>3, <3>1
    <3>2. CASE i \notin 1 .. lq
      <4>1. i = lq + 1 /\ lp + ls + i = n + 1
        BY <1>1, <2>1, <3>2 DEF n
      <4> QED
        BY <2>1, <2>3, <4>1
    <3> QED
      BY <3>1, <3>2
  <2>8. Pipe(parsed, sent, q, more)
    BY <2>3, <2>4, <2>5, <2>6, <2>7 DEF Pipe, S2, lp, ls
  <2> QED
    BY <2>8 DEF q
<1> QED
  BY <1>7, <1>8

\* What is first in the queue is written into the stream, or dropped.
LEMMA PipeOut ==
  ASSUME NEW parsed \in Seq(BinaryMessages), NEW sent \in Seq(Seq(Byte)),
         NEW queued \in Seq(BinaryMessages), queued # <<>>,
         NEW source, DOMAIN source \subseteq Nat,
         Pipe(parsed, sent, queued, source)
  PROVE  /\ Pipe(parsed, Append(sent, Serialize(Head(queued))), Tail(queued), source)
         /\ Pipe(parsed, sent, Tail(queued), source)
<1> DEFINE lp == Len(parsed)
           ls == Len(sent)
           lq == Len(queued)
           n == lp + ls + lq
           S == DOMAIN source
           q == Tail(queued)
           s == Append(sent, Serialize(Head(queued)))
<1>1. lp \in Nat /\ ls \in Nat /\ lq \in Nat /\ n \in Nat /\ lq >= 1
  OBVIOUS
<1>2. PICK at \in Positions(n, S) :
        /\ \A i \in 1 .. lp : parsed[i] = source[at[i]]
        /\ \A i \in 1 .. ls : sent[i] = Serialize(source[at[lp + i]])
        /\ \A i \in 1 .. lq : queued[i] = source[at[lp + ls + i]]
  BY DEF Pipe
<1>3. /\ Len(q) = lq - 1 /\ \A i \in 1 .. lq - 1 : q[i] = queued[i + 1]
      /\ Head(queued) = queued[1]
  OBVIOUS
<1>4. /\ Len(s) = ls + 1 /\ \A i \in 1 .. ls : s[i] = sent[i]
      /\ s[ls + 1] = Serialize(Head(queued))
  <2> DEFINE e == Serialize(Head(queued))
             T == Seq(Byte)
  <2> HIDE DEF e, T
  <2>1. sent \in Seq(T)
    BY DEF T
  <2>2. /\ Len(Append(sent, e)) = ls + 1
        /\ \A i \in 1 .. ls : Append(sent, e)[i] = sent[i]
        /\ Append(sent, e)[ls + 1] = e
    BY <2>1
  <2> QED
    BY <2>2 DEF e
<1> HIDE DEF q, s, lp, ls, lq
<1>5. ASSUME NEW i \in 1 .. lq - 1 PROVE q[i] = source[at[lp + ls + 1 + i]]
  <2>1. i + 1 \in 1 .. lq /\ lp + ls + (i + 1) = lp + ls + 1 + i
    BY <1>1
  <2> QED
    BY <1>2, <1>3, <2>1
<1>6. Pipe(parsed, s, q, source)
  <2>1. lp + Len(s) + Len(q) = n
    BY <1>1, <1>3, <1>4
  <2>2. ASSUME NEW i \in 1 .. Len(s) PROVE s[i] = Serialize(source[at[lp + i]])
    <3>1. CASE i \in 1 .. ls
      BY <1>2, <1>4, <3>1
    <3>2. CASE i \notin 1 .. ls
      <4>1. i = ls + 1 /\ 1 \in 1 .. lq /\ lp + i = lp + ls + 1
        BY <1>1, <1>4, <3>2
      <4> QED
        BY <1>2, <1>3, <1>4, <4>1
    <3> QED
      BY <3>1, <3>2
  <2>3. \A i \in 1 .. Len(q) : q[i] = source[at[lp + Len(s) + i]]
    <3>1. lp + Len(s) = lp + ls + 1
      BY <1>1, <1>4
    <3> QED
      BY <1>3, <1>5, <3>1
  <2> QED
    BY <1>2, <2>1, <2>2, <2>3 DEF Pipe, lp
<1>7. Pipe(parsed, sent, q, source)
  <2>1. lp + ls \in Nat /\ 1 \in Nat /\ lp + ls + 1 <= n /\ S \in SUBSET Nat
    BY <1>1
  <2> DEFINE a == lp + ls
  <2>0. a \in Nat /\ a + 1 <= n
    BY <2>1
  <2> HIDE DEF S, n, a
  <2>2. PICK left \in Positions(n - 1, S) :
          /\ \A i \in 1 .. a : left[i] = at[i]
          /\ \A i \in a + 1 .. n - 1 : left[i] = at[i + 1]
    <3>1. \E left \in Positions(n - 1, S) : Without(left, at, n, a, 1)
      BY <1>1, <1>2, <2>0, <2>1, PositionsLeft
    <3> QED
      BY <3>1 DEF Without
  <2>3. Len(parsed) + Len(sent) + Len(q) = n - 1
    BY <1>1, <1>3 DEF n, lp, ls
  <2>4. \A i \in 1 .. lp : parsed[i] = source[left[i]]
    <3>1. \A i \in 1 .. lp : i \in 1 .. a
      BY <1>1 DEF a
    <3> QED
      BY <1>2, <2>2, <3>1
  <2>5. \A i \in 1 .. ls : sent[i] = Serialize(source[left[lp + i]])
    <3>1. \A i \in 1 .. ls : lp + i \in 1 .. a
      BY <1>1 DEF a
    <3> QED
      BY <1>2, <2>2, <3>1
  <2>6. ASSUME NEW i \in 1 .. Len(q) PROVE q[i] = source[left[a + i]]
    <3>1. i \in 1 .. lq - 1 /\ a + i \in a + 1 .. n - 1
          /\ (a + i) + 1 = lp + ls + 1 + i
      BY <1>1, <1>3 DEF a, n
    <3> QED
      BY <1>5, <2>2, <3>1
  <2> QED
    BY <2>2, <2>3, <2>4, <2>5, <2>6 DEF Pipe, S, a, lp, ls
<1> QED
  BY <1>6, <1>7 DEF q, s

\* Writes are taken out of the stream, or lost from its front.
LEMMA PipeSkip ==
  ASSUME NEW parsed \in Seq(BinaryMessages), NEW sent \in Seq(Seq(Byte)),
         NEW queued \in Seq(BinaryMessages),
         NEW source, DOMAIN source \subseteq Nat,
         Pipe(parsed, sent, queued, source),
         NEW c \in 0 .. Len(sent)
  PROVE  /\ Pipe(parsed, SubSeq(sent, c + 1, Len(sent)), queued, source)
         /\ \A m : c # 0
                   /\ (\A k \in DOMAIN source : sent[1] = Serialize(source[k])
                                                  => m = source[k])
              => Pipe(Append(parsed, m), SubSeq(sent, c + 1, Len(sent)), queued, source)
<1> DEFINE lp == Len(parsed)
           ls == Len(sent)
           lq == Len(queued)
           n == lp + ls + lq
           S == DOMAIN source
           s == SubSeq(sent, c + 1, ls)
<1>1. lp \in Nat /\ ls \in Nat /\ lq \in Nat /\ n \in Nat /\ c \in Nat /\ c <= ls
      /\ S \in SUBSET Nat
  OBVIOUS
<1>2. PICK at \in Positions(n, S) :
        /\ \A i \in 1 .. lp : parsed[i] = source[at[i]]
        /\ \A i \in 1 .. ls : sent[i] = Serialize(source[at[lp + i]])
        /\ \A i \in 1 .. lq : queued[i] = source[at[lp + ls + i]]
  BY DEF Pipe
<1>3. Len(s) = ls - c /\ \A i \in 1 .. ls - c : s[i] = sent[c + i]
  <2> DEFINE T == Seq(Byte)
  <2>1. sent \in Seq(T)
    OBVIOUS
  <2> HIDE DEF T
  <2> QED
    BY <2>1
<1> HIDE DEF s, lp, ls, lq, S, n
<1>4. Pipe(parsed, s, queued, source)
  <2>1. PICK left \in Positions(n - c, S) :
          /\ \A i \in 1 .. lp : left[i] = at[i]
          /\ \A i \in lp + 1 .. n - c : left[i] = at[i + c]
    <3>1. lp + c <= n
      BY <1>1 DEF n
    <3>2. \E left \in Positions(n - c, S) : Without(left, at, n, lp, c)
      BY <1>1, <1>2, <3>1, PositionsLeft
    <3> QED
      BY <3>2 DEF Without
  <2>2. lp + Len(s) + lq = n - c
    BY <1>1, <1>3 DEF n
  <2>3. \A i \in 1 .. lp : parsed[i] = source[left[i]]
    BY <1>2, <2>1
  <2>4. ASSUME NEW i \in 1 .. Len(s) PROVE s[i] = Serialize(source[left[lp + i]])
    <3>1. lp + i \in lp + 1 .. n - c /\ (lp + i) + c = lp + (c + i) /\ c + i \in 1 .. ls
          /\ i \in 1 .. ls - c
      BY <1>1, <1>3 DEF n
    <3>2. left[lp + i] = at[lp + (c + i)]
      BY <2>1, <3>1
    <3>3. s[i] = Serialize(source[at[lp + (c + i)]])
      BY <1>2, <1>3, <3>1
    <3> QED
      BY <3>2, <3>3
  <2>5. ASSUME NEW i \in 1 .. lq PROVE queued[i] = source[left[lp + Len(s) + i]]
    <3>1. lp + Len(s) + i \in lp + 1 .. n - c /\ (lp + Len(s) + i) + c = lp + ls + i
      BY <1>1, <1>3 DEF n
    <3> QED
      BY <1>2, <2>1, <3>1
  <2> QED
    BY <2>1, <2>2, <2>3, <2>4, <2>5 DEF Pipe, S, lp, lq
<1>5. ASSUME NEW m, c # 0,
             \A k \in S : sent[1] = Serialize(source[k]) => m = source[k]
      PROVE  Pipe(Append(parsed, m), s, queued, source)
  <2> DEFINE d == c - 1
             a == lp + 1
             p == Append(parsed, m)
  <2>0. d \in Nat /\ a \in Nat /\ a + d <= n /\ 1 \in 1 .. ls /\ a \in 1 .. n
    BY <1>1, <1>5 DEF n
  <2>1. Len(p) = a /\ p[a] = m /\ \A i \in 1 .. lp : p[i] = parsed[i]
    BY DEF lp
  <2>2. m = source[at[a]]
    <3>1. at[a] \in S
      BY <1>2, <2>0 DEF Positions
    <3>2. sent[1] = Serialize(source[at[a]])
      BY <1>2, <2>0
    <3> QED
      BY <1>5, <3>1, <3>2
  <2> HIDE DEF p
  <2>3. PICK left \in Positions(n - d, S) :
          /\ \A i \in 1 .. a : left[i] = at[i]
          /\ \A i \in a + 1 .. n - d : left[i] = at[i + d]
    <3> HIDE DEF a, d
    <3>1. \E left \in Positions(n - d, S) : Without(left, at, n, a, d)
      BY <1>1, <1>2, <2>0, PositionsLeft
    <3> QED
      BY <3>1 DEF Without
  <2>4. Len(p) + Len(s) + lq = n - d
    <3>1. Len(p) = lp + 1 /\ Len(s) = ls - c /\ d = c - 1
      BY <1>3, <2>1
    <3> QED
      BY <1>1, <3>1 DEF n
  <2>5. ASSUME NEW i \in 1 .. Len(p) PROVE p[i] = source[left[i]]
    <3>1. CASE i = a
      BY <2>0, <2>1, <2>2, <2>3, <3>1
    <3>2. CASE i # a
      <4>1. i \in 1 .. lp /\ i \in 1 .. a
        BY <1>1, <2>1, <3>2
      <4> QED
        BY <1>2, <2>1, <2>3, <4>1
    <3> QED
      BY <3>1, <3>2
  <2>6. ASSUME NEW i \in 1 .. Len(s)
        PROVE  s[i] = Serialize(source[left[Len(p) + i]])
    <3>1. i \in 1 .. ls - c /\ c + i \in 1 .. ls
      BY <1>1, <1>3
    <3>2. Len(p) + i \in a + 1 .. n - d
      <4>1. Len(p) = a
        BY <2>1
      <4> QED
        BY <1>1, <3>1, <4>1 DEF n
    <3>3. (Len(p) + i) + d = lp + (c + i)
      <4>1. Len(p) = lp + 1
        BY <2>1
      <4> QED
        BY <1>1, <3>1, <4>1
    <3>4. left[Len(p) + i] = at[lp + (c + i)]
      BY <2>3, <3>2, <3>3
    <3>5. s[i] = Serialize(source[at[lp + (c + i)]])
      BY <1>2, <1>3, <3>1
    <3> QED
      BY <3>4, <3>5
  <2>7. ASSUME NEW i \in 1 .. lq
        PROVE  queued[i] = source[left[Len(p) + Len(s) + i]]
    <3>1. /\ Len(p) + Len(s) + i \in a + 1 .. n - d
          /\ (Len(p) + Len(s) + i) + d = lp + ls + i
      BY <1>1, <1>3, <2>1, <1>5 DEF n
    <3> QED
      BY <1>2, <2>3, <3>1
  <2>8. Pipe(p, s, queued, source)
    BY <2>3, <2>4, <2>5, <2>6, <2>7 DEF Pipe, S, lq
  <2> QED
    BY <2>8 DEF p
<1> QED
  BY <1>4, <1>5 DEF s, ls, S

\* What is still in the stream is lost.
LEMMA PipeLost ==
  ASSUME NEW parsed \in Seq(BinaryMessages), NEW sent \in Seq(Seq(Byte)),
         NEW queued \in Seq(BinaryMessages),
         NEW source, DOMAIN source \subseteq Nat,
         Pipe(parsed, sent, queued, source)
  PROVE  Pipe(parsed, <<>>, queued, source)
<1> DEFINE ls == Len(sent)
<1>1. ls \in 0 .. ls /\ SubSeq(sent, ls + 1, ls) = <<>>
  OBVIOUS
<1> HIDE DEF ls
<1>2. Pipe(parsed, SubSeq(sent, ls + 1, ls), queued, source)
  BY <1>1, PipeSkip DEF ls
<1> QED
  BY <1>1, <1>2

\* What a read takes out of the stream is parsed as what was written first.
LEMMA PipeRead ==
  ASSUME NEW parsed \in Seq(BinaryMessages), NEW sent \in Seq(Seq(Byte)),
         NEW queued \in Seq(BinaryMessages),
         NEW source, DOMAIN source \subseteq Nat,
         \A k \in DOMAIN source : Made(source[k]),
         Pipe(parsed, sent, queued, source),
         NEW r \in Reads(sent), r.part = 0
  PROVE  /\ Pipe(parsed, r.rest, queued, source)
         /\ Pipe(Append(parsed, Deserialize(Buffer(r.bytes))), r.rest, queued, source)
<1> DEFINE m == Deserialize(Buffer(r.bytes))
<1>1. PICK c \in 1 .. Len(sent) : r.rest = SubSeq(sent, c + 1, Len(sent))
  BY ReadsTake DEF WholeRead
<1>2. ASSUME NEW k \in DOMAIN source, sent[1] = Serialize(source[k])
      PROVE  m = source[k]
  <2> DEFINE src == source[k]
  <2>1. Made(src) /\ sent[1] = Serialize(src)
    BY <1>2
  <2> HIDE DEF src
  <2>2. m = src
    BY <2>1, WholeReadParsed
  <2> QED
    BY <2>2 DEF src
<1>3. c \in 0 .. Len(sent) /\ c # 0
  BY <1>1
<1> HIDE DEF m
<1>4. Pipe(parsed, SubSeq(sent, c + 1, Len(sent)), queued, source)
  BY <1>3, PipeSkip
<1>5. Pipe(Append(parsed, m), SubSeq(sent, c + 1, Len(sent)), queued, source)
  BY <1>2, <1>3, PipeSkip
<1> QED
  BY <1>1, <1>4, <1>5 DEF m

\* What stands at increasing positions is within the rest.
LEMMA PipeWithin ==
  ASSUME NEW parsed \in Seq(BinaryMessages), NEW sent \in Seq(Seq(Byte)),
         NEW queued \in Seq(BinaryMessages),
         NEW source, Pipe(parsed, sent, queued, source)
  PROVE  Within(parsed, source)
<1> DEFINE n == Len(parsed) + Len(sent) + Len(queued)
<1>1. PICK at \in Positions(n, DOMAIN source) :
        \A i \in 1 .. Len(parsed) : parsed[i] = source[at[i]]
  BY DEF Pipe
<1>2. DOMAIN parsed = 1 .. Len(parsed) /\ \A i \in 1 .. Len(parsed) : i \in 1 .. n
  OBVIOUS
<1> DEFINE first == [i \in DOMAIN parsed |-> at[i]]
<1>3. /\ first \in [DOMAIN parsed -> DOMAIN source]
      /\ \A i \in DOMAIN parsed : parsed[i] = source[first[i]]
      /\ \A i, j \in DOMAIN parsed : i < j => first[i] < first[j]
  <2> HIDE DEF n
  <2> QED
    BY <1>1, <1>2 DEF Positions
<1> QED
  BY <1>3 DEF Within

-----------------------------------------------------------------------------
(* The replies.                                                            *)

\* Some elements of a stream may be lost, all at once.
Lost == down' \in {down, <<>>} /\ UNCHANGED <<written, received>>

\* A message is written, and reaches the stream or not.
ReplySent ==
  /\ \E m \in Sent : /\ written' = Append(written, m)
                     /\ down' \in {down, Append(down, Serialize(m))}
  /\ UNCHANGED received

\* One is read.
ReplyRead ==
  /\ \E r \in Reads(down) :
       /\ SliceFits(Buffer(r.bytes))
       /\ received' = Append(received, Deserialize(Buffer(r.bytes)))
       /\ incoming' = Append(incoming, Response(Deserialize(Buffer(r.bytes))))
       /\ down' = r.rest
       /\ CutBy("client", r)
  /\ UNCHANGED <<written, mainVars>>

\* What a step does to the replies.
LEMMA ReplySteps ==
  ASSUME [Next]_vars
  PROVE  /\ cut \subseteq cut'
         /\ Lost \/ ReplySent \/ ReplyRead
<1>1. CASE ServerThread
  <2>1. received' = received
    BY <1>1, ThreadSteps DEF clientVars
  <2>2. \A unread : Writes(unread) => Lost \/ ReplySent
    BY <2>1 DEF Writes, Silent, SendResponse, Lost, ReplySent
  <2>3. CASE RequestRead
    BY <2>2, <2>3 DEF RequestRead, ServerReads, CutBy
  <2>4. CASE Writes(up) /\ UNCHANGED <<closed, cut, requests>>
    BY <2>2, <2>4
  <2>5. CASE UNCHANGED <<streamVars, notices, written, requests>>
    BY <2>1, <2>5 DEF Lost, streamVars
  <2>6. CASE ServerCloses /\ UNCHANGED <<notices, written, requests>>
    BY <2>1, <2>6 DEF Lost, ServerCloses, Closes
  <2> QED
    BY <1>1, <2>3, <2>4, <2>5, <2>6, ThreadSteps
<1>2. CASE ClientSide
  <2>0. written' = written
    BY <1>2 DEF ClientSide, serverVars
  <2>1. CASE TypeLine \/ InputEnds
    BY <2>0, <2>1 DEF TypeLine, InputEnds, streamVars, Lost
  <2>2. CASE TakeIncoming
    BY <2>0, <2>2 DEF TakeIncoming, HandleReply, Exit, ClientCloses, Closes,
       streamVars, Lost
  <2>3. CASE TakeInput
    BY <2>0, <2>3 DEF TakeInput, Exit, ClientCloses, Closes, streamVars, Lost
  <2>4. CASE WriteStream
    BY <2>0, <2>4 DEF WriteStream, ClientCloses, Closes, streamVars, Lost
  <2>5. CASE ReadNothing
    BY <2>0, <2>5 DEF ReadNothing, ClientCloses, Closes, streamVars, Lost
  <2>6. CASE ReadStream
    <3>1. PICK r \in Reads(down) :
            IF SliceFits(Buffer(r.bytes))
            THEN LET m == Deserialize(Buffer(r.bytes)) IN
                 /\ received' = Append(received, m)
                 /\ incoming' = Append(incoming, Response(m))
                 /\ stream' = "write"
                 /\ down' = r.rest
                 /\ CutBy("client", r)
                 /\ UNCHANGED <<up, closed>>
            ELSE /\ stream' = "panicked"
                 /\ ClientCloses
                 /\ UNCHANGED <<incoming, received>>
      BY <2>6 DEF ReadStream
    <3>2. CASE SliceFits(Buffer(r.bytes))
      <4>1. ReplyRead
        BY <2>0, <2>6, <3>1, <3>2 DEF ReadStream, ReplyRead
      <4> QED
        BY <3>1, <3>2, <4>1 DEF CutBy
    <3>3. CASE ~SliceFits(Buffer(r.bytes))
      BY <2>0, <3>1, <3>3 DEF ClientCloses, Closes, Lost
    <3> QED
      BY <3>2, <3>3
  <2> QED
    BY <1>2, <2>1, <2>2, <2>3, <2>4, <2>5, <2>6 DEF ClientSide, StreamThread
<1>3. CASE UNCHANGED vars
  BY <1>3 DEF vars, streamVars, clientVars, serverVars, Lost
<1> QED
  BY <1>1, <1>2, <1>3 DEF Next

\* The server's messages are some that it made, and none is an ID.
WrittenMade == \A i \in DOMAIN written : Made(written[i]) /\ IdFree(written[i])

RepliesPiped == "client" \notin cut => Pipe(received, down, <<>>, written)

RepliesInv == TypeOK /\ WrittenMade /\ RepliesPiped

\* A step keeps the replies in order.
LEMMA RepliesStep ==
  ASSUME RepliesInv, TypeOK', [Next]_vars
  PROVE  RepliesInv'
<1>1. /\ received \in Seq(BinaryMessages) /\ down \in Seq(Seq(Byte))
      /\ written \in Seq(BinaryMessages)
      /\ <<>> \in Seq(BinaryMessages)
  BY DEF RepliesInv, TypeOK, StreamTypeOK, ClientTypeOK
<1>2. DOMAIN written \subseteq Nat
  BY <1>1
<1>3. "client" \notin cut' => Pipe(received, down, <<>>, written)
  BY ReplySteps DEF RepliesInv, RepliesPiped
<1>4. CASE Lost
  <2>1. "client" \notin cut' => Pipe(received', down', <<>>, written')
    BY <1>1, <1>2, <1>3, <1>4, PipeLost DEF Lost
  <2>2. WrittenMade'
    BY <1>4 DEF Lost, WrittenMade, RepliesInv
  <2> QED
    BY <2>1, <2>2 DEF RepliesInv, RepliesPiped
<1>5. CASE ReplySent
  <2>1. PICK m \in Sent : /\ written' = Append(written, m)
                          /\ down' \in {down, Append(down, Serialize(m))}
    BY <1>5 DEF ReplySent
  <2>2. Made(m) /\ IdFree(m)
    BY SentMade
  <2> DEFINE n == Len(written) + 1
  <2>3. /\ DOMAIN written' = 1 .. n /\ DOMAIN written = 1 .. n - 1 /\ n \in Nat /\ n >= 1
        /\ \A i \in 1 .. n - 1 : written'[i] = written[i]
        /\ written'[n] = m
    BY <1>1, <2>1
  <2> HIDE DEF n
  <2>4. WrittenMade'
    <3>1. \A i \in 1 .. n : i \notin 1 .. n - 1 => i = n
      BY <2>3
    <3>2. \A i \in 1 .. n : Made(written'[i]) /\ IdFree(written'[i])
      BY <2>2, <2>3, <3>1 DEF RepliesInv, WrittenMade
    <3> QED
      BY <2>3, <3>2 DEF WrittenMade
  <2>5. ASSUME "client" \notin cut' PROVE Pipe(received', down', <<>>, written')
    <3> DEFINE W == written'
    <3>1. Pipe(received, down, <<>>, written)
      BY <1>3, <2>5
    <3>2. /\ DOMAIN written \subseteq DOMAIN W /\ DOMAIN W \subseteq Nat
          /\ \A i \in DOMAIN written : W[i] = written[i]
          /\ n \in DOMAIN W /\ \A i \in DOMAIN written : i < n
          /\ W[n] = m
      BY <2>3
    <3> HIDE DEF W
    <3>3. /\ Pipe(received, down, <<>>, W)
          /\ Pipe(received, down, Append(<<>>, W[n]), W)
      BY <1>1, <3>1, <3>2, PipeIn
    <3>4. Pipe(received, down, <<m>>, W)
      BY <3>2, <3>3
    <3>5. /\ <<m>> \in Seq(BinaryMessages) /\ <<m>> # <<>>
          /\ Head(<<m>>) = m /\ Tail(<<m>>) = <<>>
      BY <2>2, MadeIsMessage
    <3>6. Pipe(received, Append(down, Serialize(Head(<<m>>))), Tail(<<m>>), W)
      BY <1>1, <3>2, <3>4, <3>5, PipeOut
    <3>7. Pipe(received, Append(down, Serialize(m)), <<>>, W)
      BY <3>5, <3>6
    <3> QED
      BY <1>5, <2>1, <3>3, <3>7 DEF ReplySent, W
  <2> QED
    BY <2>4, <2>5 DEF RepliesInv, RepliesPiped
<1>6. CASE ReplyRead
  <2>1. PICK r \in Reads(down) :
          /\ received' = Append(received, Deserialize(Buffer(r.bytes)))
          /\ down' = r.rest /\ CutBy("client", r)
    BY <1>6 DEF ReplyRead
  <2>2. written' = written
    BY <1>6 DEF ReplyRead
  <2>3. ASSUME "client" \notin cut' PROVE Pipe(received', down', <<>>, written')
    <3>1. r.part = 0
      BY <1>1, <2>1, <2>3, ReadsTake DEF CutBy
    <3>2. \A k \in DOMAIN written : Made(written[k])
      BY DEF RepliesInv, WrittenMade
    <3>3. Pipe(Append(received, Deserialize(Buffer(r.bytes))), r.rest, <<>>, written)
      BY <1>1, <1>2, <1>3, <2>3, <3>1, <3>2, PipeRead
    <3> QED
      BY <2>1, <2>2, <3>3
  <2>4. WrittenMade'
    BY <2>2 DEF WrittenMade, RepliesInv
  <2> QED
    BY <2>3, <2>4 DEF RepliesInv, RepliesPiped
<1> QED
  BY <1>4, <1>5, <1>6, ReplySteps

\* Initially there is nothing to be in order.
LEMMA RepliesInit ==
  Init => RepliesInv
<1> SUFFICES ASSUME Init PROVE RepliesInv
  OBVIOUS
<1>1. /\ TypeOK /\ received = <<>> /\ down = <<>> /\ written = <<>>
  BY SessionTypesInit DEF Init, ClientInit, StreamInit
<1>2. Pipe(<<>>, <<>>, <<>>, <<>>)
  <2> DEFINE at == [i \in 1 .. 0 |-> i]
  <2>1. at \in Positions(0, DOMAIN <<>>)
    BY DEF Positions
  <2>2. Len(<<>>) = 0
    OBVIOUS
  <2>3. at \in Positions(Len(<<>>) + Len(<<>>) + Len(<<>>), DOMAIN <<>>)
    BY <2>1, <2>2
  <2> HIDE DEF at
  <2> QED
    BY <2>2, <2>3 DEF Pipe
<1>3. WrittenMade
  BY <1>1 DEF WrittenMade
<1> QED
  BY <1>1, <1>2, <1>3 DEF RepliesInv, RepliesPiped

\* What the client receives keeps the order of what the server writes, on a stream
\* that may cut it, lose it or join it, with an answer and a notice at once: of
\* two messages no later one overtakes, none comes twice and none is garbled, as
\* long as no read ended inside a message (serialize, deserialize, read).
THEOREM RepliesKeepOrder == Spec => []RepliesInOrder
<1>1. RepliesInv => RepliesInOrder
  <2> SUFFICES ASSUME RepliesInv, "client" \notin cut PROVE Within(received, written)
    BY DEF RepliesInOrder
  <2>1. /\ received \in Seq(BinaryMessages) /\ down \in Seq(Seq(Byte))
        /\ <<>> \in Seq(BinaryMessages)
    BY DEF RepliesInv, TypeOK, StreamTypeOK, ClientTypeOK
  <2> QED
    BY <2>1, PipeWithin DEF RepliesInv, RepliesPiped
<1> QED
  BY RepliesInit, <1>1, RepliesStep, SessionTypes, PTL DEF Spec

-----------------------------------------------------------------------------
(* No id comes.                                                            *)

\* These bytes are one of the messages.
IsOneOf(bytes, source) == \E k \in DOMAIN source : bytes = Serialize(source[k])

\* What the stream holds first was written.
LEMMA PipeFirst ==
  ASSUME NEW parsed \in Seq(BinaryMessages), NEW sent \in Seq(Seq(Byte)),
         NEW queued \in Seq(BinaryMessages),
         NEW source, Pipe(parsed, sent, queued, source), sent # <<>>
  PROVE  IsOneOf(sent[1], source)
<1> DEFINE lp == Len(parsed)
           n == lp + Len(sent) + Len(queued)
<1>1. PICK at \in [1 .. n -> DOMAIN source] :
        \A i \in 1 .. Len(sent) : sent[i] = Serialize(source[at[lp + i]])
  BY DEF Pipe, Positions
<1>2. 1 \in 1 .. Len(sent) /\ lp + 1 \in 1 .. n
  OBVIOUS
<1> HIDE DEF n
<1> QED
  BY <1>1, <1>2 DEF IsOneOf

\* A message that is no ID is not taken for one.
LEMMA FreeResponse ==
  ASSUME NEW m \in BinaryMessages, IdFree(m)
  PROVE  Response(m).kind # "ID"
<1> DEFINE isId == Split(m).command = IdWord
<1>1. m.message_type \in 0 .. 2 /\ (m.message_type = 1 => ~isId)
  BY DEF BinaryMessages, IdFree, Command
<1> HIDE DEF isId
<1>2. CASE m.message_type = 0
  BY <1>2 DEF Response, Unknown, Command, Message
<1>3. CASE m.message_type = 2
  BY <1>3 DEF Response, Unknown, Command, Message
<1>4. CASE m.message_type = 1
  BY <1>1, <1>4 DEF Response, Unknown, Command, Message, isId
<1> QED
  BY <1>1, <1>2, <1>3, <1>4

NoIdQueued == \A i \in DOMAIN incoming : incoming[i].kind # "ID"

NoIdComes == "client" \notin cut => NoIdQueued /\ client_id = 0 /\ main # "exited"

\* What a step does to the responses and the main loop.
LEMMA MainSteps ==
  ASSUME [Next]_vars
  PROVE  \/ /\ UNCHANGED <<incoming, client_id>>
            /\ main' \in {main, "incoming", "input", "panicked"}
         \/ /\ incoming # <<>> /\ incoming' = Tail(incoming)
            /\ HandleReply(Head(incoming))
         \/ ReplyRead
<1>1. CASE ServerThread
  BY <1>1, ThreadSteps DEF clientVars, mainVars
<1>2. CASE ClientSide
  <2>1. CASE TypeLine \/ InputEnds
    BY <2>1 DEF TypeLine, InputEnds, mainVars
  <2>2. CASE TakeIncoming
    BY <2>2 DEF TakeIncoming, Exit
  <2>3. CASE TakeInput
    BY <2>3 DEF TakeInput, Exit
  <2>4. CASE WriteStream \/ ReadNothing
    BY <2>4 DEF WriteStream, ReadNothing, mainVars
  <2>5. CASE ReadStream
    <3>1. PICK r \in Reads(down) :
            \/ /\ SliceFits(Buffer(r.bytes))
               /\ received' = Append(received, Deserialize(Buffer(r.bytes)))
               /\ incoming' = Append(incoming, Response(Deserialize(Buffer(r.bytes))))
               /\ down' = r.rest
               /\ CutBy("client", r)
            \/ incoming' = incoming
      BY <2>5 DEF ReadStream
    <3>2. UNCHANGED mainVars /\ written' = written
      BY <1>2, <2>5 DEF ReadStream, ClientSide, serverVars
    <3> QED
      BY <3>1, <3>2 DEF ReplyRead, mainVars
  <2> QED
    BY <1>2, <2>1, <2>2, <2>3, <2>4, <2>5 DEF ClientSide, StreamThread
<1>3. CASE UNCHANGED vars
  BY <1>3 DEF vars, clientVars, mainVars
<1> QED
  BY <1>1, <1>2, <1>3 DEF Next

\* A step lets no id come.
LEMMA NoIdStep ==
  ASSUME RepliesInv, NoIdComes, [Next]_vars
  PROVE  NoIdComes'
<1> SUFFICES ASSUME "client" \notin cut'
             PROVE  NoIdQueued' /\ client_id' = 0 /\ main' # "exited"
  BY DEF NoIdComes
<1>1. /\ received \in Seq(BinaryMessages) /\ down \in Seq(Seq(Byte))
      /\ written \in Seq(BinaryMessages) /\ incoming \in Seq(Responses)
      /\ <<>> \in Seq(BinaryMessages)
  BY DEF RepliesInv, TypeOK, StreamTypeOK, ClientTypeOK
<1>2. /\ "client" \notin cut
      /\ \A i \in DOMAIN incoming : incoming[i].kind # "ID"
      /\ client_id = 0 /\ main # "exited"
  BY ReplySteps DEF NoIdComes, NoIdQueued
<1>3. CASE /\ UNCHANGED <<incoming, client_id>>
           /\ main' \in {main, "incoming", "input", "panicked"}
  BY <1>2, <1>3 DEF NoIdQueued
<1>4. CASE /\ incoming # <<>> /\ incoming' = Tail(incoming)
           /\ HandleReply(Head(incoming))
  <2>1. Head(incoming).kind # "ID"
    BY <1>1, <1>2, <1>4
  <2>2. \A i \in DOMAIN incoming' : incoming'[i].kind # "ID"
    <3>1. /\ DOMAIN incoming' = 1 .. Len(incoming) - 1
          /\ \A i \in 1 .. Len(incoming) - 1 : incoming'[i] = incoming[i + 1]
          /\ DOMAIN incoming = 1 .. Len(incoming) /\ Len(incoming) \in Nat
      BY <1>1, <1>4
    <3>2. \A i \in 1 .. Len(incoming) - 1 : i + 1 \in 1 .. Len(incoming)
      BY <3>1
    <3> QED
      BY <1>2, <3>1, <3>2
  <2> QED
    BY <1>2, <1>4, <2>1, <2>2 DEF NoIdQueued, HandleReply
<1>5. CASE ReplyRead
  <2>1. PICK r \in Reads(down) :
          /\ incoming' = Append(incoming, Response(Deserialize(Buffer(r.bytes))))
          /\ CutBy("client", r)
    BY <1>5 DEF ReplyRead
  <2>2. UNCHANGED mainVars
    BY <1>5 DEF ReplyRead
  <2>3. r.part = 0 /\ down # <<>>
    BY <1>1, <2>1, ReadsTake DEF CutBy
  <2>4. PICK k \in DOMAIN written : down[1] = Serialize(written[k])
    <3>1. Pipe(received, down, <<>>, written)
      BY <1>2 DEF RepliesInv, RepliesPiped
    <3>2. IsOneOf(down[1], written)
      BY <1>1, <2>3, <3>1, PipeFirst
    <3> QED
      BY <3>2 DEF IsOneOf
  <2> DEFINE m == written[k]
  <2>5. Made(m) /\ IdFree(m) /\ down[1] = Serialize(m)
    BY <2>4 DEF RepliesInv, WrittenMade
  <2> HIDE DEF m
  <2>6. Deserialize(Buffer(r.bytes)) = m
    BY <1>1, <2>3, <2>5, WholeReadParsed
  <2> DEFINE response == Response(m)
  <2>7. response.kind # "ID" /\ incoming' = Append(incoming, response)
    BY <2>1, <2>5, <2>6, MadeIsMessage, FreeResponse
  <2> HIDE DEF response
  <2>8. /\ DOMAIN incoming' = 1 .. Len(incoming) + 1
        /\ \A i \in 1 .. Len(incoming) : incoming'[i] = incoming[i]
        /\ incoming'[Len(incoming) + 1] = response
        /\ DOMAIN incoming = 1 .. Len(incoming) /\ Len(incoming) \in Nat
    BY <1>1, <2>7
  <2>9. \A i \in DOMAIN incoming' : incoming'[i].kind # "ID"
    <3> SUFFICES ASSUME NEW i \in 1 .. Len(incoming) + 1
                 PROVE  incoming'[i].kind # "ID"
      BY <2>8
    <3>1. CASE i \in 1 .. Len(incoming)
      BY <1>2, <2>8, <3>1
    <3>2. CASE i = Len(incoming) + 1
      BY <2>7, <2>8, <3>2
    <3> QED
      BY <2>8, <3>1, <3>2
  <2> QED
    BY <1>2, <2>2, <2>9 DEF NoIdQueued, mainVars
<1> QED
  BY <1>3, <1>4, <1>5, MainSteps

\* The branch that sets the id, and the exit with "invalid password", are never
\* taken, unless a read ended inside a message, whose text may look like a command.
NeverIdentified == "client" \notin cut => client_id = 0 /\ main # "exited"

\* The client never learns its id, and never exits for a wrong password, whatever
\* the server answers: the answer it waits for is sent as a message, not as a
\* command (validate_user, on_command).
THEOREM NoIdArrives == Spec => []NeverIdentified
<1>1. Init => RepliesInv /\ NoIdComes
  <2>1. Init => NoIdComes
    BY DEF Init, ClientInit, NoIdComes, NoIdQueued
  <2> QED
    BY <2>1, RepliesInit
<1>2. NoIdComes => NeverIdentified
  BY DEF NoIdComes, NeverIdentified
<1> QED
  BY <1>1, <1>2, RepliesStep, NoIdStep, SessionTypes, PTL DEF Spec

-----------------------------------------------------------------------------
(* The requests.                                                           *)

\* A line enters its queue.
LineTyped ==
  /\ \E line \in Texts : Entered(line)
  /\ UNCHANGED <<up, outgoing, requests>>

\* The main loop takes one, and sends it on unless it is empty or nobody is there
\* to send it to.
LineTaken ==
  /\ input_chan # <<>> /\ input_chan' = Tail(input_chan)
  /\ UNCHANGED <<typed, requests>>
  /\ up' \in {up, <<>>}
  /\ \/ UNCHANGED outgoing
     \/ /\ Head(input_chan) # <<>>
        /\ outgoing' = Append(outgoing, ToServer(Head(input_chan)))

\* The stream thread takes a message, and writes it if it can.
RequestWritten ==
  /\ outgoing # <<>> /\ outgoing' = Tail(outgoing)
  /\ up' \in {up, <<>>, Append(up, Serialize(Head(outgoing)))}
  /\ UNCHANGED <<typed, input_chan, requests>>

\* The stream is left alone, or lost.
RequestsLost ==
  /\ up' \in {up, <<>>}
  /\ UNCHANGED <<typed, input_chan, outgoing, requests>>

\* One is read, and what is left may be lost.
RequestTaken ==
  /\ \E r \in Reads(up) : ServerReads(r) /\ up' \in {r.rest, <<>>}
  /\ UNCHANGED <<typed, input_chan, outgoing>>

\* What a step does to the requests.
LEMMA RequestSteps ==
  ASSUME [Next]_vars
  PROVE  /\ cut \subseteq cut'
         /\ LineTyped \/ LineTaken \/ RequestWritten \/ RequestsLost \/ RequestTaken
<1>0. cut \subseteq cut'
  BY ReplySteps
<1>1. CASE ServerThread
  <2>1. UNCHANGED <<typed, input_chan, outgoing>>
    BY <1>1, ThreadSteps DEF clientVars, inputVars
  <2>2. \A unread : Writes(unread) => up' \in {unread, <<>>}
    BY DEF Writes, Silent, SendResponse
  <2>3. CASE RequestRead
    <3>1. PICK r \in Reads(up) : ServerReads(r) /\ Writes(r.rest)
      BY <2>3 DEF RequestRead
    <3>2. up' \in {r.rest, <<>>}
      BY <2>2, <3>1
    <3> QED
      BY <1>0, <2>1, <3>1, <3>2 DEF RequestTaken
  <2>4. CASE Writes(up) /\ UNCHANGED <<closed, cut, requests>>
    BY <2>1, <2>2, <2>4 DEF RequestsLost
  <2>5. CASE UNCHANGED <<streamVars, notices, written, requests>>
    BY <2>1, <2>5 DEF RequestsLost, streamVars
  <2>6. CASE ServerCloses /\ UNCHANGED <<notices, written, requests>>
    <3>1. up' = <<>> /\ requests' = requests
      BY <2>6 DEF ServerCloses
    <3> QED
      BY <1>0, <2>1, <3>1 DEF RequestsLost
  <2> QED
    BY <1>0, <1>1, <2>3, <2>4, <2>5, <2>6, ThreadSteps
<1>2. CASE ClientSide
  <2>0. requests' = requests
    BY <1>2 DEF ClientSide, serverVars
  <2>1. CASE TypeLine
    <3>1. \E line \in Texts : Entered(line)
      BY <2>1, LinesTyped
    <3> QED
      BY <1>0, <2>0, <2>1, <3>1 DEF TypeLine, streamVars, LineTyped
  <2>2. CASE InputEnds
    BY <1>0, <2>0, <2>2 DEF InputEnds, streamVars, RequestsLost
  <2>3. CASE TakeIncoming
    BY <1>0, <2>0, <2>3 DEF TakeIncoming, HandleReply, Exit, ClientCloses, inputVars,
       streamVars, RequestsLost
  <2>4. CASE TakeInput
    <3>1. typed' = typed
      BY <2>4 DEF TakeInput
    <3>2. up' \in {up, <<>>}
      BY <2>4 DEF TakeInput, Exit, ClientCloses, streamVars
    <3>3. CASE input_chan = <<>>
      BY <1>0, <2>0, <2>4, <3>1, <3>2, <3>3 DEF TakeInput, RequestsLost
    <3>4. CASE input_chan # <<>>
      BY <1>0, <2>0, <2>4, <3>1, <3>2, <3>4 DEF TakeInput, LineTaken
    <3> QED
      BY <3>3, <3>4
  <2>5. CASE WriteStream
    BY <1>0, <2>0, <2>5 DEF WriteStream, ClientCloses, inputVars, streamVars,
       RequestWritten, RequestsLost
  <2>6. CASE ReadStream
    <3>1. up' \in {up, <<>>}
      BY <2>6 DEF ReadStream, ClientCloses
    <3> QED
      BY <1>0, <2>0, <2>6, <3>1 DEF ReadStream, inputVars, RequestsLost
  <2>7. CASE ReadNothing
    BY <1>0, <2>0, <2>7 DEF ReadNothing, ClientCloses, inputVars, streamVars,
       RequestsLost
  <2> QED
    BY <1>2, <2>1, <2>2, <2>3, <2>4, <2>5, <2>6, <2>7 DEF ClientSide, StreamThread
<1>3. CASE UNCHANGED vars
  BY <1>0, <1>3 DEF vars, streamVars, clientVars, inputVars, serverVars, RequestsLost
<1> QED
  BY <1>1, <1>2, <1>3 DEF Next

\* How many lines the main loop has taken.
TakenUp == Len(typed) - Len(input_chan)

\* The requests that these lines are, without their last byte.
AskedAt == {k \in 1 .. TakenUp : Popped(typed[k]) # <<>>}
Asked == [i \in AskedAt |-> ToServer(Popped(typed[i]))]

\* The lines that it has not taken are the last ones.
InputLast ==
  /\ TakenUp \in Nat
  /\ \A i \in 1 .. Len(input_chan) : input_chan[i] = Popped(typed[TakenUp + i])

RequestsPiped == "server" \notin cut => Pipe(requests, up, outgoing, Asked)

RequestsInv == TypeOK /\ InputLast /\ RequestsPiped

\* The requests are messages that the client made.
LEMMA AskedMade ==
  ASSUME TypeOK, InputLast
  PROVE  /\ DOMAIN Asked = AskedAt /\ AskedAt \subseteq Nat
         /\ AskedAt \subseteq DOMAIN typed
         /\ \A k \in AskedAt : Made(Asked[k])
<1>1. /\ typed \in Seq(Texts) /\ input_chan \in Seq(Texts)
      /\ Len(typed) \in Nat /\ Len(input_chan) \in Nat
  BY DEF TypeOK, ClientTypeOK
<1>2. DOMAIN Asked = AskedAt
  BY DEF Asked
<1>3. AskedAt \subseteq 1 .. Len(typed)
  BY <1>1 DEF AskedAt, TakenUp
<1>4. ASSUME NEW k \in AskedAt PROVE Made(Asked[k])
  <2>1. typed[k] \in Texts /\ Popped(typed[k]) # <<>>
    BY <1>1, <1>3 DEF AskedAt
  <2>2. Asked[k] = ToServer(Popped(typed[k]))
    BY DEF Asked
  <2> QED
    BY <2>1, <2>2, PoppedTyped, ToServerMade
<1> QED
  BY <1>1, <1>2, <1>3, <1>4

\* A line more is no request yet.
LEMMA LineTypedStep ==
  ASSUME TypeOK, InputLast, LineTyped
  PROVE  InputLast' /\ Asked' = Asked
<1>1. PICK line \in Texts :
        input_chan' = Append(input_chan, Popped(line)) /\ typed' = Append(typed, line)
  BY DEF LineTyped, Entered
<1>2. typed \in Seq(Texts) /\ input_chan \in Seq(Texts)
  BY DEF TypeOK, ClientTypeOK
<1> DEFINE n == Len(typed)
           c == Len(input_chan)
<1>3. /\ n \in Nat /\ Len(typed') = n + 1
      /\ \A i \in 1 .. n : typed'[i] = typed[i]
      /\ typed'[n + 1] = line
  BY <1>1, <1>2
<1>4. /\ c \in Nat /\ Len(input_chan') = c + 1
      /\ \A i \in 1 .. c : input_chan'[i] = input_chan[i]
      /\ input_chan'[c + 1] = Popped(line)
  <2>1. Popped(line) \in Texts
    BY <1>1, PoppedTyped
  <2> QED
    BY <1>1, <1>2, <2>1
<1> DEFINE t == n - c
<1>5. TakenUp = t /\ TakenUp' = t /\ t \in Nat
  BY <1>3, <1>4 DEF TakenUp, InputLast
<1>6. \A i \in 1 .. c : input_chan[i] = Popped(typed[t + i])
  BY <1>5 DEF InputLast
<1>7. ASSUME NEW i \in 1 .. c + 1 PROVE input_chan'[i] = Popped(typed'[t + i])
  <2>1. CASE i \in 1 .. c
    <3>1. t + i \in 1 .. n
      BY <1>3, <1>4, <1>5, <2>1
    <3> QED
      BY <1>3, <1>4, <1>6, <2>1, <3>1
  <2>2. CASE i = c + 1
    <3>1. t + i = n + 1
      BY <1>3, <1>4, <2>2
    <3> QED
      BY <1>3, <1>4, <2>2, <3>1
  <2> QED
    BY <1>4, <2>1, <2>2
<1>8. InputLast'
  BY <1>4, <1>5, <1>7 DEF InputLast
<1>9. \A i \in 1 .. t : i \in 1 .. n /\ typed'[i] = typed[i]
  BY <1>3, <1>4, <1>5
<1> HIDE DEF n, c, t
<1>10. AskedAt = {k \in 1 .. t : Popped(typed[k]) # <<>>}
       /\ AskedAt' = {k \in 1 .. t : Popped(typed'[k]) # <<>>}
  BY <1>5 DEF AskedAt
<1>11. AskedAt' = AskedAt /\ \A k \in AskedAt : typed'[k] = typed[k]
  BY <1>9, <1>10
<1>12. Asked' = [i \in AskedAt |-> ToServer(Popped(typed'[i]))]
  BY <1>11 DEF Asked, ToServer, NewCommand, NewMessage
<1>13. Asked' = Asked
  BY <1>11, <1>12 DEF Asked
<1> QED
  BY <1>8, <1>13


\* The line that is taken is the next one, and a request unless it is empty.
LEMMA LineTakenStep ==
  ASSUME TypeOK, InputLast, LineTaken
  PROVE  /\ InputLast'
         /\ AskedAt \subseteq AskedAt' /\ AskedAt' \subseteq Nat
         /\ \A i \in AskedAt : Asked'[i] = Asked[i]
         /\ DOMAIN Asked' = AskedAt'
         /\ Head(input_chan) # <<>> =>
              \E k \in AskedAt' : /\ Asked'[k] = ToServer(Head(input_chan))
                                  /\ \A i \in AskedAt : i < k
<1> DEFINE n == Len(typed)
           c == Len(input_chan)
           t == n - c
<1>1. /\ input_chan # <<>> /\ input_chan' = Tail(input_chan) /\ typed' = typed
      /\ typed \in Seq(Texts) /\ input_chan \in Seq(Texts)
  BY DEF LineTaken, TypeOK, ClientTypeOK
<1>2. /\ n \in Nat /\ c \in Nat /\ c >= 1
      /\ Len(input_chan') = c - 1
      /\ \A i \in 1 .. c - 1 : input_chan'[i] = input_chan[i + 1]
      /\ Head(input_chan) = input_chan[1]
  BY <1>1
<1>3. t \in Nat /\ TakenUp = t /\ TakenUp' = t + 1
  BY <1>1, <1>2 DEF TakenUp, InputLast
<1>4. \A i \in 1 .. c : input_chan[i] = Popped(typed[t + i])
  BY <1>3 DEF InputLast
<1> HIDE DEF n, c, t
<1>5. ASSUME NEW i \in 1 .. c - 1 PROVE input_chan'[i] = Popped(typed'[t + 1 + i])
  <2>1. i + 1 \in 1 .. c /\ t + (i + 1) = t + 1 + i
    BY <1>2, <1>3
  <2> QED
    BY <1>1, <1>2, <1>4, <2>1
<1>6. InputLast'
  BY <1>2, <1>3, <1>5 DEF InputLast
<1>7. /\ AskedAt = {k \in 1 .. t : Popped(typed[k]) # <<>>}
      /\ AskedAt' = {k \in 1 .. t + 1 : Popped(typed[k]) # <<>>}
  BY <1>1, <1>3 DEF AskedAt
<1>8. AskedAt \subseteq AskedAt' /\ AskedAt' \subseteq Nat /\ AskedAt \subseteq 1 .. t
  BY <1>3, <1>7
<1>9. Asked' = [i \in AskedAt' |-> ToServer(Popped(typed[i]))]
  BY <1>1 DEF Asked, ToServer, NewCommand, NewMessage
<1> DEFINE A == AskedAt'
           B == Asked'
<1>10. /\ DOMAIN B = A
       /\ \A i \in A : B[i] = ToServer(Popped(typed[i]))
       /\ \A i \in AskedAt : B[i] = Asked[i]
  BY <1>8, <1>9 DEF Asked
<1>11. ASSUME Head(input_chan) # <<>>
       PROVE  /\ t + 1 \in A /\ B[t + 1] = ToServer(Head(input_chan))
              /\ \A i \in AskedAt : i < t + 1
  <2>1. Head(input_chan) = Popped(typed[t + 1]) /\ t + 1 \in 1 .. t + 1
    BY <1>2, <1>3, <1>4
  <2>2. t + 1 \in A
    BY <1>7, <1>11, <2>1
  <2> HIDE DEF A, B
  <2> QED
    BY <1>3, <1>8, <1>10, <2>1, <2>2
<1> QED
  BY <1>6, <1>8, <1>10, <1>11

\* A step keeps the requests in order.
LEMMA RequestsStep ==
  ASSUME RequestsInv, TypeOK', [Next]_vars
  PROVE  RequestsInv'
<1>1. /\ requests \in Seq(BinaryMessages) /\ up \in Seq(Seq(Byte))
      /\ outgoing \in Seq(BinaryMessages) /\ input_chan \in Seq(Texts)
      /\ TypeOK /\ InputLast
  BY DEF RequestsInv, TypeOK, StreamTypeOK, ClientTypeOK
<1>2. /\ DOMAIN Asked = AskedAt /\ AskedAt \subseteq Nat
      /\ \A k \in DOMAIN Asked : Made(Asked[k])
  BY <1>1, AskedMade
<1>3. "server" \notin cut' => Pipe(requests, up, outgoing, Asked)
  BY RequestSteps DEF RequestsInv, RequestsPiped
<1>4. (typed' = typed /\ input_chan' = input_chan) => InputLast' /\ Asked' = Asked
  BY <1>1 DEF InputLast, TakenUp, Asked, AskedAt, ToServer, NewCommand, NewMessage
<1>5. SUFFICES InputLast' /\ ("server" \notin cut' => Pipe(requests', up', outgoing', Asked'))
  BY DEF RequestsInv, RequestsPiped
<1>6. CASE LineTyped
  BY <1>1, <1>3, <1>6, LineTypedStep DEF LineTyped
<1>7. CASE LineTaken
  <2> DEFINE M == Asked'
             m == ToServer(Head(input_chan))
  <2>1. /\ InputLast'
        /\ DOMAIN Asked \subseteq DOMAIN M /\ DOMAIN M \subseteq Nat
        /\ \A i \in DOMAIN Asked : M[i] = Asked[i]
    BY <1>1, <1>2, <1>7, LineTakenStep
  <2>2. Head(input_chan) # <<>> =>
          \E k \in DOMAIN M : M[k] = m /\ \A i \in DOMAIN Asked : i < k
    BY <1>1, <1>2, <1>7, LineTakenStep
  <2>3. /\ up' \in {up, <<>>} /\ requests' = requests
        /\ outgoing' = outgoing \/ (Head(input_chan) # <<>> /\ outgoing' = Append(outgoing, m))
    BY <1>7 DEF LineTaken
  <2> HIDE DEF M, m
  <2>4. ASSUME "server" \notin cut' PROVE Pipe(requests', up', outgoing', M)
    <3>1. Pipe(requests, up, outgoing, Asked)
      BY <1>3, <2>4
    <3>2. Pipe(requests, up, outgoing, M)
      BY <1>1, <2>1, <3>1, PipeIn
    <3>3. Head(input_chan) # <<>> => Pipe(requests, up, Append(outgoing, m), M)
      <4> SUFFICES ASSUME Head(input_chan) # <<>>
                   PROVE  Pipe(requests, up, Append(outgoing, m), M)
        OBVIOUS
      <4>1. PICK k \in DOMAIN M : M[k] = m /\ \A i \in DOMAIN Asked : i < k
        BY <2>2
      <4>2. Pipe(requests, up, Append(outgoing, M[k]), M)
        BY <1>1, <2>1, <3>1, <4>1, PipeIn
      <4> QED
        BY <4>1, <4>2
    <3>4. Pipe(requests, up, outgoing', M)
      BY <2>3, <3>2, <3>3
    <3>5. outgoing' \in Seq(BinaryMessages)
      BY DEF TypeOK, ClientTypeOK
    <3>6. Pipe(requests, <<>>, outgoing', M)
      BY <1>1, <2>1, <3>4, <3>5, PipeLost
    <3> QED
      BY <2>3, <3>4, <3>6
  <2> QED
    BY <2>1, <2>4 DEF M
<1>8. CASE RequestWritten
  <2>1. /\ Asked' = Asked /\ InputLast' /\ requests' = requests
        /\ outgoing # <<>> /\ outgoing' = Tail(outgoing)
        /\ up' \in {up, <<>>, Append(up, Serialize(Head(outgoing)))}
    BY <1>4, <1>8 DEF RequestWritten
  <2>2. ASSUME "server" \notin cut' PROVE Pipe(requests', up', outgoing', Asked')
    <3>1. Pipe(requests, up, outgoing, Asked)
      BY <1>3, <2>2
    <3>2. /\ Pipe(requests, Append(up, Serialize(Head(outgoing))), Tail(outgoing), Asked)
          /\ Pipe(requests, up, Tail(outgoing), Asked)
      BY <1>1, <1>2, <2>1, <3>1, PipeOut
    <3>3. Tail(outgoing) \in Seq(BinaryMessages)
      BY <1>1, <2>1
    <3>4. Pipe(requests, <<>>, Tail(outgoing), Asked)
      BY <1>1, <1>2, <3>2, <3>3, PipeLost
    <3> QED
      BY <2>1, <3>2, <3>4
  <2> QED
    BY <2>1, <2>2
<1>9. CASE RequestsLost
  <2>1. /\ Asked' = Asked /\ InputLast' /\ requests' = requests
        /\ outgoing' = outgoing /\ up' \in {up, <<>>}
    BY <1>4, <1>9 DEF RequestsLost
  <2>2. "server" \notin cut' => Pipe(requests, <<>>, outgoing, Asked)
    BY <1>1, <1>2, <1>3, PipeLost
  <2> QED
    BY <1>3, <2>1, <2>2
<1>10. CASE RequestTaken
  <2>1. /\ Asked' = Asked /\ InputLast' /\ outgoing' = outgoing
    BY <1>4, <1>10 DEF RequestTaken
  <2>2. PICK r \in Reads(up) : ServerReads(r) /\ up' \in {r.rest, <<>>}
    BY <1>10 DEF RequestTaken
  <2> DEFINE m == Deserialize(Buffer(r.bytes))
  <2>3. requests' \in {requests, Append(requests, m)} /\ CutBy("server", r)
    BY <2>2 DEF ServerReads
  <2>4. r.part \in Nat /\ r.rest \in Seq(Seq(Byte))
    BY <1>1, ReadsTake
  <2>5. requests' \in Seq(BinaryMessages)
    BY DEF TypeOK
  <2>6. ASSUME "server" \notin cut' PROVE Pipe(requests', up', outgoing', Asked')
    <3>1. r.part = 0
      BY <2>3, <2>4, <2>6 DEF CutBy
    <3>2. /\ Pipe(requests, r.rest, outgoing, Asked)
          /\ Pipe(Append(requests, m), r.rest, outgoing, Asked)
      BY <1>1, <1>2, <1>3, <2>6, <3>1, PipeRead
    <3> HIDE DEF m
    <3>3. Pipe(requests', r.rest, outgoing, Asked)
      BY <2>3, <3>2
    <3>4. Pipe(requests', <<>>, outgoing, Asked)
      BY <1>1, <1>2, <2>4, <2>5, <3>3, PipeLost
    <3> QED
      BY <2>1, <2>2, <3>3, <3>4
  <2> QED
    BY <2>1, <2>6
<1> QED
  BY <1>6, <1>7, <1>8, <1>9, <1>10, RequestSteps

\* A request is what its line asks for.
LEMMA AskedMeant ==
  ASSUME TypeOK, InputLast, NEW k \in AskedAt
  PROVE  k \in Meaningful /\ Asks(Asked[k], typed[k])
<1> DEFINE line == typed[k]
           n == Len(line)
<1>1. k \in DOMAIN typed /\ line \in Texts /\ Popped(line) # <<>>
  <2>1. AskedAt \subseteq DOMAIN typed
    BY AskedMade
  <2>2. typed \in Seq(Texts)
    BY DEF TypeOK, ClientTypeOK
  <2>3. k \in DOMAIN typed /\ typed[k] \in Texts
    BY <2>1, <2>2
  <2> QED
    BY <2>3 DEF AskedAt
<1>2. Asked[k] = ToServer(Popped(line))
  BY DEF Asked
<1> HIDE DEF line
<1>3. /\ n \in Nat /\ n >= 2 /\ Popped(line) = SubSeq(line, 1, n - 1)
      /\ Popped(line) = Front(line)
  BY <1>1, PoppedTyped DEF Popped
<1>4. line # <<Newline>>
  <2>1. Len(<<Newline>>) = 1
    OBVIOUS
  <2> QED
    BY <1>3, <2>1
<1>5. n - 1 \in {n - 1, n} \ {0}
  BY <1>3
<1>6. Asks(Asked[k], line)
  BY <1>2, <1>3, <1>5 DEF Asks
<1> QED
  BY <1>1, <1>4, <1>6 DEF Meaningful, line

\* What the server parses keeps the order of the lines that the user typed, through
\* two queues, the main loop, the stream thread and the socket: of two lines no
\* later one overtakes, none comes twice and none is garbled, as long as no read
\* ended inside a message (send_to_server, process_stream).
THEOREM RequestsKeepOrder == Spec => []RequestsInOrder
<1>1. Init => RequestsInv
  <2> SUFFICES ASSUME Init PROVE RequestsInv
    OBVIOUS
  <2>1. /\ TypeOK /\ requests = <<>> /\ up = <<>> /\ outgoing = <<>>
        /\ typed = <<>> /\ input_chan = <<>>
    BY SessionTypesInit DEF Init, ClientInit, StreamInit
  <2>2. TakenUp = 0 /\ InputLast
    BY <2>1 DEF TakenUp, InputLast
  <2>3. Pipe(<<>>, <<>>, <<>>, Asked)
    <3> DEFINE at == [i \in 1 .. 0 |-> i]
    <3>1. \A S : at \in Positions(0, S)
      BY DEF Positions
    <3>2. Len(<<>>) = 0
      OBVIOUS
    <3>3. at \in Positions(Len(<<>>) + Len(<<>>) + Len(<<>>), DOMAIN Asked)
      BY <3>1, <3>2
    <3> HIDE DEF at
    <3> QED
      BY <3>2, <3>3 DEF Pipe
  <2> QED
    BY <2>1, <2>2, <2>3 DEF RequestsInv, RequestsPiped
<1>2. RequestsInv => RequestsInOrder
  <2> SUFFICES ASSUME RequestsInv, "server" \notin cut PROVE RequestsInOrder
    BY DEF RequestsInOrder
  <2>1. /\ requests \in Seq(BinaryMessages) /\ up \in Seq(Seq(Byte))
        /\ outgoing \in Seq(BinaryMessages) /\ TypeOK /\ InputLast
        /\ <<>> \in Seq(BinaryMessages)
    BY DEF RequestsInv, TypeOK, StreamTypeOK, ClientTypeOK
  <2>2. Within(requests, Asked)
    BY <2>1, PipeWithin DEF RequestsInv, RequestsPiped
  <2>3. PICK at \in [DOMAIN requests -> AskedAt] :
          /\ \A i \in DOMAIN requests : requests[i] = Asked[at[i]]
          /\ \A i, j \in DOMAIN requests : i < j => at[i] < at[j]
    BY <2>1, <2>2, AskedMade DEF Within
  <2>4. ASSUME NEW k \in AskedAt
        PROVE  k \in Meaningful /\ Asks(Asked[k], typed[k])
    BY <2>1, <2>4, AskedMeant
  <2>5. at \in [DOMAIN requests -> Meaningful]
    BY <2>3, <2>4
  <2>6. \A i \in DOMAIN requests : Asks(requests[i], typed[at[i]])
    BY <2>3, <2>4
  <2> QED
    BY <2>3, <2>5, <2>6 DEF RequestsInOrder
<1> QED
  BY <1>1, <1>2, RequestsStep, SessionTypes, PTL DEF Spec

-----------------------------------------------------------------------------
(* The refusal of a client that typed one line.                            *)

\* The cases that the property is about, up to now.
Lone == cut = {} /\ Len(typed) <= 1 /\ input # "panicked"

\* Before the server has answered, nothing is on its way to the user, and there is
\* no more on the way to the server than was typed.
Waiting ==
  /\ written = <<>> /\ closed = {} /\ down = <<>>
  /\ incoming = <<>> /\ shown = <<>> /\ stream # "panicked" /\ Alive
  /\ Len(input_chan) + Len(outgoing) + Len(up) <= Len(typed)

\* The refusal is in the stream, in the queue or shown, and until then the client
\* goes on; nothing is left to be read that could bring a reset.
RefusalOnItsWay ==
  /\ down = <<Serialize(written[1])>> /\ incoming = <<>> /\ shown = <<>>
  /\ Alive /\ stream # "panicked"

RefusalQueued ==
  down = <<>> /\ incoming = <<Response(written[1])>> /\ shown = <<>> /\ Alive

RefusalPrinted ==
  down = <<>> /\ incoming = <<>> /\ shown = <<Response(written[1])>>

RefusalStands ==
  /\ server \in {"closing", "closed"}
  /\ Len(written) = 1 /\ Len(typed) = 1
  /\ input_chan = <<>> /\ outgoing = <<>> /\ up = <<>>
  /\ RefusalOnItsWay \/ RefusalQueued \/ RefusalPrinted

RefusalWritten == written # <<>> /\ written[1].message \in Refusals

\* A thread that came past the login has answered it.
Welcomed == server \in {"recv", "read"} => written # <<>>

RefusalInv ==
  /\ Welcomed
  /\ Lone => /\ server = "login" => Waiting
             /\ RefusalWritten => RefusalStands

\* A case that the property is about always was one.
LEMMA LoneBefore ==
  ASSUME TypeOK, [Next]_vars, Lone'
  PROVE  Lone
<1>1. cut = {}
  BY ReplySteps DEF Lone
<1>2. typed \in Seq(Texts)
  BY DEF TypeOK, ClientTypeOK
<1>3. Len(typed) <= 1
  <2>1. CASE LineTyped
    <3>1. PICK line : typed' = Append(typed, line)
      BY <2>1 DEF LineTyped, Entered
    <3>2. Len(typed') = Len(typed) + 1 /\ Len(typed) \in Nat
      BY <1>2, <3>1
    <3> QED
      BY <3>2 DEF Lone
  <2>2. CASE typed' = typed
    BY <2>2 DEF Lone
  <2> QED
    BY <2>1, <2>2, RequestSteps DEF LineTaken, RequestWritten, RequestsLost, RequestTaken
<1>4. input # "panicked"
  <2> SUFFICES ASSUME input = "panicked" PROVE input' = "panicked"
    BY DEF Lone
  <2>1. CASE ServerThread
    BY <2>1, ThreadSteps DEF clientVars, inputVars
  <2>2. CASE ClientSide
    BY <2>2 DEF ClientSide, TypeLine, InputEnds, TakeIncoming, TakeInput, StreamThread,
       WriteStream, ReadStream, ReadNothing, inputVars
  <2>3. CASE UNCHANGED vars
    BY <2>3 DEF vars, clientVars, inputVars
  <2> QED
    BY <2>1, <2>2, <2>3 DEF Next
<1> QED
  BY <1>1, <1>3, <1>4 DEF Lone

\* A thread that came past the login does not return to it, and only one that
\* serves requests writes.
LEMMA AfterLogin ==
  ASSUME [Next]_vars, server # "login"
  PROVE  /\ server' # "login"
         /\ server \in {"closing", "closed", "blocked"} => written' = written
         /\ server \in {"closing", "closed"} => server' \in {"closing", "closed"}
         /\ server = "blocked" => server' = "blocked"
         /\ written' = written \/ \E m : written' = Append(written, m)
<1>1. CASE ServerThread
  <2>1. \A unread : Writes(unread) =>
          written' = written \/ \E m : written' = Append(written, m)
    BY DEF Writes, Silent, SendResponse
  <2>2. written' = written \/ \E m : written' = Append(written, m)
    BY <1>1, <2>1, ThreadSteps DEF RequestRead
  <2>3. server' # "login"
    BY <1>1 DEF ServerThread, LoginRequest, Notify, NoNotice, ServeRequest,
       ReadNoRequest, AfterEmptyRead, AfterResponse, LockLost, Close
  <2>4. server \in {"closing", "closed", "blocked"} =>
          written' = written /\ server = "closing" /\ server' = "closed"
    BY <1>1 DEF ServerThread, LoginRequest, Notify, NoNotice, ServeRequest,
       ReadNoRequest, Close
  <2> QED
    BY <2>2, <2>3, <2>4
<1>2. CASE ClientSide
  BY <1>2 DEF ClientSide, serverVars
<1>3. CASE UNCHANGED vars
  BY <1>3 DEF vars, serverVars
<1> QED
  BY <1>1, <1>2, <1>3 DEF Next

\* A read of one write that does not end inside it leaves nothing.
LEMMA OneRead ==
  ASSUME NEW s \in Seq(Seq(Byte)), Len(s) <= 1, NEW r \in Reads(s), r.part = 0
  PROVE  r.rest = <<>> /\ Len(s) = 1
<1> DEFINE n == Len(s)
<1>1. PICK c \in 1 .. n : r.rest = SubSeq(s, c + 1, n)
  BY ReadsTake DEF WholeRead
<1>2. n \in Nat /\ n <= 1
  OBVIOUS
<1> HIDE DEF n
<1>3. c = 1 /\ n = 1
  BY <1>1, <1>2
<1>4. SubSeq(s, 2, 1) = <<>>
  OBVIOUS
<1> QED
  BY <1>1, <1>3, <1>4 DEF n


\* Who waits for the answer goes on waiting, or is refused, or neither.
LEMMA WaitingStep ==
  ASSUME TypeOK, RepliesInv, Lone, Lone', Waiting, server = "login", [Next]_vars
  PROVE  /\ server' = "login" => Waiting'
         /\ RefusalWritten' => RefusalStands'
<1>1. /\ written = <<>> /\ closed = {} /\ down = <<>> /\ cut = {} /\ cut' = {}
      /\ incoming = <<>> /\ shown = <<>> /\ stream # "panicked" /\ Alive
      /\ input # "panicked" /\ input' # "panicked"
      /\ Len(input_chan) + Len(outgoing) + Len(up) <= Len(typed)
      /\ Len(typed) <= 1 /\ Len(typed') <= 1
  BY DEF Waiting, Lone
<1>2. /\ up \in Seq(Seq(Byte)) /\ outgoing \in Seq(BinaryMessages)
      /\ input_chan \in Seq(Texts) /\ typed \in Seq(Texts)
      /\ Len(up) \in Nat /\ Len(outgoing) \in Nat /\ Len(input_chan) \in Nat
      /\ Len(typed) \in Nat
  BY DEF TypeOK, StreamTypeOK, ClientTypeOK
<1>3. Reads(down) = {}
  <2> SUFFICES ASSUME NEW r \in Reads(down) PROVE FALSE
    OBVIOUS
  <2>1. down \in Seq(Seq(Byte))
    BY DEF TypeOK, StreamTypeOK
  <2> QED
    BY <1>1, <2>1, ReadsTake
<1>4. CASE ServerThread
  <2>1. UNCHANGED clientVars
    BY <1>4, ThreadSteps
  <2>2. CASE LoginRequest
    <3>1. PICK r \in Reads(up) :
            /\ ServerReads(r)
            /\ \/ server' \in LockLost /\ Silent(r.rest)
               \/ LetIn(r.rest)
               \/ Refused(r.rest)
      BY <2>2 DEF LoginRequest, LockLost
    <3>2. r.part = 0
      <4>1. CutBy("server", r)
        BY <3>1 DEF ServerReads
      <4>2. r.part \in Nat
        BY <1>2, ReadsTake
      <4> QED
        BY <1>1, <4>1, <4>2 DEF CutBy
    <3>3. r.rest = <<>> /\ Len(up) = 1
      BY <1>1, <1>2, <3>2, OneRead
    <3>4. Len(typed) = 1 /\ input_chan = <<>> /\ outgoing = <<>>
      <4>1. Len(typed) = 1 /\ Len(input_chan) = 0 /\ Len(outgoing) = 0
        BY <1>1, <1>2, <3>3
      <4> QED
        BY <1>2, <4>1
    <3>5. CASE Silent(r.rest) /\ server' \in LockLost
      BY <1>1, <3>5 DEF Silent, RefusalWritten, LockLost
    <3>6. CASE LetIn(r.rest)
      <4> DEFINE m == NewMessage(Greeting)
      <4>1. m.message = Greeting /\ server' \in {"recv", "closing", "blocked"}
        BY <3>6 DEF NewMessage, LetIn, LockLost
      <4>2. written' = Append(<<>>, m)
        BY <1>1, <3>6 DEF LetIn, SendResponse
      <4> HIDE DEF m
      <4>3. written' # <<>> /\ written'[1] = m
        BY <4>2
      <4> QED
        BY <4>1, <4>3, SessionAssumption DEF RefusalWritten
    <3>7. CASE Refused(r.rest)
      <4>0. server' = "closing"
        BY <1>1, <3>7 DEF Refused, AfterResponse
      <4>1. PICK m : SendResponse(m, <<>>)
        BY <3>3, <3>7 DEF Refused
      <4>2. written' = Append(<<>>, m) /\ up' = <<>>
            /\ down' = Append(<<>>, Serialize(m))
        BY <1>1, <4>1 DEF SendResponse
      <4>3. written' = <<m>> /\ down' = <<Serialize(m)>>
        BY <4>2
      <4>4. Len(written') = 1 /\ written'[1] = m
        BY <4>3
      <4>5. RefusalOnItsWay'
        BY <1>1, <2>1, <4>3, <4>4 DEF RefusalOnItsWay, clientVars, mainVars, Alive
      <4>6. RefusalStands'
        BY <2>1, <3>4, <4>0, <4>2, <4>4, <4>5 DEF RefusalStands, clientVars, inputVars
      <4> QED
        BY <4>0, <4>6
    <3> QED
      BY <3>1, <3>5, <3>6, <3>7
  <2>3. CASE ReadNoRequest
    <3>1. server' = "login" /\ UNCHANGED <<streamVars, written>>
      BY <1>1, <2>3 DEF ReadNoRequest, AfterEmptyRead
    <3> QED
      BY <1>1, <2>1, <3>1 DEF Waiting, RefusalWritten, clientVars, inputVars, mainVars,
         streamVars, Alive
  <2> QED
    BY <1>4, <2>2, <2>3 DEF ServerThread, Notify, NoNotice, ServeRequest, Close
<1>5. CASE ClientSide
  <2>0. server' = "login" /\ written' = <<>>
    BY <1>1, <1>5 DEF ClientSide, serverVars
  <2> SUFFICES Waiting'
    BY <2>0 DEF RefusalWritten
  <2>1. CASE TypeLine
    <3>1. /\ Len(input_chan') = Len(input_chan) + 1 /\ Len(typed') = Len(typed) + 1
          /\ UNCHANGED <<streamVars, mainVars, outgoing, stream, incoming>>
      BY <1>2, <2>1 DEF TypeLine, Entered
    <3> QED
      BY <1>1, <1>2, <2>0, <3>1 DEF Waiting, streamVars, mainVars, Alive
  <2>2. CASE InputEnds
    BY <1>1, <2>0, <2>2 DEF InputEnds, Waiting, streamVars, mainVars, Alive
  <2>3. CASE TakeIncoming
    BY <1>1, <2>0, <2>3 DEF TakeIncoming, Disconnected, Waiting, streamVars, inputVars,
       Alive
  <2>4. CASE TakeInput
    <3>1. /\ main' = "incoming" /\ UNCHANGED streamVars
          /\ UNCHANGED <<input, typed, client_id, shown, stream, incoming, received>>
      BY <1>1, <2>4 DEF TakeInput
    <3>2. Len(input_chan') + Len(outgoing') <= Len(input_chan) + Len(outgoing)
          /\ Len(input_chan') \in Nat /\ Len(outgoing') \in Nat
      <4>1. CASE input_chan = <<>>
        BY <1>2, <2>4, <4>1 DEF TakeInput
      <4>2. CASE input_chan # <<>>
        <5>1. input_chan' = Tail(input_chan)
              /\ (outgoing' = outgoing \/ \E m : outgoing' = Append(outgoing, m))
          BY <2>4, <4>2 DEF TakeInput
        <5>2. Len(input_chan') = Len(input_chan) - 1 /\ Len(input_chan') \in Nat
          BY <1>2, <4>2, <5>1
        <5>3. Len(outgoing') \in {Len(outgoing), Len(outgoing) + 1}
          BY <1>2, <5>1
        <5> QED
          BY <1>2, <5>2, <5>3
      <4> QED
        BY <4>1, <4>2
    <3> QED
      BY <1>1, <1>2, <2>0, <3>1, <3>2 DEF Waiting, streamVars, Alive
  <2>5. CASE WriteStream
    <3>1. CASE outgoing = <<>>
      BY <1>1, <2>0, <2>5, <3>1 DEF WriteStream, Waiting, streamVars, inputVars,
         mainVars, Alive
    <3>2. CASE outgoing # <<>>
      <4>1. /\ outgoing' = Tail(outgoing) /\ stream' = "read"
            /\ up' = Append(up, Serialize(Head(outgoing)))
            /\ UNCHANGED <<down, closed, cut, inputVars, mainVars, incoming>>
        BY <1>1, <2>5, <3>2 DEF WriteStream
      <4>2. Len(outgoing') = Len(outgoing) - 1
        BY <1>2, <3>2, <4>1
      <4>3. Len(up') = Len(up) + 1
        <5> DEFINE W == Seq(Byte)
                   e == Serialize(Head(outgoing))
        <5> HIDE DEF W, e
        <5>1. up \in Seq(W) /\ up' = Append(up, e)
          BY <1>2, <4>1 DEF W, e
        <5> QED
          BY <5>1
      <4>4. Len(input_chan') + Len(outgoing') + Len(up') <= Len(typed')
        <5>1. input_chan' = input_chan /\ typed' = typed
          BY <4>1 DEF inputVars
        <5> QED
          BY <1>1, <1>2, <4>2, <4>3, <5>1
      <4> QED
        BY <1>1, <2>0, <4>1, <4>4 DEF Waiting, mainVars, Alive
    <3> QED
      BY <3>1, <3>2
  <2>6. CASE ReadStream
    BY <1>3, <2>6 DEF ReadStream
  <2>7. CASE ReadNothing
    BY <1>1, <2>0, <2>7 DEF ReadNothing, Waiting, streamVars, inputVars, mainVars, Alive
  <2> QED
    BY <1>5, <2>1, <2>2, <2>3, <2>4, <2>5, <2>6, <2>7 DEF ClientSide, StreamThread
<1>6. CASE UNCHANGED vars
  BY <1>1, <1>6 DEF Waiting, RefusalWritten, vars, streamVars, clientVars, inputVars,
     mainVars, serverVars, Alive
<1> QED
  BY <1>4, <1>5, <1>6 DEF Next


\* A part of a message that fits the buffer never asks for more than fits.
LEMMA PartFits ==
  ASSUME NEW s \in Seq(Seq(Byte)), NEW m \in BinaryMessages, s = <<Serialize(m)>>,
         Made(m), Len(m.message) + HeaderSize <= BufferSize,
         NEW r \in Reads(s), r.part # 0
  PROVE  SliceFits(Buffer(r.bytes))
<1> DEFINE x == Serialize(m)
           buffer == Buffer(r.bytes)
           length == Len(m.message)
<1>1. PICK n \in 0 .. Len(s), p \in 0 .. BufferSize : r = Taken(s, n, p)
  BY DEF Reads
<1>2. Len(s) = 1 /\ s = <<x>>
  OBVIOUS
<1>3. x \in Seq(Byte) /\ Len(x) \in Nat
  BY SerializeTyped
<1> DEFINE after == SubSeq(s, n + 1, Len(s))
<1> HIDE DEF x
<1>4. after # <<>> /\ p \in 1 .. Len(Head(after)) - 1
  BY <1>1 DEF Taken
<1>5. n = 0
  <2> SUFFICES ASSUME n # 0 PROVE FALSE
    OBVIOUS
  <2>1. n = 1
    BY <1>1, <1>2
  <2>2. after = <<>>
    BY <1>2, <2>1
  <2> QED
    BY <1>4, <2>2
<1>6. Head(after) = x
  <2> DEFINE W == Seq(Byte)
  <2>1. s \in Seq(W) /\ s[1] = x
    BY <1>2
  <2> HIDE DEF W
  <2>2. after \in Seq(W) /\ Len(after) = 1 /\ after[1] = s[1]
    BY <1>2, <1>5, <2>1
  <2> QED
    BY <2>1, <2>2
<1>7. p \in 1 .. Len(x) - 1
  BY <1>4, <1>6
<1>8. r.bytes = SubSeq(x, 1, p)
  <2>1. r.bytes = FlattenSeq(SubSeq(s, 1, n)) \o SubSeq(Head(after), 1, p)
    BY <1>1, <1>4 DEF Taken
  <2>2. SubSeq(s, 1, 0) = <<>>
    OBVIOUS
  <2>3. FlattenSeq(<<>>) = <<>>
    BY DEF FlattenSeq
  <2>4. r.bytes = <<>> \o SubSeq(x, 1, p)
    BY <1>5, <1>6, <2>1, <2>2, <2>3
  <2>5. SubSeq(x, 1, p) \in Seq(Byte)
    BY <1>3, <1>7
  <2> DEFINE y == SubSeq(x, 1, p)
  <2> HIDE DEF y
  <2>6. <<>> \o y = y
    BY <2>5 DEF y
  <2> QED
    BY <2>4, <2>6 DEF y
<1>9. Len(r.bytes) = p /\ \A i \in 1 .. p : r.bytes[i] = x[i]
  BY <1>3, <1>7, <1>8
<1>10. /\ length \in Nat /\ m.length = length /\ length + 3 <= BufferSize
       /\ length < LengthLimit
  <2>1. length \in Nat /\ length + 3 <= BufferSize
    BY DEF BinaryMessages, Texts, HeaderSize
  <2>2. length < LengthLimit
    BY <2>1, Sizes
  <2>3. length % LengthLimit = length
    BY <2>1, <2>2, ShortLength
  <2> QED
    BY <2>1, <2>2, <2>3 DEF Made, NewMessage, NewCommand
<1> HIDE DEF length
<1>11. x[1] = length \div Base /\ x[2] = length % Base
  <2> DEFINE high == length \div Base
             low == length % Base
             text == m.message
  <2>1. x = <<high, low, m.message_type>> \o text
    BY <1>10 DEF x, Serialize
  <2>2. high \in Int /\ low \in Int /\ m.message_type \in Int /\ text \in Seq(Int)
    <3>1. m.message_type \in 0 .. 2 /\ text \in Seq(Byte)
      BY DEF BinaryMessages, Texts
    <3>2. high \in Byte /\ low \in Byte
      BY <1>10, DivMod
    <3> QED
      BY <3>1, <3>2, Sizes DEF Byte
  <2> DEFINE header == <<high, low, m.message_type>>
  <2>3. header \in Seq(Int) /\ Len(header) = 3 /\ header[1] = high /\ header[2] = low
    BY <2>2
  <2> HIDE DEF header, high, low, text
  <2>4. \A i \in 1 .. Len(header) : (header \o text)[i] = header[i]
    BY <2>2, <2>3, Concatenation
  <2>5. x[1] = header[1] /\ x[2] = header[2]
    BY <2>1, <2>3, <2>4 DEF header
  <2> QED
    BY <2>3, <2>5 DEF high, low
<1>12. /\ (length \div Base) \in Nat /\ (length % Base) \in Nat
       /\ (length \div Base) * Base + (length % Base) = length
  <2>1. /\ length \div Base \in Byte /\ length % Base \in Byte
        /\ (length \div Base) * Base + (length % Base) = length
    BY <1>10, DivMod
  <2>2. Byte \subseteq Nat
    BY Sizes DEF Byte
  <2> QED
    BY <2>1, <2>2
<1>13. /\ Len(buffer) = BufferSize
       /\ buffer[1] = length \div Base
       /\ buffer[2] \in {length % Base, 0}
  <2>1. buffer = [i \in 1 .. BufferSize |-> IF i <= p THEN r.bytes[i] ELSE 0]
    BY <1>9 DEF Buffer
  <2>2. 1 \in 1 .. BufferSize /\ 2 \in 1 .. BufferSize /\ BufferSize \in Nat
    BY Sizes
  <2>3. Len(buffer) = BufferSize
    BY <2>1, <2>2
  <2>4. buffer[1] = r.bytes[1] /\ r.bytes[1] = x[1]
    BY <1>7, <1>9, <2>1, <2>2
  <2>5. buffer[2] = IF 2 <= p THEN r.bytes[2] ELSE 0
    BY <2>1, <2>2
  <2>6. 2 <= p => r.bytes[2] = x[2]
    BY <1>7, <1>9
  <2> HIDE DEF buffer
  <2> QED
    BY <1>11, <2>3, <2>4, <2>5, <2>6
<1> DEFINE high == (length \div Base) * Base
           low == length % Base
<1>14. high \in Nat /\ low \in Nat /\ high + low = length
  <2> DEFINE d == length \div Base
  <2>1. d \in Nat /\ Base \in Nat
    BY <1>12, Sizes
  <2> HIDE DEF d
  <2>2. d * Base \in Nat
    BY <2>1
  <2> QED
    BY <1>12, <2>2 DEF d
<1>15. WireLength(buffer) = high + buffer[2] /\ buffer[2] \in {low, 0}
  BY <1>13 DEF WireLength
<1> HIDE DEF buffer, high, low
<1>16. WireLength(buffer) <= length /\ WireLength(buffer) \in Nat
  BY <1>14, <1>15
<1>17. SliceFits(buffer)
  BY <1>10, <1>13, <1>16, Sizes DEF SliceFits, HeaderSize
<1> QED
  BY <1>17 DEF buffer

\* A refusal stays on its way, in its queue or on the terminal.
LEMMA RefusedStep ==
  ASSUME RepliesInv, Lone, Lone', RefusalWritten, RefusalStands, [Next]_vars
  PROVE  RefusalStands'
<1>1. /\ cut = {} /\ cut' = {} /\ input # "panicked" /\ input' # "panicked"
      /\ server \in {"closing", "closed"}
      /\ Len(written) = 1 /\ Len(typed) = 1
      /\ input_chan = <<>> /\ outgoing = <<>> /\ up = <<>>
      /\ Len(typed') <= 1
  BY DEF RefusalStands, Lone
<1>2. /\ down \in Seq(Seq(Byte)) /\ typed \in Seq(Texts) /\ written \in Seq(BinaryMessages)
      /\ received \in Seq(BinaryMessages) /\ <<>> \in Seq(BinaryMessages)
  BY DEF RepliesInv, TypeOK, StreamTypeOK, ClientTypeOK
<1>3. written' = written /\ server' \in {"closing", "closed"}
  BY <1>1, AfterLogin
<1> DEFINE w == written[1]
<1>4. Made(w) /\ IdFree(w) /\ w \in BinaryMessages
  <2>1. 1 \in DOMAIN written
    BY <1>1, <1>2
  <2> QED
    BY <2>1, MadeIsMessage DEF RepliesInv, WrittenMade
<1> HIDE DEF w
<1>5. RefusalOnItsWay \/ RefusalQueued \/ RefusalPrinted
  BY DEF RefusalStands
<1>6. CASE ServerThread
  <2>1. Close
    BY <1>1, <1>6 DEF ServerThread, LoginRequest, Notify, NoNotice, ServeRequest,
       ReadNoRequest, Close
  <2>2. up' = <<>> /\ down' = down /\ UNCHANGED clientVars
    BY <1>1, <2>1 DEF Close, ServerCloses
  <2>3. (RefusalOnItsWay \/ RefusalQueued \/ RefusalPrinted)'
    BY <1>3, <1>5, <2>2 DEF RefusalOnItsWay, RefusalQueued, RefusalPrinted, clientVars,
       mainVars, Alive, Response, Serialize
  <2> QED
    BY <1>1, <1>3, <2>2, <2>3 DEF RefusalStands, clientVars, inputVars
<1>7. CASE ClientSide
  <2>1. CASE TypeLine
    <3>1. Len(typed') = 2
      BY <1>1, <1>2, <2>1 DEF TypeLine, Entered
    <3> QED
      BY <1>1, <3>1
  <2>2. ASSUME input_chan' = <<>>, outgoing' = <<>>, up' = <<>>, typed' = typed,
               (RefusalOnItsWay \/ RefusalQueued \/ RefusalPrinted)'
        PROVE  RefusalStands'
    BY <1>1, <1>3, <2>2 DEF RefusalStands
  <2>3. CASE InputEnds
    <3>1. UNCHANGED <<input_chan, outgoing, up, typed, down, incoming, shown, main, stream>>
      BY <2>3 DEF InputEnds, streamVars, mainVars
    <3>2. (RefusalOnItsWay \/ RefusalQueued \/ RefusalPrinted)'
      BY <1>3, <1>5, <3>1 DEF RefusalOnItsWay, RefusalQueued, RefusalPrinted, Alive,
         Response, Serialize
    <3> QED
      BY <1>1, <2>2, <3>1, <3>2
  <2>4. CASE TakeIncoming
    <3>1. UNCHANGED <<input_chan, typed, outgoing, stream>>
      BY <2>4 DEF TakeIncoming, inputVars
    <3>2. up' = <<>>
      BY <1>1, <2>4 DEF TakeIncoming, HandleReply, Exit, ClientCloses, streamVars
    <3>3. CASE RefusalOnItsWay
      <4>1. main' = "input" /\ UNCHANGED <<down, incoming, shown>>
        BY <2>4, <3>3 DEF TakeIncoming, Disconnected, RefusalOnItsWay, streamVars
      <4>2. RefusalOnItsWay'
        BY <1>3, <3>1, <3>3, <4>1 DEF RefusalOnItsWay, Alive, Serialize
      <4> QED
        BY <1>1, <2>2, <3>1, <3>2, <4>2
    <3>4. CASE RefusalQueued
      <4>1. /\ incoming = <<Response(w)>> /\ Head(incoming) = Response(w)
            /\ Tail(incoming) = <<>> /\ incoming # <<>>
        BY <3>4 DEF RefusalQueued, w
      <4>2. HandleReply(Response(w)) /\ incoming' = <<>>
        BY <2>4, <4>1 DEF TakeIncoming, Disconnected
      <4>3. Response(w).kind # "ID"
        BY <1>4, FreeResponse
      <4>4. shown' = Append(shown, Response(w)) /\ UNCHANGED streamVars
        BY <4>2, <4>3 DEF HandleReply
      <4>5. shown' = <<Response(w)>> /\ down' = <<>>
        BY <3>4, <4>4 DEF RefusalQueued, streamVars
      <4>6. RefusalPrinted'
        BY <1>3, <4>2, <4>5 DEF RefusalPrinted, w, Response
      <4> QED
        BY <1>1, <2>2, <3>1, <3>2, <4>6
    <3>5. CASE RefusalPrinted
      <4>1. down' = <<>> /\ UNCHANGED <<incoming, shown>>
        BY <2>4, <3>5 DEF TakeIncoming, RefusalPrinted, Exit, ClientCloses, streamVars
      <4>2. RefusalPrinted'
        BY <1>3, <3>5, <4>1 DEF RefusalPrinted, Response
      <4> QED
        BY <1>1, <2>2, <3>1, <3>2, <4>2
    <3> QED
      BY <1>5, <3>3, <3>4, <3>5
  <2>5. CASE TakeInput
    <3>1. /\ main' = "incoming"
          /\ UNCHANGED <<streamVars, input_chan, outgoing, typed, shown, stream, incoming>>
      BY <1>1, <2>5 DEF TakeInput
    <3>2. (RefusalOnItsWay \/ RefusalQueued \/ RefusalPrinted)'
      BY <1>3, <1>5, <3>1 DEF RefusalOnItsWay, RefusalQueued, RefusalPrinted, Alive,
         streamVars, Response, Serialize
    <3> QED
      BY <1>1, <2>2, <3>1, <3>2 DEF streamVars
  <2>6. CASE WriteStream
    <3>1. /\ stream' = "read" /\ Alive
          /\ UNCHANGED <<streamVars, outgoing, inputVars, mainVars, incoming>>
      BY <1>1, <2>6 DEF WriteStream
    <3>2. (RefusalOnItsWay \/ RefusalQueued \/ RefusalPrinted)'
      BY <1>3, <1>5, <3>1 DEF RefusalOnItsWay, RefusalQueued, RefusalPrinted, Alive,
         streamVars, mainVars, Response, Serialize
    <3> QED
      BY <1>1, <2>2, <3>1, <3>2 DEF streamVars, inputVars
  <2>7. CASE ReadStream
    <3>1. PICK r \in Reads(down) :
            IF SliceFits(Buffer(r.bytes))
            THEN LET m == Deserialize(Buffer(r.bytes)) IN
                 /\ received' = Append(received, m)
                 /\ incoming' = Append(incoming, Response(m))
                 /\ stream' = "write"
                 /\ down' = r.rest
                 /\ CutBy("client", r)
                 /\ UNCHANGED <<up, closed>>
            ELSE /\ stream' = "panicked"
                 /\ ClientCloses
                 /\ UNCHANGED <<incoming, received>>
      BY <2>7 DEF ReadStream
    <3>2. UNCHANGED <<inputVars, mainVars, outgoing>> /\ Alive
      BY <2>7 DEF ReadStream
    <3>3. RefusalOnItsWay
      <4>1. down # <<>>
        BY <1>2, ReadsTake
      <4> QED
        BY <1>5, <4>1 DEF RefusalQueued, RefusalPrinted
    <3>4. down = <<Serialize(w)>> /\ incoming = <<>> /\ shown = <<>>
      BY <3>3 DEF RefusalOnItsWay, w
    <3>5. down[1] = Serialize(w) /\ Len(down) <= 1
      BY <3>4
    <3>6. r.part \in Nat
      BY <1>2, ReadsTake
    <3>7. CASE r.part = 0
      <4>1. r.rest = <<>>
        BY <1>2, <3>5, <3>7, OneRead
      <4>2. SliceFits(Buffer(r.bytes)) /\ Deserialize(Buffer(r.bytes)) = w
        BY <1>2, <1>4, <3>5, <3>7, WholeReadParsed
      <4>3. incoming' = Append(<<>>, Response(w)) /\ down' = <<>> /\ up' = up
        BY <3>1, <3>4, <4>1, <4>2
      <4>4. incoming' = <<Response(w)>>
        BY <4>3
      <4>5. RefusalQueued'
        BY <1>3, <3>2, <3>4, <4>3, <4>4 DEF RefusalQueued, w, Response, mainVars, Alive
      <4> QED
        BY <1>1, <2>2, <3>2, <4>3, <4>5 DEF inputVars
    <3>8. CASE r.part # 0
      <4>1. SliceFits(Buffer(r.bytes))
        <5>1. Len(w.message) + HeaderSize <= BufferSize
          BY SessionAssumption DEF RefusalWritten, w
        <5> QED
          BY <1>2, <1>4, <3>4, <3>8, <5>1, PartFits
      <4>2. CutBy("client", r)
        BY <3>1, <4>1
      <4> QED
        BY <1>1, <3>6, <3>8, <4>2 DEF CutBy
    <3> QED
      BY <3>7, <3>8
  <2>8. CASE ReadNothing
    <3>1. /\ down = <<>> /\ UNCHANGED <<inputVars, mainVars, outgoing, incoming>>
          /\ Alive
      BY <2>8 DEF ReadNothing, ReadTimesOut
    <3>2. down' = <<>> /\ up' = <<>>
      BY <1>1, <2>8, <3>1 DEF ReadNothing, ClientCloses, streamVars
    <3>3. RefusalQueued \/ RefusalPrinted
      BY <1>5, <3>1 DEF RefusalOnItsWay
    <3>4. (RefusalQueued \/ RefusalPrinted)'
      BY <1>3, <3>1, <3>2, <3>3 DEF RefusalQueued, RefusalPrinted, mainVars, Alive, Response
    <3> QED
      BY <1>1, <2>2, <3>1, <3>2, <3>4 DEF inputVars
  <2> QED
    BY <1>7, <2>1, <2>3, <2>4, <2>5, <2>6, <2>7, <2>8 DEF ClientSide, StreamThread
<1>8. CASE UNCHANGED vars
  BY <1>5, <1>8 DEF RefusalStands, RefusalOnItsWay, RefusalQueued, RefusalPrinted, vars,
     streamVars, clientVars, inputVars, mainVars, serverVars, Alive, Response, Serialize
<1> QED
  BY <1>6, <1>7, <1>8 DEF Next

\* A thread answers the login before it goes on.
LEMMA WelcomedStep ==
  ASSUME TypeOK, Welcomed, [Next]_vars
  PROVE  Welcomed'
<1>1. /\ server \in {"login", "recv", "read", "closing", "closed", "blocked"}
      /\ written \in Seq(BinaryMessages)
  BY DEF TypeOK
<1>2. CASE server = "login"
  <2>1. CASE LoginRequest
    <3>1. server' = "recv" => \E m : written' = Append(written, m)
      BY <2>1 DEF LoginRequest, LetIn, Refused, AfterResponse, LockLost, SendResponse
    <3>2. server' \in {"recv", "closing", "blocked"}
      BY <2>1 DEF LoginRequest, LetIn, Refused, AfterResponse, LockLost
    <3> QED
      BY <1>1, <3>1, <3>2 DEF Welcomed
  <2>2. CASE server' \notin {"recv", "read"}
    BY <2>2 DEF Welcomed
  <2>3. server' \in {"recv", "read"} => LoginRequest
    BY <1>2 DEF Next, ServerThread, ClientSide, Notify, NoNotice, ServeRequest,
       ReadNoRequest, AfterEmptyRead, LockLost, Close, serverVars, vars
  <2> QED
    BY <2>1, <2>2, <2>3
<1>3. CASE server \in {"recv", "read"}
  <2>1. written # <<>>
    BY <1>3 DEF Welcomed
  <2>2. written' = written \/ \E m : written' = Append(written, m)
    BY <1>3, AfterLogin
  <2> QED
    BY <1>1, <2>1, <2>2 DEF Welcomed
<1>4. CASE server \in {"closing", "closed", "blocked"}
  BY <1>4, AfterLogin DEF Welcomed
<1> QED
  BY <1>1, <1>2, <1>3, <1>4

\* A step keeps what leads to a refusal.
LEMMA RefusalStep ==
  ASSUME RepliesInv, RefusalInv, TypeOK', [Next]_vars
  PROVE  RefusalInv'
<1>1. /\ TypeOK /\ written \in Seq(BinaryMessages)
      /\ server \in {"login", "recv", "read", "closing", "closed", "blocked"}
  BY DEF RepliesInv, TypeOK
<1>2. Welcomed'
  BY <1>1, WelcomedStep DEF RefusalInv
<1>3. ASSUME Lone'
      PROVE  /\ server' = "login" => Waiting'
             /\ RefusalWritten' => RefusalStands'
  <2>1. /\ Lone /\ Welcomed
        /\ server = "login" => Waiting
        /\ RefusalWritten => RefusalStands
    BY <1>1, <1>3, LoneBefore DEF RefusalInv
  <2>2. CASE server = "login"
    BY <1>1, <1>3, <2>1, <2>2, WaitingStep
  <2>3. CASE server # "login"
    <3>1. server' # "login"
      BY <2>3, AfterLogin
    <3>2. CASE RefusalWritten
      BY <1>3, <2>1, <3>1, <3>2, RefusedStep
    <3>3. CASE written # <<>> /\ ~RefusalWritten
      <4>1. written' = written \/ \E m : written' = Append(written, m)
        BY <2>3, AfterLogin
      <4>2. written'[1] = written[1]
        BY <1>1, <3>3, <4>1
      <4>3. ~RefusalWritten'
        BY <3>3, <4>2 DEF RefusalWritten
      <4> QED
        BY <3>1, <4>3
    <3>4. CASE written = <<>>
      <4>1. server \in {"closing", "closed", "blocked"}
        BY <1>1, <2>1, <2>3, <3>4 DEF Welcomed
      <4>2. written' = <<>>
        BY <2>3, <3>4, <4>1, AfterLogin
      <4> QED
        BY <3>1, <4>2 DEF RefusalWritten
    <3> QED
      BY <3>2, <3>3, <3>4
  <2> QED
    BY <2>2, <2>3
<1> QED
  BY <1>2, <1>3 DEF RefusalInv

\* A user who types one line and is refused for it is shown why before the client
\* ends, in every order of the five threads' steps: the refusal is always in the
\* stream, in the queue or on the terminal, and the client ends only after the
\* last (try_recv, validate_user).
THEOREM RefusalIsShown == Spec => []RefusalShown
<1>1. Init => RefusalInv
  BY DEF Init, ClientInit, StreamInit, RefusalInv, Welcomed, Waiting, RefusalWritten,
     Alive
<1>2. RepliesInv /\ RefusalInv => RefusalShown
  <2> SUFFICES ASSUME RepliesInv, RefusalInv, Over, input # "panicked", Len(typed) = 1,
                      cut = {}, Len(written) = 1, written[1].message \in Refusals
               PROVE  shown = <<Response(written[1])>>
    BY DEF RefusalShown
  <2>1. Lone
    BY DEF Lone
  <2>2. RefusalWritten
    <3>1. Len(<<>>) = 0
      OBVIOUS
    <3>2. written # <<>>
      BY <3>1
    <3> QED
      BY <3>2 DEF RefusalWritten
  <2>3. RefusalStands /\ ~Alive
    BY <2>1, <2>2 DEF RefusalInv, Over, Alive
  <2> QED
    BY <2>3 DEF RefusalStands, RefusalOnItsWay, RefusalQueued, RefusalPrinted
<1> QED
  BY <1>1, <1>2, RepliesInit, RepliesStep, RefusalStep, SessionTypes, PTL DEF Spec

=============================================================================
