----------------------------- MODULE MCSession ------------------------------
(* A small session: bytes 0 to 7, of which 0 to 3 are ASCII, so that a length *)
(* is below 64, and a read of 11 bytes.  The texts are spelled with the byte  *)
(* 2 for any letter.                                                          *)
EXTENDS Session, TLC

\* The password, the command DROP, a line whose length is no text, one that is
\* longer than the buffer, and one that is longer than a length can say.
MCPassword == <<2>>
MCDropWord == <<2, 2>>
Fill(n) == [i \in 1 .. n |-> 2]
MCLines == {MCPassword, <<1, 2, 2>>, Fill(4), Fill(9), Fill(65)}

MCIdWord == <<2, 1>>
MCGreeting == <<2, 1, 3, 2>>
MCRefusals == {<<2, 3, 2>>}
MCReplies == {NewMessage(<<1, 1>>)}
MCNotices == {NewCommand(<<2>>)}

=============================================================================
