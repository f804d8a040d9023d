------------------------------ MODULE Padding ------------------------------
(***************************************************************************)
(* The padding of a message below the encryption of libsignal: signal_pad  *)
(* (outgoing.rs) of the sender, whatever program it is, and                *)
(* strip_signal_padding (main_ws.rs) of the receiver.                      *)
(***************************************************************************)
EXTENDS Integers, Sequences

Byte == 0..255
Marker == 128
Block == 160

\* The mark and zeroes up to a multiple of Block.
Pad(content) ==
  [i \in 1..(Block * (1 + Len(content) \div Block)) |->
     IF i <= Len(content) THEN content[i]
     ELSE IF i = Len(content) + 1 THEN Marker ELSE 0]

\* The bytes of text up to the last one that is not of the given ones.
Kept(text, dropped) ==
  CHOOSE n \in 0..Len(text) :
    /\ \A i \in (n + 1)..Len(text) : text[i] \in dropped
    /\ n > 0 => text[n] \notin dropped

\* Mutant: marks are popped like zeroes, in one loop.
StripMarks(text) == SubSeq(text, 1, Kept(text, {0, Marker}))

\* The zeroes are popped, and then one mark.
Strip(text) ==
  LET n == Kept(text, {0})
  IN SubSeq(text, 1, IF n > 0 /\ text[n] = Marker THEN n - 1 ELSE n)
=============================================================================
