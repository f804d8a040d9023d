---------------------------- MODULE PaddingProofs ----------------------------
(***************************************************************************)
(* Padding that is stripped gives back the content, for every content.     *)
(***************************************************************************)
EXTENDS Padding, SequenceTheorems, TLAPS

PadLen(content) == Block * (1 + Len(content) \div Block)

LEMMA PadLenBounds ==
  ASSUME NEW c \in Seq(Byte)
  PROVE  /\ PadLen(c) \in Nat /\ PadLen(c) % Block = 0
         /\ Len(c) < PadLen(c) /\ PadLen(c) <= Len(c) + Block
  <1>1. Len(c) \in Nat
    OBVIOUS
  <1> QED BY <1>1 DEF PadLen, Block

LEMMA PadIsSeq ==
  ASSUME NEW c \in Seq(Byte)
  PROVE  /\ Pad(c) \in Seq(Byte) /\ Len(Pad(c)) = PadLen(c)
         /\ \A i \in 1..PadLen(c) :
              Pad(c)[i] = IF i <= Len(c) THEN c[i] ELSE IF i = Len(c) + 1 THEN Marker ELSE 0
  <1>1. PadLen(c) \in Nat /\ Len(c) \in Nat
    BY PadLenBounds
  <1>2. Pad(c) = [i \in 1..PadLen(c) |->
                    IF i <= Len(c) THEN c[i] ELSE IF i = Len(c) + 1 THEN Marker ELSE 0]
    BY DEF Pad, PadLen
  <1>3. \A i \in 1..PadLen(c) : Pad(c)[i] \in Byte
    <2> SUFFICES ASSUME NEW i \in 1..PadLen(c) PROVE Pad(c)[i] \in Byte
      OBVIOUS
    <2>1. CASE i <= Len(c)
      BY <2>1, <1>1, <1>2, c[i] \in Byte
    <2>2. CASE i > Len(c)
      BY <2>2, <1>1, <1>2 DEF Byte, Marker
    <2> QED BY <2>1, <2>2, <1>1
  <1>4. Pad(c) \in [1..PadLen(c) -> Byte]
    BY <1>2, <1>3
  <1>5. Pad(c) \in Seq(Byte)
    BY <1>1, <1>4
  <1>6. Len(Pad(c)) = PadLen(c)
    BY <1>1, <1>4, <1>5
  <1> QED BY <1>2, <1>5, <1>6

\* The zeroes end behind the mark.
LEMMA KeptIsMarked ==
  ASSUME NEW c \in Seq(Byte)
  PROVE  Kept(Pad(c), {0}) = Len(c) + 1
  <1> DEFINE m == Len(c) + 1
             text == Pad(c)
             IsKept(n) == /\ \A i \in (n + 1)..Len(text) : text[i] \in {0}
                          /\ n > 0 => text[n] \notin {0}
  <1>1. /\ Len(c) \in Nat /\ Len(text) \in Nat /\ m \in 1..Len(text)
        /\ text[m] = Marker
        /\ \A i \in (m + 1)..Len(text) : text[i] = 0
    BY PadIsSeq, PadLenBounds
  <1>2. m \in 0..Len(text) /\ IsKept(m)
    BY <1>1 DEF Marker
  <1>3. ASSUME NEW n \in 0..Len(text), IsKept(n)
        PROVE  n = m
    <2>1. ~(n < m)
      BY <1>1, <1>3 DEF Marker
    <2>2. ~(n > m)
      BY <1>1, <1>3
    <2> QED BY <2>1, <2>2, <1>1
  <1>4. Kept(text, {0}) = CHOOSE n \in 0..Len(text) : IsKept(n)
    BY DEF Kept
  <1> HIDE DEF IsKept
  <1> QED BY <1>2, <1>3, <1>4

\* strip_signal_padding is the inverse of signal_pad for every content, also
\* for one that ends in marks or zeroes: "inverse of strip_signal_padding in
\* main_ws.rs" (outgoing.rs).
THEOREM StripInvertsPad == \A c \in Seq(Byte) : Strip(Pad(c)) = c
  <1> SUFFICES ASSUME NEW c \in Seq(Byte) PROVE Strip(Pad(c)) = c
    OBVIOUS
  <1>1. Kept(Pad(c), {0}) = Len(c) + 1
    BY KeptIsMarked
  <1>2. /\ Pad(c) \in Seq(Byte) /\ Len(c) \in Nat /\ Len(c) < Len(Pad(c))
        /\ Pad(c)[Len(c) + 1] = Marker
        /\ \A i \in 1..Len(c) : Pad(c)[i] = c[i]
    <2>1. Pad(c) \in Seq(Byte) /\ Len(Pad(c)) = PadLen(c)
      BY PadIsSeq
    <2>2. /\ Len(c) \in Nat /\ PadLen(c) \in Nat /\ Len(c) < PadLen(c)
          /\ Len(c) + 1 \in 1..PadLen(c) /\ 1..Len(c) \subseteq 1..PadLen(c)
      BY PadLenBounds
    <2>3. /\ Pad(c)[Len(c) + 1] = Marker
          /\ \A i \in 1..Len(c) : Pad(c)[i] = c[i]
      BY <2>2, PadIsSeq
    <2> QED BY <2>1, <2>2, <2>3
  <1>3. Strip(Pad(c)) = SubSeq(Pad(c), 1, Len(c))
    BY <1>1, <1>2 DEF Strip
  <1>4. SubSeq(Pad(c), 1, Len(c)) = c
    BY <1>2
  <1> QED BY <1>3, <1>4
=============================================================================
