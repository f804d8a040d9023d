--------------------------- MODULE MCConversation ---------------------------
(***************************************************************************)
(* Conversation for TLC: a first message of each of two peers, the second  *)
(* one without text; a message of the first peer under another identity,   *)
(* which is dropped unless the first one was never saved; two more         *)
(* messages of the first peer, one that could open its session too and one *)
(* that could not; and two messages of one's own other device, the second  *)
(* with a destination that cannot be cut.                                  *)
(***************************************************************************)
EXTENDS Conversation

CONSTANTS alice, bob, k1, k2

MCPeers == {alice, bob}
MCKeys == {k1, k2}

Msg(p, k, t, c, b) == [from |-> p, key |-> k, type |-> t, content |-> c, bytes |-> b]

\* Contents that end in bytes of the padding, and around a full block.
EndsInMarks == <<10, Marker, Marker>>
EndsInPadding == <<10, Marker, 0>>
Bytes(n) == [i \in 1..n |-> 10]

MCMessages ==
  <<Msg(alice, k1, "prekey", "text", EndsInMarks), Msg(bob, k1, "prekey", "none", <<>>),
    Msg(alice, k2, "prekey", "text", Bytes(Block)),
    Msg(alice, k1, "prekey", "text", EndsInPadding),
    Msg(bob, k1, "cipher", "sync", Bytes(Block - 1)),
    Msg(bob, k1, "cipher", "uncut", <<10>>),
    Msg(alice, k1, "cipher", "text", EndsInMarks)>>
=============================================================================
