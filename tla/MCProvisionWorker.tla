-------------------------- MODULE MCProvisionWorker --------------------------
(***************************************************************************)
(* ProvisionWorker for TLC: two envelopes, so that a second one can follow *)
(* the first; a read timeout of two ticks and reads of up to three, so     *)
(* that a read ends before, at and after its timeout; a keepalive every    *)
(* five ticks and a deadline after eleven, neither a multiple of a read.   *)
(***************************************************************************)
EXTENDS ProvisionWorker

CONSTANTS e1, e2

MCEnvelopes == {e1, e2}
=============================================================================
