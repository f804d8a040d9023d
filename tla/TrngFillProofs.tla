--------------------------- MODULE TrngFillProofs ---------------------------
(***************************************************************************)
(* Every buffer is filled with the server's bytes, for all lengths, any    *)
(* number of threads and both backends; proofs.                            *)
(***************************************************************************)
EXTENDS TrngFill, TLAPS

\* What is left and what is fresh make up the buffer; nothing is left of a
\* request that is done, and only a v02 buffer above the words of a message
\* panics.
Accounted(r) ==
  /\ r.fresh + r.left = r.len
  /\ r.pc = "done" => r.left = 0
  /\ r.pc \in {"connect", "lookup", "fill"} => r.left > 0
  /\ r.pc = "panic" => r.backend = "v02" /\ r.len > 4 * BufWords

IInv ==
  /\ TrngTypeOK
  /\ \A t \in Threads : Accounted(req[t])
  /\ ConnectedBeforeUse

\* A message to the server keeps the account of the request.
LEMMA FilledAccounted ==
  ASSUME NEW r \in Request, Accounted(r), r.pc = "fill"
  PROVE  Filled(r) \in Request /\ Accounted(Filled(r)) /\ Filled(r).backend = r.backend
<1>1. CASE r.backend = "v03" \/ r.len < SmallLimit
  <2> DEFINE n == Smaller(r.left, 8)
  <2>1. Filled(r) = Scalar(r)
    BY <1>1 DEF Filled
  <2>2. n \in Nat /\ n > 0 /\ n <= r.left /\ n <= 8 /\ (r.left <= 4 => n <= 4)
    BY DEF Smaller, Accounted, Request
  <2> DEFINE width == IF r.left > 4 THEN 8 ELSE 4
  <2>3. n <= width /\ Smaller(n, width) = n
    BY <2>2 DEF Smaller, Request
  <2>4. Scalar(r) = Written(r, n, n, TRUE)
    BY <2>3 DEF Scalar
  <2>5. r.left - n \in Nat /\ r.fresh + n \in Nat /\ (r.left # n => r.left - n > 0)
    BY <2>2 DEF Request
  <2>6. Scalar(r) = [r EXCEPT !.left = r.left - n, !.fresh = r.fresh + n,
                              !.pc = IF r.left = n THEN "done" ELSE "fill"]
    BY <2>4 DEF Written
  <2> HIDE DEF n, width
  <2>7. Scalar(r) \in Request
    BY <2>5, <2>6 DEF Request
  <2> QED BY <2>1, <2>2, <2>5, <2>6, <2>7 DEF Request, Accounted
<1>2. CASE ~(r.backend = "v03" \/ r.len < SmallLimit) /\ r.left >= PageBytes
  <2>1. Filled(r) = [r EXCEPT !.pc = "panic"]
    BY <1>2 DEF Filled, Page, Written, PageBytes, BufWords
  <2>2. r.len > 4 * BufWords /\ r.backend = "v02"
    BY <1>2 DEF Request, Accounted, PageBytes, BufWords, Backends
  <2> QED BY <2>1, <2>2 DEF Request, Accounted
<1>3. CASE ~(r.backend = "v03" \/ r.len < SmallLimit) /\ ~(r.left >= PageBytes)
  <2> DEFINE words == IF r.left % 4 = 0 THEN r.left \div 4 ELSE 1 + r.left \div 4
  <2>1. words \in Nat /\ r.left <= 4 * words
    BY DEF Request
  <2>2. Smaller(r.left, 4 * words) = r.left
    BY <2>1 DEF Smaller, Request
  <2>3. Filled(r) = Written(r, r.left, r.left, r.left <= 4 * BufWords)
    BY <1>3, <2>2 DEF Filled, Remainder
  <2> HIDE DEF words
  <2>4. CASE r.left <= 4 * BufWords
    <3>1. r.left - r.left = 0 /\ r.fresh + r.left = r.len
      BY DEF Request, Accounted
    <3>2. Filled(r) = [r EXCEPT !.left = 0, !.fresh = r.len, !.pc = "done"]
      BY <2>3, <2>4, <3>1 DEF Written
    <3>3. [r EXCEPT !.left = 0, !.fresh = r.len, !.pc = "done"] \in Request
      BY DEF Request
    <3> QED BY <3>2, <3>3 DEF Request, Accounted
  <2>5. CASE ~(r.left <= 4 * BufWords)
    <3>1. Filled(r) = [r EXCEPT !.pc = "panic"]
      BY <2>3, <2>5 DEF Written
    <3>2. r.len > 4 * BufWords /\ r.backend = "v02"
      BY <1>3, <2>5 DEF Request, Accounted, BufWords, Backends
    <3> QED BY <3>1, <3>2 DEF Request, Accounted
  <2> QED BY <2>4, <2>5
<1> QED BY <1>1, <1>2, <1>3

LEMMA InitIInv == TrngInit => IInv
<1> SUFFICES ASSUME TrngInit PROVE IInv
  OBVIOUS
<1>1. NoRequest \in Request /\ Accounted(NoRequest) /\ NoRequest.pc = "idle"
  BY DEF NoRequest, Request, Backends, Accounted
<1> QED BY <1>1 DEF TrngInit, IInv, TrngTypeOK, ConnectedBeforeUse

\* A request for any number of bytes starts with its account in order.
LEMMA AskIInv ==
  ASSUME IInv, NEW t \in Threads, NEW b \in Backends, NEW n \in Nat, Ask(t, b, n)
  PROVE  IInv'
<1> DEFINE r == [pc |-> IF n = 0 THEN "done" ELSE "connect",
                 backend |-> b, len |-> n, left |-> n, fresh |-> 0]
<1>1. r \in Request /\ Accounted(r) /\ r.pc # "fill"
  BY DEF Request, Accounted
<1>2. req' = [req EXCEPT ![t] = r] /\ conn' = conn
  BY DEF Ask
<1> HIDE DEF r
<1> QED BY <1>1, <1>2 DEF IInv, TrngTypeOK, ConnectedBeforeUse

LEMMA StepIInv ==
  ASSUME IInv, NEW t \in Threads, TrngStep(t) \/ Return(t)
  PROVE  IInv'
<1> USE DEF IInv, TrngTypeOK
<1>1. CASE EnsureConn(t)
  <2> DEFINE r == [req[t] EXCEPT !.pc = IF conn[req[t].backend] = 0 THEN "lookup" ELSE "fill"]
  <2>1. r \in Request /\ Accounted(r) /\ r.backend = req[t].backend
    BY <1>1 DEF EnsureConn, Request, Accounted
  <2>2. r.pc = "fill" => conn[r.backend] = Trng
    BY <2>1 DEF Request
  <2>3. req' = [req EXCEPT ![t] = r] /\ conn' = conn
    BY <1>1 DEF EnsureConn
  <2> HIDE DEF r
  <2> QED BY <2>1, <2>2, <2>3 DEF ConnectedBeforeUse
<1>2. CASE StoreConn(t)
  <2> DEFINE r == [req[t] EXCEPT !.pc = "fill"]
  <2>1. r \in Request /\ Accounted(r) /\ r.backend = req[t].backend /\ r.pc = "fill"
    BY <1>2 DEF StoreConn, Request, Accounted
  <2>2. req' = [req EXCEPT ![t] = r] /\ conn' = [conn EXCEPT ![r.backend] = Trng]
    BY <1>2, <2>1 DEF StoreConn
  <2>3. r.backend \in Backends /\ \A u \in Threads : req[u].backend \in Backends
    BY <2>1 DEF Request
  <2> HIDE DEF r
  <2>4. ConnectedBeforeUse'
    BY <2>1, <2>2, <2>3 DEF ConnectedBeforeUse
  <2>5. conn' \in [Backends -> {0, Trng}] /\ req' \in [Threads -> Request]
    BY <2>1, <2>2, <2>3
  <2> QED BY <2>1, <2>2, <2>4, <2>5
<1>3. CASE Fill(t)
  <2>1. Filled(req[t]) \in Request /\ Accounted(Filled(req[t])) /\ Filled(req[t]).backend = req[t].backend
    BY <1>3, FilledAccounted DEF Fill
  <2>2. req' = [req EXCEPT ![t] = Filled(req[t])] /\ conn' = conn /\ req[t].pc = "fill"
    BY <1>3 DEF Fill
  <2> QED BY <2>1, <2>2 DEF ConnectedBeforeUse
<1>4. CASE Return(t)
  <2>1. NoRequest \in Request /\ Accounted(NoRequest) /\ NoRequest.pc = "idle"
    BY DEF NoRequest, Request, Backends, Accounted
  <2> QED BY <1>4, <2>1 DEF Return, ConnectedBeforeUse
<1> QED BY <1>1, <1>2, <1>3, <1>4 DEF TrngStep

LEMMA NextIInv == IInv /\ [TrngNext]_trngVars => IInv'
<1> SUFFICES ASSUME IInv, [TrngNext]_trngVars PROVE IInv'
  OBVIOUS
<1>1. CASE TrngNext
  <2>1. PICK t \in Threads :
          (\E b \in Backends : \E n \in Lens[b] : Ask(t, b, n)) \/ TrngStep(t) \/ Return(t)
    BY <1>1 DEF TrngNext
  <2>2. CASE \E b \in Backends : \E n \in Lens[b] : Ask(t, b, n)
    <3>0. PICK b \in Backends : \E n \in Lens[b] : Ask(t, b, n)
      BY <2>2
    <3>1. PICK n \in Lens[b] : Ask(t, b, n)
      BY <3>0
    <3>2. n \in Nat
      BY LensAssumption
    <3> QED BY <3>1, <3>2, AskIInv
  <2>3. CASE TrngStep(t) \/ Return(t)
    BY <2>3, StepIInv
  <2> QED BY <2>1, <2>2, <2>3
<1>2. CASE UNCHANGED trngVars
  BY <1>2 DEF trngVars, IInv, TrngTypeOK, ConnectedBeforeUse
<1> QED BY <1>1, <1>2

\* The account of every request is in order in every reachable state
\* (fill_bytes, fill_from_trng).
THEOREM TrngAccounted == TrngSpec => []IInv
<1> QED BY InitIInv, NextIInv, PTL DEF TrngSpec

\* What IInv says of a request, put as the properties.
LEMMA IInvImplies == IInv => EveryByteFresh /\ ConnectedBeforeUse /\ OnlyLargePanics
<1> SUFFICES ASSUME IInv PROVE EveryByteFresh /\ OnlyLargePanics
  BY DEF IInv
<1>1. \A t \in Threads : req[t] \in Request /\ Accounted(req[t])
  BY DEF IInv, TrngTypeOK
<1> QED BY <1>1 DEF EveryByteFresh, OnlyLargePanics, Accounted, Request

\* A request of any length is filled with the server's bytes only
\* (fill_bytes, fill_from_trng).
THEOREM AllBytesFresh == TrngSpec => []EveryByteFresh
<1> QED BY TrngAccounted, IInvImplies, PTL

\* No message goes out before there is a connection, for any number of
\* threads (ensure_trng_conn).
THEOREM AlwaysConnected == TrngSpec => []ConnectedBeforeUse
<1> QED BY TrngAccounted, IInvImplies, PTL

\* Of all lengths only a v02 one above the words of a message panics
\* (fill_buf and the remainder in fill_bytes).
THEOREM PanicsAreLarge == TrngSpec => []OnlyLargePanics
<1> QED BY TrngAccounted, IInvImplies, PTL
=============================================================================
