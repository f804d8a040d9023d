------------------------------ MODULE TrngFill ------------------------------
(***************************************************************************)
(* How a request for random bytes is filled from the TRNG server of Xous,  *)
(* by the two backends of the program: "v03" (src/getrandom_xous.rs, used  *)
(* by sigchat and libsignal) and "v02" (imports/getrandom-02, used by older *)
(* dependencies).  A step is a message to the server and what the loop     *)
(* around it does with the answer.  A request keeps how many bytes are     *)
(* still to be written and how many of the written ones are the server's.  *)
(***************************************************************************)
EXTENDS Integers

CONSTANTS
  Threads,   \* the threads that ask for random bytes
  Lens       \* the lengths they ask each backend for

Backends == {"v02", "v03"}

ASSUME LensAssumption == Lens \in [Backends -> SUBSET Nat]

VARIABLES
  conn,      \* TRNG_CONN of each backend: 0, or the connection to the server
  req        \* the request of each thread

trngVars == <<conn, req>>

Trng == 1

SmallLimit == 64    \* v02 sends scalar messages below
PageBytes == 4096   \* and memory messages of a page from there on,
BufWords == 1020    \* whose buffer holds this many words

Request == [pc : {"idle", "connect", "lookup", "fill", "done", "panic"},
            backend : Backends, len : Nat, left : Nat, fresh : Nat]

NoRequest == [pc |-> "idle", backend |-> "v03", len |-> 0, left |-> 0, fresh |-> 0]

TrngTypeOK ==
  /\ conn \in [Backends -> {0, Trng}]
  /\ req \in [Threads -> Request]

TrngInit ==
  /\ conn = [b \in Backends |-> 0]
  /\ req = [t \in Threads |-> NoRequest]

Smaller(m, n) == IF m < n THEN m ELSE n

-----------------------------------------------------------------------------
\* The entry points: an empty buffer needs no call.
Ask(t, b, n) ==
  /\ req[t].pc = "idle"
  /\ req' = [req EXCEPT ![t] = [pc |-> IF n = 0 THEN "done" ELSE "connect",
                                backend |-> b, len |-> n, left |-> n, fresh |-> 0]]
  /\ UNCHANGED conn

\* Mutant: whoever comes first claims the connection before it has one.
EnsureConnClaims(t) ==
  /\ req[t].pc = "connect"
  /\ req' = [req EXCEPT ![t].pc =
       IF conn[req[t].backend] # 0 \/ \E u \in Threads : req[u].pc = "lookup"
       THEN "fill" ELSE "lookup"]
  /\ UNCHANGED conn

\* ensure_trng_conn loads TRNG_CONN and, when there is none, asks for one ...
EnsureConn(t) ==
  /\ req[t].pc = "connect"
  /\ req' = [req EXCEPT ![t].pc = IF conn[req[t].backend] = 0 THEN "lookup" ELSE "fill"]
  /\ UNCHANGED conn

\* ... and stores it, as another thread may have done in the meantime.
StoreConn(t) ==
  /\ req[t].pc = "lookup"
  /\ conn' = [conn EXCEPT ![req[t].backend] = Trng]
  /\ req' = [req EXCEPT ![t].pc = "fill"]

\* The request after n more bytes, g of which the server has answered; a
\* slice that is too short panics.
Written(r, n, g, fits) ==
  IF ~fits THEN [r EXCEPT !.pc = "panic"]
  ELSE [r EXCEPT !.left = @ - n, !.fresh = @ + g, !.pc = IF r.left = n THEN "done" ELSE "fill"]

\* Mutant: five bytes are taken for a tail that four can fill.
ScalarTailShort(r) ==
  LET width == IF r.left > 5 THEN 8 ELSE 4
      n == Smaller(r.left, 8)
  IN Written(r, n, Smaller(n, width), n <= width)

\* next_u64 while eight bytes are left and for a tail of more than four,
\* next_u32 for a smaller one; the tail takes a prefix of the answer.
Scalar(r) ==
  LET width == IF r.left > 4 THEN 8 ELSE 4
      n == Smaller(r.left, 8)
  IN Written(r, n, Smaller(n, width), n <= width)

\* fill_buf: a page is filled through a buffer of BufWords words.
Page(r) ==
  LET words == PageBytes \div 4
  IN Written(r, PageBytes, 4 * words, words <= BufWords)

\* Mutant: the words asked for are the whole ones of the remainder.
RemainderRoundsDown(r) ==
  LET words == r.left \div 4
  IN Written(r, r.left, Smaller(r.left, 4 * words), r.left <= 4 * BufWords)

\* The remainder is copied from one buffer: with a last word for what is
\* not a multiple of four, and zeroes behind the words that were asked for.
Remainder(r) ==
  LET words == IF r.left % 4 = 0 THEN r.left \div 4 ELSE 1 + r.left \div 4
  IN Written(r, r.left, Smaller(r.left, 4 * words), r.left <= 4 * BufWords)

\* fill_from_trng, and fill_bytes, which chooses by the length it was given.
Filled(r) ==
  IF r.backend = "v03" \/ r.len < SmallLimit THEN Scalar(r)
  ELSE IF r.left >= PageBytes THEN Page(r) ELSE Remainder(r)

Fill(t) ==
  /\ req[t].pc = "fill"
  /\ req' = [req EXCEPT ![t] = Filled(@)]
  /\ UNCHANGED conn

TrngStep(t) == EnsureConn(t) \/ StoreConn(t) \/ Fill(t)

\* The caller goes on with its buffer.
Return(t) ==
  /\ req[t].pc = "done"
  /\ req' = [req EXCEPT ![t] = NoRequest]
  /\ UNCHANGED conn

TrngNext ==
  \E t \in Threads :
    \/ \E b \in Backends : \E n \in Lens[b] : Ask(t, b, n)
    \/ TrngStep(t) \/ Return(t)

TrngSpec == TrngInit /\ [][TrngNext]_trngVars

-----------------------------------------------------------------------------
(* Properties.                                                              *)

\* A request that returns has all its bytes from the server, whatever its
\* length and backend: no byte of the zeroed message buffer, or of the
\* caller's, is handed out as random (fill_bytes, fill_from_trng).
EveryByteFresh ==
  \A t \in Threads : req[t].pc = "done" => req[t].left = 0 /\ req[t].fresh = req[t].len

\* No message is sent before there is a connection, with two threads in
\* ensure_trng_conn at once too.
ConnectedBeforeUse ==
  \A t \in Threads : req[t].pc = "fill" => conn[req[t].backend] = Trng

\* Only a v02 request that does not fit the words of one message buffer
\* panics: no slice is shorter than what is copied from or to it.
OnlyLargePanics ==
  \A t \in Threads :
    req[t].pc = "panic" => req[t].backend = "v02" /\ req[t].len > 4 * BufWords
=============================================================================
