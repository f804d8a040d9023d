--------------------------- MODULE ProvisionWorker ---------------------------
(***************************************************************************)
(* Device linking up to the delivery of the ProvisionEnvelope: the main    *)
(* thread inside Manager::link and the provisioning WebSocket worker of    *)
(* manager/ws_server.rs, which talk over a Xous server (the SID).  The     *)
(* kernel's message queue and the WebSocket are modelled from their use.   *)
(*                                                                         *)
(* Time is counted in ticks of no particular length.  It passes while the  *)
(* worker sits in ws.read, which returns after any number of ticks up to   *)
(* the longest a read takes, and while the worker spins with a result      *)
(* nobody has collected; the other steps of its loop take no time.         *)
(***************************************************************************)
EXTENDS Integers

CONSTANTS
  Envelopes,   \* payloads of the Binary frames that fit WS_PROVISION_MAX
  READ_TIMEOUT, \* READ_TIMEOUT_MS, in ticks
  MaxRead,     \* the longest a read with a timeout takes, in ticks: the
               \* timeout starts anew with each piece of a frame
  KEEPALIVE,   \* KEEPALIVE_MS, in ticks
  DEADLINE,    \* deadline_secs, in ticks
  None         \* no result

ASSUME TimesAssumption ==
  /\ READ_TIMEOUT \in Nat \ {0} /\ MaxRead \in Nat /\ READ_TIMEOUT <= MaxRead
  /\ KEEPALIVE \in Nat \ {0} /\ DEADLINE \in Nat \ {0}

VARIABLES
  linkPc,        \* where the main thread is in Manager::link
  result,        \* what wait_and_take_binary returned to it
  wpc,           \* where the worker is in worker_loop
  queue,         \* messages sent to the SID and not yet received (a set:
                 \* the one sender blocks on each)
  sid,           \* the worker's server: "none", "live" or "destroyed"
  ws,            \* the provisioning WebSocket: "none", "open" or "closed"
  pending,       \* worker_loop's pending result
  waiter,        \* the lend_mut message worker_loop has parked
  readTimeout,   \* whether set_read_timeout succeeded
  now,           \* elapsed_ms since the spawn
  lastSend,      \* last_send_at
  first          \* the first result the worker produced (history)

linkVars == <<linkPc, result>>
ipcVars  == <<queue, sid>>
timeVars == <<now, lastSend, readTimeout>>
vars == <<linkPc, result, wpc, queue, sid, ws, pending, waiter, readTimeout,
          now, lastSend, first>>

Terminal == Envelopes \union {"Closed", "TimedOut", "Cancelled", "Error"}

ASSUME ValuesAssumption ==
  /\ None \notin Terminal \union {"wait"}
  /\ Envelopes \cap {"Closed", "TimedOut", "Cancelled", "Error"} = {}

\* The clock is counted no further than one read past the deadline.
MaxTime == DEADLINE + MaxRead

LoopPcs == {"recv", "deadline", "keepalive", "read", "deliver"}

TypeOK ==
  /\ linkPc \in {"connect", "uuid", "prepare", "spawn", "qr", "wait",
                 "blocked", "cancel", "cancelling", "closing", "done"}
  /\ result \in Terminal \union {None}
  /\ wpc \in LoopPcs \union {"none", "start", "closing", "exited", "bailed"}
  /\ queue \subseteq {"wait", "cancel"}
  /\ sid \in {"none", "live", "destroyed"}
  /\ ws \in {"none", "open", "closed"}
  /\ pending \in Terminal \union {None}
  /\ waiter \in {None, "wait"}
  /\ readTimeout \in {"set", "unset"}
  /\ now \in 0..MaxTime
  /\ lastSend \in 0..MaxTime
  /\ first \in Terminal \union {None}

Init ==
  /\ linkPc = "connect" /\ result = None
  /\ wpc = "none"
  /\ queue = {} /\ sid = "none"
  /\ ws = "none"
  /\ pending = None /\ waiter = None /\ first = None
  /\ readTimeout = "unset" /\ now = 0 /\ lastSend = 0

-----------------------------------------------------------------------------
(* The main thread, in Manager::link and SignalWsServer.                    *)

LinkGoto(from, to) == linkPc = from /\ linkPc' = to

\* SignalWS::new_provision: the connection is opened, or link returns.
LinkConnect ==
  /\ \/ LinkGoto("connect", "uuid") /\ ws' = "open"
     \/ LinkGoto("connect", "done") /\ UNCHANGED ws
  /\ UNCHANGED <<result, wpc, ipcVars, pending, waiter, timeVars, first>>

\* The uuid read and what is built from it before the spawn.  Each failure
\* closes the connection on the main thread, and link returns an error.
LinkSetup ==
  /\ \/ LinkGoto("uuid", "prepare")
     \/ LinkGoto("prepare", "spawn")
     \/ linkPc \in {"uuid", "prepare"} /\ linkPc' = "closing"
  /\ UNCHANGED <<result, wpc, ipcVars, ws, pending, waiter, timeVars, first>>

\* SignalWS::close on the main thread, once flush reports the end.
LinkCloseDone ==
  /\ LinkGoto("closing", "done")
  /\ ws' = "closed"
  /\ UNCHANGED <<result, wpc, ipcVars, pending, waiter, timeVars, first>>

\* SignalWsServer::spawn.  The server is created first; when the thread
\* cannot be spawned its closure is dropped, and with it the connection.
LinkSpawn ==
  /\ sid' = "live"
  /\ \/ LinkGoto("spawn", "qr") /\ wpc' = "start" /\ UNCHANGED ws
     \/ LinkGoto("spawn", "done") /\ ws' = "closed" /\ UNCHANGED wpc
  /\ UNCHANGED <<result, queue, pending, waiter, timeVars, first>>

\* The QR modal: the user dismisses it, or it fails.
LinkQrModal ==
  /\ LinkGoto("qr", "wait") \/ LinkGoto("qr", "cancel")
  /\ UNCHANGED <<result, wpc, ipcVars, ws, pending, waiter, timeVars, first>>

\* wait_and_take_binary: the page is lent to a live server, or the call
\* fails before anything is sent.
LinkWait ==
  /\ \/ /\ sid = "live"
        /\ LinkGoto("wait", "blocked")
        /\ queue' = queue \union {"wait"}
        /\ UNCHANGED result
     \/ /\ LinkGoto("wait", "cancel")
        /\ result' = "Error"
        /\ UNCHANGED queue
  /\ UNCHANGED <<wpc, sid, ws, pending, waiter, timeVars, first>>

\* Mutant: cancel sends its message and does not wait for the reply.
LinkCancelNoWait ==
  /\ LinkGoto("cancel", "done")
  /\ queue' = IF sid = "live" THEN queue \union {"cancel"} ELSE queue
  /\ UNCHANGED <<result, wpc, sid, ws, pending, waiter, timeVars, first>>

\* cancel: the blocking scalar reaches a live server, or fails; either way
\* the caller disconnects and goes on.
LinkCancel ==
  /\ \/ /\ sid = "live"
        /\ LinkGoto("cancel", "cancelling")
        /\ queue' = queue \union {"cancel"}
     \/ /\ sid # "live"
        /\ LinkGoto("cancel", "done")
        /\ UNCHANGED queue
  /\ UNCHANGED <<result, wpc, sid, ws, pending, waiter, timeVars, first>>

-----------------------------------------------------------------------------
(* The worker thread.                                                       *)

WorkerGoto(from, to) == wpc = from /\ wpc' = to

\* A read timeout that cannot be installed is only logged.
WorkerStart ==
  /\ WorkerGoto("start", "recv")
  /\ readTimeout' \in {"set", "unset"}
  /\ lastSend' = now
  /\ UNCHANGED <<linkVars, ipcVars, ws, pending, waiter, now, first>>

\* Ticktimer::new failed: the thread ends, the connection is dropped and
\* the server stays.
WorkerBail ==
  /\ WorkerGoto("start", "bailed")
  /\ ws' = "closed"
  /\ readTimeout' \in {"set", "unset"}
  /\ UNCHANGED <<linkVars, ipcVars, pending, waiter, now, lastSend, first>>

\* fill_buf: the page goes back holding r, or unmodified when it cannot be
\* decoded or replaced, which wait_and_take_binary reads as an error.
FillBuf(r) ==
  /\ result' \in {r, "Error"}
  /\ LinkGoto("blocked", "cancel")

RecvNothing ==
  /\ queue = {}
  /\ WorkerGoto("recv", "deadline")
  /\ UNCHANGED <<linkVars, ipcVars, ws, pending, waiter, timeVars, first>>

RecvWait ==
  /\ "wait" \in queue
  /\ queue' = queue \ {"wait"}
  /\ WorkerGoto("recv", "deadline")
  /\ \/ /\ pending # None
        /\ FillBuf(pending)
        /\ pending' = None
        /\ UNCHANGED waiter
     \/ /\ pending = None
        /\ waiter' = "wait"
        /\ UNCHANGED <<linkVars, pending>>
  /\ UNCHANGED <<sid, ws, timeVars, first>>

\* A parked page is returned as Cancelled, then the scalar is answered; an
\* answer that fails is logged, and the loop is left all the same.
RecvCancel ==
  /\ "cancel" \in queue
  /\ queue' = queue \ {"cancel"}
  /\ WorkerGoto("recv", "closing")
  /\ linkPc' \in {linkPc, IF linkPc = "cancelling" THEN "done" ELSE linkPc}
  /\ result' = IF waiter # None THEN "Cancelled" ELSE result
  /\ waiter' = None
  /\ UNCHANGED <<sid, ws, pending, timeVars, first>>

RecvError ==
  /\ WorkerGoto("recv", "closing")
  /\ UNCHANGED <<linkVars, ipcVars, ws, pending, waiter, timeVars, first>>

Produce(r) ==
  /\ pending' = r
  /\ first' = IF first = None THEN r ELSE first

\* Mutant: the deadline replaces a result that is already there.
CheckDeadlineAnyway ==
  /\ WorkerGoto("deadline", "keepalive")
  /\ IF now >= DEADLINE THEN Produce("TimedOut") ELSE UNCHANGED <<pending, first>>
  /\ UNCHANGED <<linkVars, ipcVars, ws, waiter, timeVars>>

\* Mutant: the deadline is only watched until the caller is parked.
CheckDeadlineUnparked ==
  /\ WorkerGoto("deadline", "keepalive")
  /\ IF pending = None /\ waiter = None /\ now >= DEADLINE
     THEN Produce("TimedOut")
     ELSE UNCHANGED <<pending, first>>
  /\ UNCHANGED <<linkVars, ipcVars, ws, waiter, timeVars>>

CheckDeadline ==
  /\ WorkerGoto("deadline", "keepalive")
  /\ IF pending = None /\ now >= DEADLINE
     THEN Produce("TimedOut")
     ELSE UNCHANGED <<pending, first>>
  /\ UNCHANGED <<linkVars, ipcVars, ws, waiter, timeVars>>

\* Mutant: the keepalive fires one cycle late.
KeepaliveLate == pending = None /\ now - lastSend > KEEPALIVE

KeepaliveDue == pending = None /\ now - lastSend >= KEEPALIVE

\* Mutant: the time of the next ping is stored as that of the last one.
CheckKeepaliveNext ==
  /\ WorkerGoto("keepalive", "read")
  /\ IF KeepaliveDue THEN lastSend' = now + KEEPALIVE ELSE UNCHANGED lastSend
  /\ UNCHANGED <<linkVars, ipcVars, ws, pending, waiter, now, readTimeout, first>>

CheckKeepalive ==
  /\ WorkerGoto("keepalive", "read")
  /\ \/ ~KeepaliveDue /\ UNCHANGED <<lastSend, pending, first>>
     \/ KeepaliveDue /\ lastSend' = now /\ UNCHANGED <<pending, first>>
     \/ KeepaliveDue /\ Produce("Error") /\ UNCHANGED lastSend
  /\ UNCHANGED <<linkVars, ipcVars, ws, waiter, now, readTimeout>>

\* A result is held already: the socket is left alone.
SkipRead ==
  /\ WorkerGoto("read", "deliver")
  /\ pending # None
  /\ UNCHANGED <<linkVars, ipcVars, ws, pending, waiter, timeVars, first>>

Elapse(n) == now' = IF now + n <= MaxTime THEN now + n ELSE MaxTime

\* The timeout ends the read, the later the more pieces of a frame came.
ReadTimesOut ==
  /\ WorkerGoto("read", "deliver")
  /\ pending = None /\ readTimeout = "set"
  /\ \E n \in READ_TIMEOUT..MaxRead : Elapse(n)
  /\ UNCHANGED <<linkVars, ipcVars, ws, pending, waiter, lastSend,
                 readTimeout, first>>

\* Mutant: the socket is read although a result is held already.
ReadReturnsAnyway ==
  /\ WorkerGoto("read", "deliver")
  /\ \E r \in Envelopes \union {"Closed", "Error"} : Produce(r)
  /\ UNCHANGED <<linkVars, ipcVars, ws, waiter, timeVars>>

\* A frame or a failure ends the read, at once or after any time: the
\* envelope, a frame over the limit, a Close, an I/O error, or a frame the
\* loop ignores.
ReadReturns ==
  /\ WorkerGoto("read", "deliver")
  /\ pending = None
  /\ \E n \in 0..(IF readTimeout = "set" THEN MaxRead ELSE DEADLINE) : Elapse(n)
  /\ \/ \E r \in Envelopes \union {"Closed", "Error"} : Produce(r)
     \/ UNCHANGED <<pending, first>>
  /\ UNCHANGED <<linkVars, ipcVars, ws, waiter, lastSend, readTimeout>>

\* Mutant: the page is filled and still held.
DeliverKeepWaiter ==
  /\ WorkerGoto("deliver", "recv")
  /\ IF pending # None /\ waiter # None
     THEN FillBuf(pending) /\ pending' = None
     ELSE UNCHANGED <<linkVars, pending>>
  /\ UNCHANGED <<ipcVars, ws, waiter, timeVars, first>>

\* Mutant: only an envelope is handed over.
DeliverEnvelope ==
  /\ WorkerGoto("deliver", "recv")
  /\ IF pending \in Envelopes /\ waiter # None
     THEN FillBuf(pending) /\ pending' = None /\ waiter' = None
     ELSE UNCHANGED <<linkVars, pending, waiter>>
  /\ UNCHANGED <<ipcVars, ws, timeVars, first>>

Deliver ==
  /\ WorkerGoto("deliver", "recv")
  /\ \/ /\ pending # None /\ waiter # None
        /\ FillBuf(pending)
        /\ pending' = None /\ waiter' = None
     \/ /\ pending = None \/ waiter = None
        /\ UNCHANGED <<linkVars, pending, waiter>>
  /\ UNCHANGED <<ipcVars, ws, timeVars, first>>

\* With an uncollected result the loop spins, and time passes.
Spin ==
  /\ wpc = "recv" /\ pending # None /\ now < DEADLINE
  /\ Elapse(1)
  /\ UNCHANGED <<linkVars, wpc, ipcVars, ws, pending, waiter, lastSend,
                 readTimeout, first>>

\* A server that goes wakes who is blocked on it with an error, which cancel
\* ignores.  Of a sender whose Cancel was taken and never answered nothing
\* is assumed.
ServerDestroyed ==
  /\ sid' = "destroyed" /\ queue' = {}
  /\ \/ linkPc \notin {"blocked", "cancelling"} /\ UNCHANGED linkVars
     \/ LinkGoto("blocked", "cancel") /\ result' = "Error"
     \/ LinkGoto("cancelling", "done") /\ UNCHANGED result
     \/ linkPc = "cancelling" /\ queue = {} /\ UNCHANGED linkVars

\* A server that cannot be destroyed is only logged: it stays with whatever
\* is queued, and a parked page is returned as it is dropped.
ServerStays ==
  /\ UNCHANGED ipcVars
  /\ IF waiter # None
     THEN LinkGoto("blocked", "cancel") /\ result' = "Error"
     ELSE UNCHANGED linkVars

\* ws.close ends once flush reports the end; then the server is destroyed.
WorkerExit ==
  /\ WorkerGoto("closing", "exited")
  /\ ws' = "closed"
  /\ waiter' = None /\ pending' = None
  /\ ServerDestroyed \/ ServerStays
  /\ UNCHANGED <<timeVars, first>>

-----------------------------------------------------------------------------
LinkStep == LinkConnect \/ LinkSetup \/ LinkSpawn \/ LinkWait \/ LinkCancel

\* The steps the worker takes on its own, whatever the server sends.
LoopStep ==
  \/ RecvNothing \/ RecvWait \/ RecvCancel
  \/ CheckDeadline \/ CheckKeepalive
  \/ SkipRead \/ ReadTimesOut \/ Deliver

WorkerStep ==
  \/ WorkerStart \/ WorkerBail \/ LoopStep
  \/ RecvError \/ ReadReturns \/ Spin \/ WorkerExit

\* The two ways the pair stops: both threads are through, or the worker is
\* gone without an answer and the main thread is blocked on it for ever.
Stopped ==
  /\ \/ linkPc = "done" /\ wpc \in {"none", "exited", "bailed"}
     \/ linkPc \in {"blocked", "cancelling"} /\ wpc \in {"bailed", "exited"}
  /\ UNCHANGED vars

Next == LinkStep \/ LinkCloseDone \/ LinkQrModal \/ WorkerStep \/ Stopped

Spec == Init /\ [][Next]_vars

\* Frames cannot arrive without end in no time at all.
ClockAdvances == (ReadTimesOut \/ ReadReturns) /\ now' # now

\* Both threads keep running.  Nothing is assumed of the user (LinkQrModal),
\* of the server's frames (ReadReturns) or of the end of a close handshake.
FairSpec ==
  /\ Spec
  /\ WF_vars(LinkStep)
  /\ WF_vars(WorkerStart \/ WorkerBail)
  /\ WF_vars(LoopStep)
  /\ SF_vars(ClockAdvances)

-----------------------------------------------------------------------------
(* Properties.                                                              *)

\* wait_and_take_binary blocks the main thread inside lend_mut.  Its page is
\* always somewhere the worker will find it: still queued, or parked as the
\* waiter, never both, and never parked for a caller that has gone on.
PageAccountedFor ==
  /\ waiter # None => linkPc = "blocked"
  /\ linkPc = "blocked" =>
       IF waiter # None THEN queue = {} ELSE queue = {"wait"}
  /\ linkPc = "cancelling" => queue = {"cancel"} \/ wpc \in {"closing", "exited"}

\* worker_loop keeps running after a delivery and may produce again; the
\* caller of link only ever sees the first result of the session (or Error
\* when the page came back unmodified), so a late TimedOut or Closed cannot
\* replace an envelope, nor a second envelope the first one.
FirstResultWins == result \in {None, first, "Error"}

\* A result waits in pending only while its caller has not been parked:
\* once the loop is back at the receive, a parked page and a result never
\* sit side by side.
NoResultWithheld == wpc \in {"recv", "closing", "exited"} => waiter = None \/ pending = None

\* The server drops an idle connection, and the keepalive is looked at only
\* between two reads.  With a read timeout, as long as the worker listens
\* for its first result, a ping waits for the read that is under way when it
\* falls due, and for nothing else: the silence stays below the interval and
\* the longest read together, and no read starts once it is over the interval.
KeepaliveCadence ==
  wpc \in LoopPcs /\ readTimeout = "set" /\ first = None =>
    /\ now - lastSend < KEEPALIVE + MaxRead
    /\ wpc = "read" => now - lastSend < KEEPALIVE

\* When link returns, the worker it started is no longer serving: it has
\* left its loop, and once neither thread can reach the connection any more
\* the connection is closed.
NothingLeftRunning ==
  linkPc = "done" =>
    /\ wpc \notin LoopPcs \union {"start"}
    /\ wpc # "closing" => ws # "open"

\* Once the QR modal is gone, link gets through its two blocking calls: the
\* envelope, the deadline or a failure releases the first, the worker's next
\* receive the second.  The exceptions are the worker without a timer, a
\* socket without a read timeout, a close handshake that never ends, a server
\* that cannot be destroyed and a Cancel whose answer failed.
LinkReturns ==
  linkPc \in {"wait", "blocked", "cancel", "cancelling"} ~>
    \/ linkPc = "done"
    \/ wpc \in {"bailed", "closing"}
    \/ wpc = "exited" /\ (sid = "live" \/ linkPc = "cancelling")
    \/ wpc \in LoopPcs /\ readTimeout = "unset"

\* The session the caller observes is one-shot: one server, one outcome,
\* one answer, in that order, whatever the worker goes on reading.
OneShot == INSTANCE OneShotSession
  WITH Outcomes <- Terminal, Failure <- "Error",
       server <- sid, outcome <- first, answer <- result

OneShotSpec == OneShot!Spec

-----------------------------------------------------------------------------
(* What comments in the code say.                                           *)

\* worker_loop, on Ticktimer::new failing: "the main thread's lend_mut will
\* surface an IPC error when the worker never replies".
BailSurfacesError == (linkPc = "blocked" /\ wpc = "bailed") ~> (linkPc # "blocked")

\* Manager::link, on cancel: "It blocks until the worker drains any parked
\* waiter, destroys its SID, and exits".
CancelWaitsForExit ==
  [][linkPc = "cancelling" /\ linkPc' # "cancelling" => sid' = "destroyed"]_vars

\* SignalWsServer::cancel: it is the only way to destroy the SID, "so every
\* link() exit path must call this": a live server has a worker behind it.
LiveServerHasWorker == sid = "live" => wpc # "none"

=============================================================================
