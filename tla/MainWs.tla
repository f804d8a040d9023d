------------------------------- MODULE MainWs -------------------------------
(***************************************************************************)
(* The receive worker of main_ws.rs as a loop in time: connect with a      *)
(* backoff, run a session with its two keepalives, close, sleep.  What a   *)
(* request does is in Conversation.                                        *)
(*                                                                         *)
(* Time is kept as ages, in ticks.  The clock of the Ticktimer starts with *)
(* the device and is only compared with APP_KEEPALIVE_MS, so its age stops *)
(* there.  Connecting and closing take no time: a session may begin at any *)
(* time anyway.                                                            *)
(***************************************************************************)
EXTENDS Integers

CONSTANTS
  KEEPALIVE_MS, APP_KEEPALIVE_MS,
  RECONNECT_BACKOFF_INITIAL_MS, RECONNECT_BACKOFF_MAX_MS,
  DeviceIds,  \* the device ids the worker is spawned with
  Busy,       \* the longest a read with its timeout and the handling of its frame take
  MaxRead,    \* bound: the longest a read without a timeout takes
  MaxWaits    \* bound: sleeps that are counted after one another

ASSUME TimesAssumption ==
  /\ KEEPALIVE_MS \in Nat \ {0} /\ APP_KEEPALIVE_MS \in Nat \ {0}
  /\ RECONNECT_BACKOFF_INITIAL_MS \in Nat \ {0}
  /\ RECONNECT_BACKOFF_MAX_MS \in Nat
  /\ RECONNECT_BACKOFF_INITIAL_MS <= RECONNECT_BACKOFF_MAX_MS
  /\ Busy \in Nat /\ MaxRead \in Nat /\ Busy <= MaxRead
  /\ MaxWaits \in Nat /\ DeviceIds \subseteq Nat

VARIABLES
  pc,        \* where the worker is
  device,    \* the device id it was given
  backoff,   \* backoff_ms
  uptime,    \* the clock, up to APP_KEEPALIVE_MS
  pingAge,   \* ticks since last_ping_ms
  appAge,    \* ticks since last_app_keepalive_ms
  appSent,   \* "yes" when this session has sent an application keepalive
  timed,     \* "no" when this session's read timeout could not be set
  waits,     \* sleeps since a connection was established, or MaxWaits
  slept,     \* "no" when the last sleep could not be taken
  gap        \* ticks since the last attempt to connect, up to the initial backoff

vars == <<pc, device, backoff, uptime, pingAge, appAge, appSent, timed, waits, slept, gap>>

Least(a, b) == IF a < b THEN a ELSE b

Online == {"ping", "app", "read"}

TypeOK ==
  /\ pc \in Online \union {"start", "connect", "begin", "close", "sleep", "dead"}
  /\ device \in DeviceIds
  /\ backoff \in RECONNECT_BACKOFF_INITIAL_MS..RECONNECT_BACKOFF_MAX_MS
  /\ uptime \in 0..APP_KEEPALIVE_MS
  /\ pingAge \in 0..(KEEPALIVE_MS + MaxRead) /\ appAge \in 0..(APP_KEEPALIVE_MS + MaxRead)
  /\ appSent \in {"yes", "no"} /\ timed \in {"yes", "no"}
  /\ waits \in 0..MaxWaits
  /\ slept \in {"yes", "no"}
  /\ gap \in 0..RECONNECT_BACKOFF_INITIAL_MS

Init ==
  /\ pc = "start" /\ device \in DeviceIds
  /\ backoff = RECONNECT_BACKOFF_INITIAL_MS
  /\ uptime \in 0..APP_KEEPALIVE_MS
  /\ pingAge = 0 /\ appAge = 0 /\ appSent = "no" /\ timed = "yes"
  /\ waits = 0 /\ slept = "yes" /\ gap = RECONNECT_BACKOFF_INITIAL_MS

\* The clock and the gap move on by d.
Pass(d) ==
  /\ uptime' = Least(uptime + d, APP_KEEPALIVE_MS)
  /\ gap' = Least(gap + d, RECONNECT_BACKOFF_INITIAL_MS)

-----------------------------------------------------------------------------
(* worker_loop.                                                             *)

Start ==
  /\ pc = "start"
  /\ pc' = IF device = 0 \/ device > 127 THEN "dead" ELSE "connect"
  /\ UNCHANGED <<device, backoff, uptime, pingAge, appAge, appSent, timed, waits, slept, gap>>

\* Mutant: the backoff goes on growing after a connection.
ConnectOkNoReset ==
  /\ pc = "connect" /\ pc' = "begin"
  /\ waits' = 0 /\ gap' = 0
  /\ UNCHANGED <<device, backoff, uptime, pingAge, appAge, appSent, timed, slept>>

ConnectOk ==
  /\ pc = "connect" /\ pc' = "begin"
  /\ backoff' = RECONNECT_BACKOFF_INITIAL_MS /\ waits' = 0
  /\ gap' = 0
  /\ UNCHANGED <<device, uptime, pingAge, appAge, appSent, timed, slept>>

ConnectFails ==
  /\ pc = "connect" /\ pc' = "sleep"
  /\ gap' = 0
  /\ UNCHANGED <<device, backoff, uptime, pingAge, appAge, appSent, timed, waits, slept>>

\* Mutant: the backoff is doubled and not bounded.
NextBackoffUnbounded == backoff' = backoff * 2

NextBackoff == backoff' = Least(backoff * 2, RECONNECT_BACKOFF_MAX_MS)

Sleep ==
  /\ pc = "sleep" /\ pc' = "connect"
  /\ Pass(backoff) /\ slept' = "yes"
  /\ NextBackoff /\ waits' = Least(waits + 1, MaxWaits)
  /\ UNCHANGED <<device, pingAge, appAge, appSent, timed>>

\* Without a Ticktimer the worker goes on at once.
SleepFails ==
  /\ pc = "sleep" /\ pc' = "connect"
  /\ NextBackoff /\ waits' = Least(waits + 1, MaxWaits)
  /\ slept' = "no"
  /\ UNCHANGED <<device, uptime, pingAge, appAge, appSent, timed, gap>>

-----------------------------------------------------------------------------
(* run_session.                                                             *)

\* Mutant: the application keepalive is timed from the connect.
BeginLater ==
  /\ pc = "begin" /\ pc' = "ping"
  /\ pingAge' = 0 /\ appAge' = 0
  /\ appSent' = "no" /\ timed' \in {"yes", "no"}
  /\ UNCHANGED <<device, backoff, uptime, waits, slept, gap>>

\* last_app_keepalive_ms is the clock less APP_KEEPALIVE_MS, but not less
\* than zero.  A read timeout that cannot be set is only logged.
Begin ==
  /\ pc = "begin" /\ pc' = "ping"
  /\ pingAge' = 0 /\ appAge' = uptime
  /\ appSent' = "no" /\ timed' \in {"yes", "no"}
  /\ UNCHANGED <<device, backoff, uptime, waits, slept, gap>>

\* No Ticktimer: the session closes at once.
BeginFails ==
  /\ pc = "begin" /\ pc' = "close"
  /\ UNCHANGED <<device, backoff, uptime, pingAge, appAge, appSent, timed, waits, slept, gap>>

PingDue == pingAge >= KEEPALIVE_MS

\* A send that fails ends the session.
Ping ==
  /\ pc = "ping"
  /\ \/ PingDue /\ pc' = "app" /\ pingAge' = 0
     \/ PingDue /\ pc' = "close" /\ UNCHANGED pingAge
     \/ ~PingDue /\ pc' = "app" /\ UNCHANGED pingAge
  /\ UNCHANGED <<device, backoff, uptime, appAge, appSent, timed, waits, slept, gap>>

AppDue == appAge >= APP_KEEPALIVE_MS

AppKeepalive ==
  /\ pc = "app"
  /\ \/ AppDue /\ pc' = "read" /\ appAge' = 0 /\ appSent' = "yes"
     \/ AppDue /\ pc' = "close" /\ UNCHANGED <<appAge, appSent>>
     \/ ~AppDue /\ pc' = "read" /\ UNCHANGED <<appAge, appSent>>
  /\ UNCHANGED <<device, backoff, uptime, pingAge, timed, waits, slept, gap>>

\* How long a read and the handling of its frame may take.
ReadTimes == 0..(IF timed = "yes" THEN Busy ELSE MaxRead)

\* The read returns with a frame or times out; a request is handled.
Read ==
  /\ pc = "read" /\ pc' = "ping"
  /\ \E d \in ReadTimes :
       Pass(d) /\ pingAge' = pingAge + d /\ appAge' = appAge + d
  /\ UNCHANGED <<device, backoff, appSent, timed, waits, slept>>

\* A Close frame or an error.
ReadEnds ==
  /\ pc = "read" /\ pc' = "close"
  /\ \E d \in ReadTimes : Pass(d)
  /\ UNCHANGED <<device, backoff, pingAge, appAge, appSent, timed, waits, slept>>

\* The handling of a frame panics (Show of Conversation): the worker is gone.
ReadPanics ==
  /\ pc = "read" /\ pc' = "dead"
  /\ UNCHANGED <<device, backoff, uptime, pingAge, appAge, appSent, timed, waits, slept, gap>>

CloseDone ==
  /\ pc = "close" /\ pc' = "sleep"
  /\ UNCHANGED <<device, backoff, uptime, pingAge, appAge, appSent, timed, waits, slept, gap>>

-----------------------------------------------------------------------------
Next ==
  \/ Start \/ ConnectOk \/ ConnectFails \/ Sleep \/ SleepFails
  \/ Begin \/ BeginFails \/ Ping \/ AppKeepalive \/ Read \/ ReadEnds \/ ReadPanics
  \/ CloseDone

Spec == Init /\ [][Next]_vars

-----------------------------------------------------------------------------
(* Properties.                                                              *)

\* RECONNECT_BACKOFF_INITIAL_MS * 2^n.
Doubled[n \in 0..MaxWaits] ==
  IF n = 0 THEN RECONNECT_BACKOFF_INITIAL_MS ELSE 2 * Doubled[n - 1]

\* Two attempts to connect are at least the initial backoff apart, whether
\* the first failed or its session ended at once, unless no Ticktimer could
\* be had for the sleep; and the n-th attempt in a row that fails sleeps 2^n
\* times as long, up to the maximum, with a connection starting the count
\* again (worker_loop).
AttemptsSpaced ==
  /\ pc = "connect" /\ slept = "yes" => gap = RECONNECT_BACKOFF_INITIAL_MS
  /\ waits < MaxWaits =>
       backoff = Least(Doubled[waits], RECONNECT_BACKOFF_MAX_MS)

\* The worker never begins a read with a keepalive overdue.  So with a read
\* timeout the server hears from it, sends that block aside, at the latest an
\* interval, a read and the handling of its frame after the last time; without
\* one nothing bounds a read.  A session that starts once the device is up for
\* the interval reads nothing before it has sent an application keepalive, or
\* the server would hold messages back (run_session).
KeepalivesCurrent ==
  /\ pc = "read" =>
       /\ pingAge < KEEPALIVE_MS /\ appAge < APP_KEEPALIVE_MS
       /\ uptime = APP_KEEPALIVE_MS => appSent = "yes"
  /\ pc \in Online /\ timed = "yes" =>
       pingAge <= KEEPALIVE_MS + Busy /\ appAge <= APP_KEEPALIVE_MS + Busy

-----------------------------------------------------------------------------
(* What comments in the code say.                                           *)

\* "Fire the application-layer keepalive immediately on connect".
FirstKeepaliveImmediate == pc = "read" => appSent = "yes"

=============================================================================
