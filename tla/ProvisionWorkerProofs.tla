------------------------ MODULE ProvisionWorkerProofs ------------------------
(***************************************************************************)
(* Theorems of ProvisionWorker for every keepalive, deadline and set of    *)
(* envelopes.  The argument is one inductive invariant: where each thread  *)
(* is determines what the server's queue holds and where the page is, and  *)
(* as long as the caller has no answer the worker's pending result is the  *)
(* first one it produced.                                                  *)
(***************************************************************************)
EXTENDS ProvisionWorker, TLAPS

BeforeSpawn == {"connect", "uuid", "prepare", "spawn"}
Unanswered  == BeforeSpawn \union {"qr", "wait", "blocked"}

\* The server's life follows the two threads.
SidShape ==
  /\ linkPc \in BeforeSpawn => sid = "none" /\ wpc = "none"
  /\ linkPc \in {"qr", "wait", "blocked", "cancel", "cancelling"} =>
       sid # "none" /\ wpc # "none"
  /\ wpc \in LoopPcs \union {"start", "closing", "bailed"} => sid = "live"
  /\ wpc = "exited" => sid # "none"
  /\ sid = "destroyed" => wpc = "exited"
  /\ linkPc = "closing" => sid = "none" /\ wpc = "none"
  /\ sid = "none" => wpc = "none" /\ first = None

\* The queue holds what the main thread is blocked on, and nothing else.
QueueShape ==
  /\ linkPc = "blocked" => queue = IF waiter # None THEN {} ELSE {"wait"}
  /\ linkPc = "cancelling" =>
       \/ queue = {"cancel"}
       \/ queue = {} /\ wpc \in {"closing", "exited"}
  /\ linkPc \notin {"blocked", "cancelling"} => queue = {}
  /\ waiter # None => linkPc = "blocked"

\* The result that waits for the caller is the first one.
PendingIsFirst ==
  /\ linkPc \in Unanswered \union {"closing"} => result = None
  /\ result = None /\ wpc \notin {"exited", "closing"} => pending = first
  /\ wpc \in {"none", "start", "bailed"} => pending = None

\* A connection is there once opened, and closed by a worker that ends.
WsShape ==
  /\ linkPc = "connect" => ws = "none"
  /\ wpc \in {"exited", "bailed"} => ws = "closed"

IInv == /\ TypeOK /\ SidShape /\ QueueShape /\ PendingIsFirst /\ WsShape
        /\ FirstResultWins /\ NothingLeftRunning

LEMMA InitIInv == Init => IInv
<1> SUFFICES ASSUME Init PROVE IInv
  OBVIOUS
<1> USE DEF Init
<1>1. TypeOK BY TimesAssumption DEF TypeOK, MaxTime
<1>2. SidShape BY DEF SidShape, BeforeSpawn, LoopPcs
<1>3. QueueShape BY DEF QueueShape
<1>4. PendingIsFirst BY DEF PendingIsFirst, Unanswered, BeforeSpawn
<1>5. WsShape BY DEF WsShape
<1>6. FirstResultWins /\ NothingLeftRunning
  BY DEF FirstResultWins, NothingLeftRunning, LoopPcs
<1> QED BY <1>1, <1>2, <1>3, <1>4, <1>5, <1>6 DEF IInv

\* Time stays within its bound.
LEMMA ElapseRange ==
  ASSUME TypeOK, NEW n \in Nat, Elapse(n)
  PROVE  now' \in 0..MaxTime
  BY TimesAssumption DEF TypeOK, Elapse, MaxTime

\* The steps of the main thread.
LEMMA LinkIInv ==
  ASSUME IInv, LinkStep \/ LinkCloseDone \/ LinkQrModal
  PROVE  IInv'
<1> USE ValuesAssumption
        DEF IInv, TypeOK, SidShape, QueueShape, PendingIsFirst, WsShape,
            FirstResultWins, NothingLeftRunning, LoopPcs, BeforeSpawn,
            Unanswered, LinkGoto, ipcVars, timeVars, Terminal
<1>1. CASE LinkConnect BY <1>1 DEF LinkConnect
<1>2. CASE LinkSetup BY <1>2 DEF LinkSetup
<1>3. CASE LinkSpawn BY <1>3 DEF LinkSpawn
<1>4. CASE LinkWait
  <2>1. CASE linkPc' = "blocked"
    <3>1. queue' = {"wait"} BY <1>4, <2>1 DEF LinkWait
    <3> QED BY <1>4, <2>1, <3>1 DEF LinkWait
  <2>2. CASE linkPc' = "cancel"
    <3>1. result' = "Error" /\ queue' = {} BY <1>4, <2>2 DEF LinkWait
    <3> QED BY <1>4, <2>2, <3>1 DEF LinkWait
  <2> QED BY <1>4, <2>1, <2>2 DEF LinkWait
<1>5. CASE LinkCancel
  <2>1. CASE linkPc' = "cancelling"
    <3>1. queue' = {"cancel"} BY <1>5, <2>1 DEF LinkCancel
    <3> QED BY <1>5, <2>1, <3>1 DEF LinkCancel
  <2>2. CASE linkPc' = "done"
    <3>1. sid = "destroyed" /\ wpc = "exited" /\ queue' = {}
      BY <1>5, <2>2 DEF LinkCancel
    <3> QED BY <1>5, <2>2, <3>1 DEF LinkCancel
  <2> QED BY <1>5, <2>1, <2>2 DEF LinkCancel
<1>6. CASE LinkCloseDone BY <1>6 DEF LinkCloseDone
<1>7. CASE LinkQrModal BY <1>7 DEF LinkQrModal
<1> QED BY <1>1, <1>2, <1>3, <1>4, <1>5, <1>6, <1>7 DEF LinkStep

\* The steps of the worker thread.
LEMMA WorkerIInv ==
  ASSUME IInv, WorkerStep
  PROVE  IInv'
<1> USE ValuesAssumption
        DEF IInv, TypeOK, SidShape, QueueShape, PendingIsFirst, WsShape,
            FirstResultWins, NothingLeftRunning, LoopPcs, BeforeSpawn,
            Unanswered, LinkGoto, WorkerGoto, FillBuf, Produce,
            linkVars, ipcVars, timeVars, Terminal
<1>1. CASE WorkerStart BY <1>1 DEF WorkerStart
<1>2. CASE WorkerBail BY <1>2 DEF WorkerBail
<1>3. CASE RecvNothing BY <1>3 DEF RecvNothing
<1>4. CASE RecvWait
  <2>1. linkPc = "blocked" /\ queue = {"wait"} /\ queue' = {}
    BY <1>4 DEF RecvWait
  <2>2. CASE pending # None BY <1>4, <2>1, <2>2 DEF RecvWait
  <2>3. CASE pending = None BY <1>4, <2>1, <2>3 DEF RecvWait
  <2> QED BY <2>2, <2>3
<1>5. CASE RecvCancel BY <1>5 DEF RecvCancel
<1>6. CASE RecvError BY <1>6 DEF RecvError
<1>7. CASE CheckDeadline BY <1>7 DEF CheckDeadline
<1>8. CASE CheckKeepalive BY <1>8 DEF CheckKeepalive, KeepaliveDue
<1>9. CASE SkipRead BY <1>9 DEF SkipRead
<1>10. CASE ReadTimesOut
  <2>1. now' \in 0..MaxTime
    BY <1>10, ElapseRange, TimesAssumption DEF ReadTimesOut
  <2> QED BY <1>10, <2>1 DEF ReadTimesOut
<1>11. CASE ReadReturns
  <2>1. now' \in 0..MaxTime
    BY <1>11, ElapseRange, TimesAssumption DEF ReadReturns
  <2> QED BY <1>11, <2>1 DEF ReadReturns
<1>12. CASE Deliver BY <1>12 DEF Deliver
<1>13. CASE Spin BY <1>13, ElapseRange DEF Spin
<1>14. CASE WorkerExit
  <2>1. CASE ServerDestroyed BY <1>14, <2>1 DEF WorkerExit, ServerDestroyed
  <2>2. CASE ServerStays BY <1>14, <2>2 DEF WorkerExit, ServerStays
  <2> QED BY <1>14, <2>1, <2>2 DEF WorkerExit
<1> QED BY <1>1, <1>2, <1>3, <1>4, <1>5, <1>6, <1>7, <1>8, <1>9, <1>10,
           <1>11, <1>12, <1>13, <1>14 DEF WorkerStep, LoopStep

LEMMA StepIInv == IInv /\ [Next]_vars => IInv'
<1> SUFFICES ASSUME IInv, [Next]_vars PROVE IInv'
  OBVIOUS
<1>1. CASE UNCHANGED vars
  BY <1>1 DEF vars, IInv, TypeOK, SidShape, QueueShape, PendingIsFirst,
              WsShape, FirstResultWins, NothingLeftRunning
<1> QED BY <1>1, LinkIInv, WorkerIInv DEF Next, Stopped

LEMMA Invariance == Spec => []IInv
  BY InitIInv, StepIInv, PTL DEF Spec

\* Every variable keeps its type.
THEOREM TypeCorrect == Spec => []TypeOK
<1>1. IInv => TypeOK BY DEF IInv
<1> QED BY <1>1, Invariance, PTL

\* link never sees anything but the first result of its session, or the
\* failure to read it (worker_loop goes on producing after a delivery).
THEOREM FirstResult == Spec => []FirstResultWins
<1>1. IInv => FirstResultWins BY DEF IInv
<1> QED BY <1>1, Invariance, PTL

\* The blocked main thread's page is queued or parked, never lost.
THEOREM PageSafe == Spec => []PageAccountedFor
<1>1. IInv => PageAccountedFor BY DEF IInv, QueueShape, PageAccountedFor
<1> QED BY <1>1, Invariance, PTL

\* When link has returned no worker loop serves its server any more, and
\* the connection is closed or being closed.
THEOREM NoneLeftRunning == Spec => []NothingLeftRunning
<1>1. IInv => NothingLeftRunning BY DEF IInv
<1> QED BY <1>1, Invariance, PTL

\* The pair of threads implements the one-shot session of OneShotSession.
THEOREM ImplementsOneShot == Spec => OneShotSpec
<1>1. Init => OneShot!Init
  BY DEF Init, OneShot!Init
<1>2. IInv /\ [Next]_vars => [OneShot!Next]_(OneShot!vars)
  <2> SUFFICES ASSUME IInv, [Next]_vars
               PROVE  [OneShot!Next]_(OneShot!vars)
    OBVIOUS
  <2> USE ValuesAssumption
          DEF IInv, OneShot!Next, OneShot!vars, SidShape, PendingIsFirst,
              QueueShape, LoopPcs, BeforeSpawn, Unanswered, LinkGoto,
              WorkerGoto, linkVars, ipcVars, timeVars
  <2>1. CASE LinkStep \/ LinkCloseDone \/ LinkQrModal
    <3>1. CASE LinkSpawn
      BY <3>1 DEF LinkSpawn, OneShot!Open
    <3>2. CASE LinkWait
      BY <3>2 DEF LinkWait, OneShot!Answer, OneShot!Refuse, Terminal, TypeOK
    <3>3. CASE LinkConnect \/ LinkSetup \/ LinkCancel \/ LinkCloseDone
               \/ LinkQrModal
      BY <3>3 DEF LinkConnect, LinkSetup, LinkCancel, LinkCloseDone,
                  LinkQrModal
    <3> QED BY <2>1, <3>1, <3>2, <3>3 DEF LinkStep
  <2>2. CASE WorkerStep
    <3>1. CASE WorkerStart \/ WorkerBail \/ RecvNothing \/ RecvError
               \/ SkipRead \/ ReadTimesOut \/ Spin
      BY <3>1 DEF WorkerStart, WorkerBail, RecvNothing, RecvError, SkipRead,
                  ReadTimesOut, Spin
    <3>2. CASE CheckDeadline \/ CheckKeepalive \/ ReadReturns
      BY <3>2 DEF CheckDeadline, CheckKeepalive, ReadReturns, Produce,
                  OneShot!Reach, Terminal
    <3>3. CASE RecvWait \/ RecvCancel \/ Deliver
      BY <3>3 DEF RecvWait, RecvCancel, Deliver, FillBuf, OneShot!Answer,
                  Terminal
    <3>4. CASE WorkerExit
      <4>1. CASE ServerDestroyed
        BY <3>4, <4>1 DEF WorkerExit, ServerDestroyed, OneShot!Close
      <4>2. CASE ServerStays
        BY <3>4, <4>2 DEF WorkerExit, ServerStays, OneShot!Answer, Terminal
      <4> QED BY <3>4, <4>1, <4>2 DEF WorkerExit
    <3> QED BY <2>2, <3>1, <3>2, <3>3, <3>4 DEF WorkerStep, LoopStep
  <2>3. CASE UNCHANGED vars
    BY <2>3 DEF vars
  <2> QED BY <2>1, <2>2, <2>3 DEF Next, Stopped
<1> QED BY <1>1, <1>2, Invariance, PTL DEF Spec, OneShotSpec, OneShot!Spec

-----------------------------------------------------------------------------
(* The worker's pace: what it holds back, and how long it stays silent.     *)

\* A ping falls due between two reads; a read that starts before it is due
\* ends at most MaxRead ticks later.
SilenceBounded ==
  /\ pending # None => first # None
  /\ wpc = "read" /\ readTimeout = "set" /\ first = None =>
       now - lastSend < KEEPALIVE

Paced == NoResultWithheld /\ KeepaliveCadence /\ SilenceBounded

LEMMA InitPaced == Init => Paced
  BY DEF Init, Paced, NoResultWithheld, KeepaliveCadence, SilenceBounded,
         LoopPcs

\* The main thread touches neither the clock nor what the worker holds.
LEMMA LinkPaced ==
  ASSUME IInv, Paced, LinkStep \/ LinkCloseDone \/ LinkQrModal
  PROVE  Paced'
<1>1. /\ UNCHANGED <<timeVars, pending, waiter, first>>
      /\ UNCHANGED wpc \/ wpc' = "start"
  BY DEF LinkStep, LinkConnect, LinkSetup, LinkSpawn, LinkWait, LinkCancel,
         LinkCloseDone, LinkQrModal
<1> QED
  BY <1>1 DEF Paced, NoResultWithheld, KeepaliveCadence, SilenceBounded,
              timeVars, LoopPcs

\* A read with a timeout lets no more than MaxRead ticks pass.
LEMMA ElapseAtMost ==
  ASSUME TypeOK, NEW n \in 0..MaxRead, Elapse(n)
  PROVE  now' <= now + MaxRead
  BY TimesAssumption DEF TypeOK, Elapse, MaxTime

LEMMA OneReadMore ==
  ASSUME NEW k \in Int, NEW m \in Int, NEW n \in Int, NEW l \in Int,
         NEW r \in Int, m - l < k, n <= m + r
  PROVE  n - l < k + r
  OBVIOUS

LEMMA WorkerPaced ==
  ASSUME IInv, Paced, WorkerStep
  PROVE  Paced'
<1> USE ValuesAssumption, TimesAssumption
        DEF IInv, TypeOK, PendingIsFirst, QueueShape, Paced,
            NoResultWithheld, KeepaliveCadence, SilenceBounded, LoopPcs,
            WorkerGoto, Produce, timeVars, Terminal
<1>1. CASE WorkerStart BY <1>1 DEF WorkerStart
<1>2. CASE WorkerBail BY <1>2 DEF WorkerBail
<1>12. CASE WorkerExit BY <1>12 DEF WorkerExit
<1>3. CASE RecvError \/ SkipRead
  BY <1>3 DEF RecvError, SkipRead
<1>4. CASE RecvWait BY <1>4 DEF RecvWait
<1>5. CASE RecvCancel BY <1>5 DEF RecvCancel
<1>6. CASE CheckDeadline BY <1>6 DEF CheckDeadline
<1>7. CASE CheckKeepalive BY <1>7 DEF CheckKeepalive, KeepaliveDue
<1>8. CASE ReadTimesOut \/ ReadReturns
  <2>1. /\ wpc = "read" /\ wpc' = "deliver" /\ pending = None
        /\ UNCHANGED <<lastSend, readTimeout>>
        /\ pending' # None => first' # None
        /\ first' = None => first = None
        /\ readTimeout = "set" => \E n \in 0..MaxRead : Elapse(n)
        /\ \E n \in Nat : Elapse(n)
    BY <1>8 DEF ReadTimesOut, ReadReturns
  <2>2. readTimeout = "set" => now' <= now + MaxRead
    BY <2>1, ElapseAtMost
  <2>3. now' \in 0..MaxTime
    BY <2>1, ElapseRange
  <2>4. KeepaliveCadence'
    <3> SUFFICES ASSUME readTimeout = "set", first = None
                 PROVE  now' - lastSend < KEEPALIVE + MaxRead
      BY <2>1
    <3>1. now - lastSend < KEEPALIVE
      BY <2>1
    <3>2. now' <= now + MaxRead
      BY <2>2
    <3>3. /\ now \in Int /\ now' \in Int /\ lastSend \in Int
          /\ KEEPALIVE \in Int /\ MaxRead \in Int
      BY <2>3 DEF MaxTime
    <3> QED BY ONLY <3>1, <3>2, <3>3, OneReadMore
  <2> QED BY <2>1, <2>4
<1>9. CASE RecvNothing
  BY <1>9 DEF RecvNothing
<1>10. CASE Deliver BY <1>10 DEF Deliver
<1>11. CASE Spin BY <1>11 DEF Spin
<1> QED BY <1>1, <1>2, <1>3, <1>4, <1>5, <1>6, <1>7, <1>8, <1>9, <1>10,
           <1>11, <1>12 DEF WorkerStep, LoopStep

LEMMA PacedInvariance == Spec => []Paced
<1>1. IInv /\ Paced /\ [Next]_vars => Paced'
  <2> SUFFICES ASSUME IInv, Paced, [Next]_vars PROVE Paced'
    OBVIOUS
  <2>1. CASE UNCHANGED vars
    BY <2>1 DEF vars, Paced, NoResultWithheld, KeepaliveCadence,
                SilenceBounded
  <2> QED BY <2>1, LinkPaced, WorkerPaced DEF Next, Stopped
<1> QED BY <1>1, InitPaced, Invariance, PTL DEF Spec

\* No result waits beside the parked caller it is for (worker_loop answers
\* at both ends of a cycle).
THEOREM ResultsAreHandedOver == Spec => []NoResultWithheld
<1>1. Paced => NoResultWithheld BY DEF Paced
<1> QED BY <1>1, PacedInvariance, PTL

\* As long as the worker listens for its first result under a read timeout,
\* no read starts once a ping is due, and the silence stays below the
\* interval and one read together, whatever the interval, the timeout and the
\* time a read takes are.
THEOREM KeepalivesInTime == Spec => []KeepaliveCadence
<1>1. Paced => KeepaliveCadence BY DEF Paced
<1> QED BY <1>1, PacedInvariance, PTL

=============================================================================
