---------------------------- MODULE MainWsProofs ----------------------------
(***************************************************************************)
(* The keepalives and the spacing of the attempts to connect, for every    *)
(* interval, backoff and length of a read.                                 *)
(***************************************************************************)
EXTENDS MainWs, WellFoundedInduction, TLAPS

\* What TypeOK needs beside itself: a keepalive that is due is sent before
\* the step that waits, so that an age never exceeds its interval by more
\* than one read, with a timeout or without; and a session that has sent nothing is as old as the clock
\* at least.
KeepInv ==
  /\ TypeOK
  /\ pc \in {"app", "read"} => pingAge < KEEPALIVE_MS
  /\ pc = "read" => appAge < APP_KEEPALIVE_MS
  /\ pc \in Online /\ timed = "yes" =>
       pingAge <= KEEPALIVE_MS + Busy /\ appAge <= APP_KEEPALIVE_MS + Busy
  /\ pc \in Online /\ appSent = "no" => uptime <= appAge
  /\ pc \in {"start", "connect"} /\ slept = "yes" => gap = RECONNECT_BACKOFF_INITIAL_MS

LEMMA LeastFact ==
  ASSUME NEW a \in Nat, NEW b \in Nat
  PROVE  /\ Least(a, b) \in Nat /\ Least(a, b) <= a /\ Least(a, b) <= b
         /\ Least(a, b) = a \/ Least(a, b) = b
<1> QED BY DEF Least

LEMMA InitKeep == Init => KeepInv
<1> QED BY TimesAssumption DEF Init, KeepInv, TypeOK, Online

\* The clock and the gap stay within their bounds.
LEMMA PassFact ==
  ASSUME TypeOK, NEW d \in Nat, Pass(d)
  PROVE  /\ uptime' \in 0..APP_KEEPALIVE_MS /\ uptime' <= uptime + d
         /\ gap' \in 0..RECONNECT_BACKOFF_INITIAL_MS
         /\ d >= RECONNECT_BACKOFF_INITIAL_MS => gap' = RECONNECT_BACKOFF_INITIAL_MS
<1> QED BY TimesAssumption DEF TypeOK, Pass, Least

LEMMA BackoffFact ==
  ASSUME TypeOK, NextBackoff
  PROVE  backoff' \in RECONNECT_BACKOFF_INITIAL_MS..RECONNECT_BACKOFF_MAX_MS
<1> QED BY TimesAssumption DEF TypeOK, NextBackoff, Least

LEMMA NextKeep ==
  ASSUME KeepInv, [Next]_vars
  PROVE  KeepInv'
<1> USE TimesAssumption
<1>1. CASE Start
  BY <1>1 DEF Start, KeepInv, TypeOK, Online
<1>2. CASE ConnectOk \/ ConnectFails
  BY <1>2 DEF ConnectOk, ConnectFails, KeepInv, TypeOK, Online
<1>3. CASE Sleep \/ SleepFails
  <2>1. backoff' \in RECONNECT_BACKOFF_INITIAL_MS..RECONNECT_BACKOFF_MAX_MS
    BY <1>3, BackoffFact DEF Sleep, SleepFails, KeepInv
  <2>2. waits' \in 0..MaxWaits
    BY <1>3 DEF Sleep, SleepFails, KeepInv, TypeOK, Least
  <2>3. CASE Sleep
    <3>1. backoff \in Nat /\ backoff >= RECONNECT_BACKOFF_INITIAL_MS /\ Pass(backoff)
      BY <2>3 DEF Sleep, KeepInv, TypeOK
    <3>2. /\ uptime' \in 0..APP_KEEPALIVE_MS /\ gap' = RECONNECT_BACKOFF_INITIAL_MS
      BY <3>1, PassFact DEF KeepInv
    <3> QED BY <2>1, <2>2, <2>3, <3>2 DEF Sleep, KeepInv, TypeOK, Online
  <2>4. CASE SleepFails
    BY <2>1, <2>2, <2>4 DEF SleepFails, KeepInv, TypeOK, Online
  <2> QED BY <1>3, <2>3, <2>4
<1>4. CASE Begin \/ BeginFails
  BY <1>4 DEF Begin, BeginFails, KeepInv, TypeOK, Online
<1>5. CASE Ping
  BY <1>5 DEF Ping, PingDue, KeepInv, TypeOK, Online
<1>6. CASE AppKeepalive
  BY <1>6 DEF AppKeepalive, AppDue, KeepInv, TypeOK, Online
<1>7. CASE Read
  <2>1. PICK d \in ReadTimes : Pass(d) /\ pingAge' = pingAge + d /\ appAge' = appAge + d
    BY <1>7 DEF Read
  <2> d \in 0..MaxRead /\ (timed = "yes" => d <= Busy)
    BY DEF ReadTimes, KeepInv, TypeOK
  <2>2. /\ uptime' \in 0..APP_KEEPALIVE_MS /\ uptime' <= uptime + d
        /\ gap' \in 0..RECONNECT_BACKOFF_INITIAL_MS
    BY <2>1, PassFact DEF KeepInv
  <2> QED BY <1>7, <2>1, <2>2 DEF Read, KeepInv, TypeOK, Online
<1>8. CASE ReadEnds
  <2>1. PICK d \in ReadTimes : Pass(d)
    BY <1>8 DEF ReadEnds
  <2> d \in Nat
    BY DEF ReadTimes
  <2>2. uptime' \in 0..APP_KEEPALIVE_MS /\ gap' \in 0..RECONNECT_BACKOFF_INITIAL_MS
    BY <2>1, PassFact DEF KeepInv
  <2> QED BY <1>8, <2>2 DEF ReadEnds, KeepInv, TypeOK, Online
<1>9. CASE CloseDone \/ ReadPanics
  BY <1>9 DEF CloseDone, ReadPanics, KeepInv, TypeOK, Online
<1>10. CASE UNCHANGED vars
  BY <1>10 DEF vars, KeepInv, TypeOK, Online
<1> QED BY <1>1, <1>2, <1>3, <1>4, <1>5, <1>6, <1>7, <1>8, <1>9, <1>10 DEF Next

THEOREM KeepCorrect == Spec => []KeepInv
<1> QED BY InitKeep, NextKeep, PTL DEF Spec

\* Every age keeps within its interval and the longest read.
THEOREM TypeCorrect == Spec => []TypeOK
<1>1. KeepInv => TypeOK
  BY DEF KeepInv
<1> QED BY <1>1, KeepCorrect, PTL

\* The worker never begins a read with a keepalive overdue, one is late by a
\* read at most where reads have a timeout, and nothing is read before the first
\* one once the device is up for the interval (run_session), for every interval
\* and every length of a read.
THEOREM KeepalivesKept == Spec => []KeepalivesCurrent
<1>1. KeepInv => KeepalivesCurrent
  BY TimesAssumption DEF KeepInv, KeepalivesCurrent, TypeOK, Online
<1> QED BY <1>1, KeepCorrect, PTL

-----------------------------------------------------------------------------
(* The backoff doubles.  Doubled is defined by recursion; that it has the    *)
(* values the recursion gives it is proved from a least counterexample.      *)

LEMMA LeastElement ==
  ASSUME NEW T \in SUBSET Nat, T # {}
  PROVE  \E x \in T : \A y \in T : ~(y < x)
<1>1. \E x \in T : \A y \in T : <<y, x>> \notin OpToRel(<, Nat)
  BY NatLessThanWellFounded, WFMin
<1> QED BY <1>1 DEF OpToRel

LEMMA DoubledExists ==
  ASSUME NEW k \in Nat, NEW n \in Nat
  PROVE  \E f : f = [i \in 0..n |-> IF i = 0 THEN k ELSE 2 * f[i - 1]]
<1> DEFINE Works(m) == \E f : f = [i \in 0..m |-> IF i = 0 THEN k ELSE 2 * f[i - 1]]
           Bad == {m \in Nat : ~Works(m)}
<1>1. ASSUME NEW m \in Nat, m = 0 \/ Works(m - 1)
      PROVE  Works(m)
  <2>1. CASE m = 0
    <3> DEFINE g == [i \in 0..m |-> k]
    <3>1. g = [i \in 0..m |-> IF i = 0 THEN k ELSE 2 * g[i - 1]]
      BY <2>1
    <3> QED BY <3>1
  <2>2. CASE m # 0 /\ Works(m - 1)
    <3>1. PICK f : f = [i \in 0..(m - 1) |-> IF i = 0 THEN k ELSE 2 * f[i - 1]]
      BY <2>2
    <3> DEFINE g == [i \in 0..m |-> IF i = 0 THEN k ELSE 2 * f[i - 1]]
    <3>2. \A i \in 0..(m - 1) : g[i] = f[i]
      BY <3>1
    <3>3. \A i \in 0..m : i = 0 \/ i - 1 \in 0..(m - 1)
      OBVIOUS
    <3>4. g = [i \in 0..m |-> IF i = 0 THEN k ELSE 2 * g[i - 1]]
      BY <3>2, <3>3
    <3> HIDE DEF g
    <3> QED BY <3>4
  <2> QED BY <1>1, <2>1, <2>2
<1> HIDE DEF Works
<1>2. Bad = {}
  <2> SUFFICES ASSUME Bad # {} PROVE FALSE
    OBVIOUS
  <2>1. PICK m \in Bad : \A y \in Bad : ~(y < m)
    BY LeastElement
  <2>2. m \in Nat /\ (m = 0 \/ (m - 1 \in Nat /\ m - 1 \notin Bad))
    BY <2>1
  <2>3. Works(m)
    BY <1>1, <2>2
  <2> QED BY <2>1, <2>3
<1>3. Works(n)
  BY <1>2
<1> QED BY <1>3 DEF Works

LEMMA DoubledFact ==
  /\ Doubled[0] = RECONNECT_BACKOFF_INITIAL_MS
  /\ \A n \in 0..MaxWaits : Doubled[n] \in Nat
  /\ \A n \in 0..MaxWaits : n # 0 => Doubled[n] = 2 * Doubled[n - 1]
<1>1. \E f : f = [i \in 0..MaxWaits |->
                   IF i = 0 THEN RECONNECT_BACKOFF_INITIAL_MS ELSE 2 * f[i - 1]]
  BY TimesAssumption, DoubledExists
<1>2. Doubled = [i \in 0..MaxWaits |->
                  IF i = 0 THEN RECONNECT_BACKOFF_INITIAL_MS ELSE 2 * Doubled[i - 1]]
  BY <1>1 DEF Doubled
<1>3. /\ Doubled[0] = RECONNECT_BACKOFF_INITIAL_MS
      /\ \A n \in 0..MaxWaits : n # 0 => Doubled[n] = 2 * Doubled[n - 1]
  BY <1>2, TimesAssumption
<1> DEFINE Bad == {n \in 0..MaxWaits : Doubled[n] \notin Nat}
<1>4. Bad = {}
  <2> SUFFICES ASSUME Bad # {} PROVE FALSE
    OBVIOUS
  <2>1. PICK n \in Bad : \A m \in Bad : ~(m < n)
    <3>1. Bad \in SUBSET Nat
      BY TimesAssumption
    <3> HIDE DEF Bad
    <3> QED BY <3>1, LeastElement
  <2>2. n # 0
    BY <1>3, <2>1, TimesAssumption
  <2>3. n - 1 \in 0..MaxWaits /\ n - 1 < n
    BY <2>1, <2>2, TimesAssumption
  <2>4. Doubled[n - 1] \in Nat
    BY <2>1, <2>3
  <2> QED BY <1>3, <2>1, <2>2, <2>4
<1> QED BY <1>3, <1>4

Grows ==
  waits < MaxWaits => backoff = Least(Doubled[waits], RECONNECT_BACKOFF_MAX_MS)

\* Doubling a bounded value and bounding it again bounds the doubled one.
LEMMA LeastDoubled ==
  ASSUME NEW a \in Nat, NEW m \in Nat
  PROVE  Least(Least(a, m) * 2, m) = Least(2 * a, m)
  BY DEF Least

LEMMA NextGrows ==
  ASSUME KeepInv, Grows, [Next]_vars
  PROVE  Grows'
<1>1. CASE ConnectOk
  BY <1>1, DoubledFact, TimesAssumption DEF ConnectOk, Grows, Least
<1>2. CASE NextBackoff /\ waits' = Least(waits + 1, MaxWaits)
  <2> SUFFICES ASSUME waits' < MaxWaits
               PROVE  backoff' = Least(Doubled[waits'], RECONNECT_BACKOFF_MAX_MS)
    BY DEF Grows
  <2>1. waits \in 0..MaxWaits /\ waits' = waits + 1 /\ waits < MaxWaits
    BY <1>2, TimesAssumption DEF KeepInv, TypeOK, Least
  <2>2. backoff' = Least(Least(Doubled[waits], RECONNECT_BACKOFF_MAX_MS) * 2, RECONNECT_BACKOFF_MAX_MS)
    BY <1>2, <2>1 DEF NextBackoff, Grows
  <2>3. Doubled[waits] \in Nat
    BY <2>1, DoubledFact
  <2>4. backoff' = Least(2 * Doubled[waits], RECONNECT_BACKOFF_MAX_MS)
    BY <2>2, <2>3, LeastDoubled, TimesAssumption
  <2>5. Doubled[waits'] = 2 * Doubled[waits]
    <3>1. waits + 1 \in 0..MaxWaits /\ waits + 1 # 0 /\ (waits + 1) - 1 = waits
      BY <2>1, TimesAssumption
    <3> QED BY <2>1, <3>1, DoubledFact
  <2> QED BY <2>4, <2>5
<1>3. CASE UNCHANGED <<backoff, waits>>
  BY <1>3 DEF Grows
<1>4. \/ ConnectOk \/ UNCHANGED <<backoff, waits>>
      \/ NextBackoff /\ waits' = Least(waits + 1, MaxWaits)
  BY DEF Next, vars, Start, ConnectFails, Sleep, SleepFails, Begin, BeginFails, Ping,
    AppKeepalive, Read, ReadEnds, ReadPanics, CloseDone
<1> QED BY <1>1, <1>2, <1>3, <1>4

\* Two attempts to connect are the initial backoff apart at least, and the
\* n-th failure in a row is slept on for 2^n times that, up to the maximum
\* (worker_loop), for every backoff and every number of failures counted.
THEOREM BackoffDoubles == Spec => []AttemptsSpaced
<1>1. Init => Grows
  <2> SUFFICES ASSUME Init PROVE Grows
    OBVIOUS
  <2> QED BY DoubledFact, TimesAssumption DEF Init, Grows, Least
<1>2. KeepInv /\ Grows => AttemptsSpaced
  BY DEF KeepInv, Grows, AttemptsSpaced
<1> QED BY <1>1, <1>2, NextGrows, KeepCorrect, PTL DEF Spec
=============================================================================
