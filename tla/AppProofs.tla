------------------------------ MODULE AppProofs ------------------------------
(***************************************************************************)
(* The main thread starts one receive worker at most, for any number of    *)
(* Focus events, posts and starts of the process.                          *)
(***************************************************************************)
EXTENDS App, TLAPS

\* Where the main thread is on its way to a worker, there is none yet, and
\* the flag tells which way it came.
Inv ==
  /\ TypeOK
  /\ manager = "linked" => account = "linked"
  /\ pc = "auto" => workers = 0 /\ first_focus = "no" /\ manager = "linked"
  /\ pc = "receive" => workers = 0 /\ first_focus = "no"
  /\ pc = "connect" => first_focus = "yes"
  /\ pc = "off" => first_focus = "yes"
  /\ first_focus = "yes" => workers = 0 /\ online = "no"
  /\ first_focus = "no" => auto = "yes" \/ online = "yes"
  /\ workers <= 1
  /\ workers > 0 => manager = "linked"
  /\ pc = "handle" /\ msg = "post" => posts > 0

\* A post is captured or taken only when it has not been handed on.
PostInv ==
  /\ posts \in Nat /\ handed \in Nat
  /\ handed <= posts
  /\ user_post # None => handed < posts /\ pc = "check"
  /\ pc = "handle" /\ msg = "post" => handed < posts

LEMMA InvInit == Init => Inv /\ PostInv
BY BoundsAssumption, NoneAssumption DEF Init, Inv, PostInv, TypeOK, Kinds

-----------------------------------------------------------------------------
LEMMA InvStep == Inv /\ [Next]_vars => Inv'
<1> SUFFICES ASSUME Inv, [Next]_vars PROVE Inv'
    OBVIOUS
<1> USE BoundsAssumption, NoneAssumption DEF Inv, TypeOK, Kinds
<1>1. CASE Start
    BY <1>1 DEF Start
<1>2. CASE AutoConnect
    BY <1>2 DEF AutoConnect, ConnectTrue, ConnectsBy, ConnectNotTrue
<1>3. CASE StartReceive
    BY <1>3 DEF StartReceive
<1>4. CASE Receive
    BY <1>4 DEF Receive
<1>5. CASE HandleFocus
    BY <1>5 DEF HandleFocus
<1>6. CASE FocusConnect
    BY <1>6 DEF FocusConnect, ConnectTrue, ConnectsBy, ConnectNotTrue
<1>7. CASE HandleOther
    BY <1>7 DEF HandleOther
<1>8. CASE HandlePost
    BY <1>8 DEF HandlePost
<1>9. CASE IterationEnds
    BY <1>9 DEF IterationEnds
<1>10. CASE Stop
    BY <1>10 DEF Stop
<1>11. CASE UNCHANGED vars
    BY <1>11 DEF vars
<1> QED
    BY <1>1, <1>2, <1>3, <1>4, <1>5, <1>6, <1>7, <1>8, <1>9, <1>10, <1>11 DEF Next

LEMMA PostInvStep == PostInv /\ [Next]_vars => PostInv'
<1> SUFFICES ASSUME PostInv, [Next]_vars PROVE PostInv'
    OBVIOUS
<1> USE DEF PostInv
<1>1. CASE Start
    BY <1>1 DEF Start
<1>2. CASE AutoConnect
    BY <1>2 DEF AutoConnect
<1>3. CASE StartReceive
    BY <1>3 DEF StartReceive
<1>4. CASE Receive
    BY <1>4 DEF Receive
<1>5. CASE HandleFocus
    BY <1>5 DEF HandleFocus
<1>6. CASE FocusConnect
    BY <1>6 DEF FocusConnect
<1>7. CASE HandleOther
    BY <1>7 DEF HandleOther
<1>8. CASE HandlePost
    BY <1>8 DEF HandlePost
<1>9. CASE IterationEnds
    BY <1>9 DEF IterationEnds
<1>10. CASE Stop
    BY <1>10 DEF Stop
<1>11. CASE UNCHANGED vars
    BY <1>11 DEF vars
<1> QED
    BY <1>1, <1>2, <1>3, <1>4, <1>5, <1>6, <1>7, <1>8, <1>9, <1>10, <1>11 DEF Next

-----------------------------------------------------------------------------
\* Every variable keeps its type.
THEOREM TypeCorrect == Spec => []TypeOK
<1>1. Inv => TypeOK
    BY DEF Inv
<1> QED
    BY InvInit, InvStep, <1>1, PTL DEF Spec

\* However often the chat gets the focus, and whether or not the process
\* connected at its start, it starts at most one receive worker.
THEOREM OneWorker == Spec => []AtMostOneWorker
<1>1. Inv => AtMostOneWorker
    BY DEF Inv, AtMostOneWorker
<1> QED
    BY InvInit, InvStep, <1>1, PTL DEF Spec

\* A worker has been started for a linked account only.
THEOREM WorkerHasAccount == Spec => []WorkerNeedsAccount
<1>1. Inv => WorkerNeedsAccount
    BY DEF Inv, WorkerNeedsAccount
<1> QED
    BY InvInit, InvStep, <1>1, PTL DEF Spec

\* As long as the flag is set no connect has worked, and it is cleared by
\* nothing else than one that has, but for the connect at the start.
THEOREM FocusRetries == Spec => []FocusUntilOnline
<1>1. Inv => FocusUntilOnline
    BY DEF Inv, FocusUntilOnline
<1> QED
    BY InvInit, InvStep, <1>1, PTL DEF Spec

\* Each post is handed to SigChat::post at most once.
THEOREM PostsOnce == Spec => []PostedOnce
<1>1. PostInv => PostedOnce
    BY DEF PostInv, PostedOnce
<1> QED
    BY InvInit, PostInvStep, <1>1, PTL DEF Spec

=============================================================================
