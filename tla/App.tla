--------------------------------- MODULE App ---------------------------------
(***************************************************************************)
(* The main thread of the application (main.rs and SigChat in lib.rs): it  *)
(* connects at the start if an account is loaded or when the chat gets the *)
(* focus, starts the receive worker, and takes the messages of its server  *)
(* one at a time.  How an account is set up, step by step, is AccountLink; *)
(* here setup has an outcome.                                              *)
(***************************************************************************)
EXTENDS Integers

CONSTANTS
  MaxPosts,  \* bound: posts of the chat
  MaxRuns,   \* bound: starts of the process
  None

ASSUME BoundsAssumption == MaxPosts \in Nat /\ MaxRuns \in Nat
ASSUME NoneAssumption == None \notin {"linked", "blank"}

VARIABLES
  pc,          \* where the main thread is
  account,     \* on disk: "none", "linked"
  manager,     \* SigChat.manager: None, "linked" or "blank", by its account
  first_focus, \* "yes" or "no"
  user_post,   \* the captured post, or None
  msg,         \* the message in hand: its kind, or None
  posts,       \* posts the chat has sent, numbered
  handed,      \* calls of SigChat::post
  workers,     \* receive workers this process has started
  online,      \* "yes" when a connect of this process has returned true
  runs,        \* starts of the process
  auto         \* "yes" when this process connected at its start

vars == <<pc, account, manager, first_focus, user_post, msg, posts, handed, workers,
          online, runs, auto>>

Kinds == {"focus", "other", "post", "emptyPost"}

TypeOK ==
  /\ pc \in {"off", "auto", "receive", "wait", "handle", "connect", "check"}
  /\ account \in {"none", "linked"}
  /\ manager \in {None, "linked", "blank"}
  /\ first_focus \in {"yes", "no"}
  /\ user_post \in (1..MaxPosts) \union {None}
  /\ msg \in Kinds \union {None}
  /\ posts \in 0..MaxPosts
  /\ handed \in Nat
  /\ workers \in Nat
  /\ online \in {"yes", "no"}
  /\ runs \in 0..MaxRuns
  /\ auto \in {"yes", "no"}

Init ==
  /\ pc = "off" /\ account \in {"none", "linked"} /\ manager = None
  /\ first_focus = "yes" /\ user_post = None /\ msg = None
  /\ posts = 0 /\ handed = 0 /\ workers = 0 /\ online = "no" /\ runs = 0
  /\ auto = "no"

-----------------------------------------------------------------------------
(* Start: SigChat::new loads a registered account; with one, main connects  *)
(* before the first message.                                                *)

Start ==
  /\ pc = "off" /\ runs < MaxRuns /\ runs' = runs + 1
  /\ manager' = IF account = "linked" THEN "linked" ELSE None
  /\ IF manager' # None
     THEN pc' = "auto" /\ auto' = "yes" /\ first_focus' = "no"
     ELSE pc' = "wait" /\ auto' = "no" /\ first_focus' = "yes"
  /\ user_post' = None /\ msg' = None /\ workers' = 0 /\ online' = "no"
  /\ UNCHANGED <<account, posts, handed>>

ConnectsBy(new) == new # None /\ manager' = new /\ online' = "yes"

\* Mutant: an account is taken for registered whatever was read.
ConnectTrueAny ==
  \/ manager # None /\ ConnectsBy(manager) /\ UNCHANGED account
  \/ manager = None /\ ConnectsBy(account) /\ UNCHANGED account

\* SigChat::connect returns true.  Without wifi it returns false; a manager
\* is taken as it is; without one the account is read again and otherwise
\* set up.  What a setup reads back need not have its credentials: a write
\* that failed is not reported.
ConnectTrue ==
  \/ manager # None /\ ConnectsBy(manager) /\ UNCHANGED account
  \/ manager = None /\ account' = "linked" /\ ConnectsBy("linked")
  \/ manager = None /\ account = "none" /\ ConnectsBy("blank") /\ UNCHANGED account

\* It does not: no wifi, or a setup that fails.  A link that fails late
\* leaves a linked account on disk, a registration leaves a blank manager.
ConnectNotTrue ==
  /\ UNCHANGED online
  /\ \/ UNCHANGED <<manager, account>>
     \/ manager = None /\ account = "none" /\ account' = "linked" /\ UNCHANGED manager
     \/ manager = None /\ account = "none" /\ manager' = "blank" /\ UNCHANGED account

AutoConnect ==
  /\ pc = "auto"
  /\ \/ ConnectTrue /\ pc' = "receive"
     \/ ConnectNotTrue /\ pc' = "wait"
  /\ UNCHANGED <<first_focus, user_post, msg, posts, handed, workers, runs, auto>>

\* Mutant: the worker is started without looking at the credentials.
StartReceiveUnchecked ==
  /\ pc = "receive"
  /\ workers' \in {workers, workers + 1}
  /\ pc' = IF msg = None THEN "wait" ELSE "check"
  /\ UNCHANGED <<account, manager, first_focus, user_post, msg, posts, handed, online, runs, auto>>

\* start_receive needs the credentials of the account and can fail to spawn
\* its thread; a failure is logged.
StartReceive ==
  /\ pc = "receive"
  /\ workers' \in {workers} \union (IF manager = "linked" THEN {workers + 1} ELSE {})
  /\ pc' = IF msg = None THEN "wait" ELSE "check"
  /\ UNCHANGED <<account, manager, first_focus, user_post, msg, posts, handed, online, runs, auto>>

-----------------------------------------------------------------------------
(* The message loop.                                                        *)

Receive ==
  /\ pc = "wait" /\ pc' = "handle"
  /\ \/ msg' \in {"focus", "other", "emptyPost"} /\ UNCHANGED posts
     \/ msg' = "post" /\ posts < MaxPosts /\ posts' = posts + 1
  /\ UNCHANGED <<account, manager, first_focus, user_post, handed, workers, online, runs, auto>>

\* Focus connects until it has worked once.
HandleFocus ==
  /\ pc = "handle" /\ msg = "focus"
  /\ pc' = IF first_focus = "yes" THEN "connect" ELSE "check"
  /\ UNCHANGED <<account, manager, first_focus, user_post, msg, posts, handed, workers,
                 online, runs, auto>>

\* Mutant: the flag is not cleared by a connect that worked.
FocusConnectForgets ==
  /\ pc = "connect"
  /\ \/ ConnectTrue /\ pc' = "receive" /\ UNCHANGED first_focus
     \/ ConnectNotTrue /\ pc' = "check" /\ UNCHANGED first_focus
  /\ UNCHANGED <<user_post, msg, posts, handed, workers, runs, auto>>

\* Mutant: the flag is cleared whatever connect returned, as at the start.
FocusConnectOnce ==
  /\ pc = "connect" /\ first_focus' = "no"
  /\ \/ ConnectTrue /\ pc' = "receive"
     \/ ConnectNotTrue /\ pc' = "check"
  /\ UNCHANGED <<user_post, msg, posts, handed, workers, runs, auto>>

FocusConnect ==
  /\ pc = "connect"
  /\ \/ ConnectTrue /\ pc' = "receive" /\ first_focus' = "no"
     \/ ConnectNotTrue /\ pc' = "check" /\ UNCHANGED first_focus
  /\ UNCHANGED <<user_post, msg, posts, handed, workers, runs, auto>>

\* Menu, Rawkeys and unknown messages change nothing.
HandleOther ==
  /\ pc = "handle" /\ msg \in {"other", "emptyPost"} /\ pc' = "check"
  /\ UNCHANGED <<account, manager, first_focus, user_post, msg, posts, handed, workers,
                 online, runs, auto>>

HandlePost ==
  /\ pc = "handle" /\ msg = "post" /\ pc' = "check"
  /\ user_post' = posts
  /\ UNCHANGED <<account, manager, first_focus, msg, posts, handed, workers, online, runs, auto>>

\* Mutant: the post stays captured.
IterationEndsKeepsPost ==
  /\ pc = "check" /\ pc' = "wait"
  /\ handed' = IF user_post # None THEN handed + 1 ELSE handed
  /\ msg' = None
  /\ UNCHANGED <<account, manager, first_focus, user_post, posts, workers, online, runs, auto>>

\* A captured post is handed on.  The message ends its life with the
\* iteration, and a sender that lent it is released.
IterationEnds ==
  /\ pc = "check" /\ pc' = "wait"
  /\ IF user_post # None
     THEN handed' = handed + 1 /\ user_post' = None
     ELSE UNCHANGED <<handed, user_post>>
  /\ msg' = None
  /\ UNCHANGED <<account, manager, first_focus, posts, workers, online, runs, auto>>

\* Quit, or the process dies; its threads go with it.
Stop ==
  /\ pc # "off" /\ pc' = "off"
  /\ manager' = None /\ msg' = None /\ user_post' = None
  /\ workers' = 0 /\ online' = "no" /\ first_focus' = "yes" /\ auto' = "no"
  /\ UNCHANGED <<account, posts, handed, runs>>

Next ==
  \/ Start \/ AutoConnect \/ StartReceive \/ Receive \/ HandleFocus \/ FocusConnect
  \/ HandleOther \/ HandlePost \/ IterationEnds \/ Stop

Spec == Init /\ [][Next]_vars

-----------------------------------------------------------------------------
(* Properties.                                                              *)

\* A process never runs two receive workers: they would decrypt on the same
\* sessions and compete for the server's one message connection.
AtMostOneWorker == workers <= 1

\* A worker runs only with the credentials of a linked account.
WorkerNeedsAccount == workers > 0 => manager = "linked" /\ account = "linked"

\* No Focus tries again once a connect has worked; and in a process that
\* did not connect at its start every Focus does until then: the flag is
\* cleared by a connect that worked and by nothing else.
FocusUntilOnline ==
  /\ first_focus = "yes" => online = "no" /\ workers = 0
  /\ first_focus = "no" => auto = "yes" \/ online = "yes"

\* Every post is handed to SigChat::post once: a captured post does not
\* survive the iteration that took it.
PostedOnce == handed <= posts /\ (user_post # None => handed < posts)

-----------------------------------------------------------------------------
(* What comments in the code say.                                           *)

\* "This fires the same logic as the first Event::Focus would have", and the
\* Focus clears first_focus only when connect returned true.
AutoConnectLikeFocus == pc = "wait" /\ first_focus = "no" => online = "yes"

\* connect: "true on a successful connection to a Signal Account/Server".
TrueMeansAccount == online = "yes" => manager = "linked"

\* "capture input instead of calling here, so message can drop and calling
\* server is released": no message is in hand while SigChat::post runs.
ReleasedBeforePost == pc = "check" /\ user_post # None => msg = None

=============================================================================
