--------------------------- MODULE OneShotSession ---------------------------
(***************************************************************************)
(* What the provisioning worker promises: "Lifecycle is strictly one-shot" *)
(* (manager/ws_server.rs).  A session has at most one server and, for its  *)
(* caller, one outcome: the first one reached while the server lives.  The *)
(* caller is answered at most once, with that outcome or with a failure.   *)
(***************************************************************************)
CONSTANTS Outcomes, Failure, None

VARIABLES server, outcome, answer

vars == <<server, outcome, answer>>

Init == server = "none" /\ outcome = None /\ answer = None

Open ==
  /\ server = "none" /\ server' = "live"
  /\ UNCHANGED <<outcome, answer>>

Reach ==
  /\ server = "live"
  /\ outcome = None /\ outcome' \in Outcomes
  /\ UNCHANGED <<server, answer>>

Answer ==
  /\ server = "live"
  /\ answer = None
  /\ answer' \in {outcome, Failure} \ {None}
  /\ UNCHANGED <<server, outcome>>

\* The server goes for good; a caller still waiting, and one that comes
\* later, is answered with a failure.
Close ==
  /\ server = "live" /\ server' = "destroyed"
  /\ answer' \in {answer, IF answer = None THEN Failure ELSE answer}
  /\ UNCHANGED outcome

Refuse ==
  /\ server = "destroyed"
  /\ answer = None /\ answer' = Failure
  /\ UNCHANGED <<server, outcome>>

Next == Open \/ Reach \/ Answer \/ Close \/ Refuse

Spec == Init /\ [][Next]_vars
=============================================================================
