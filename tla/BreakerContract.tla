-------------------------- MODULE BreakerContract --------------------------
(***************************************************************************)
(* What a circuit breaker promises its user, whatever its failure window:  *)
(* traffic is cut by going to OPEN, is let through again only by way of a  *)
(* HALF_OPEN trial, and full service resumes only from that trial or by an *)
(* explicit reset.  CircuitBreaker implements it; the event bridge is its  *)
(* user.                                                                   *)
(***************************************************************************)
VARIABLE state

Init == state = "CLOSED"

\* A recorded failure cuts the traffic, from full service or from a trial.
Trip  == state \in {"CLOSED", "HALF_OPEN"} /\ state' = "OPEN"

\* The cool-off is over: a trial begins.
Probe == state = "OPEN" /\ state' = "HALF_OPEN"

\* A success in the trial restores full service.
Heal  == state = "HALF_OPEN" /\ state' = "CLOSED"

\* An operator's reset.
Reset == state' = "CLOSED"

Next == Trip \/ Probe \/ Heal \/ Reset

Spec == Init /\ [][Next]_state
=============================================================================
