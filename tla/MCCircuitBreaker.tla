-------------------------- MODULE MCCircuitBreaker --------------------------
(* CircuitBreaker on a short clock.  The window is longer than the cool-off, *)
(* as in the bridge (60 s and 30 s).                                         *)
EXTENDS CircuitBreaker

\* Bound: failures recorded at one instant add nothing past the threshold.
BoundedWindow == Len(cb.failures) <= FailureThreshold + 1
=============================================================================
