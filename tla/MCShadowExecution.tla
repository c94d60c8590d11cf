-------------------------- MODULE MCShadowExecution --------------------------
(* ShadowExecution on the instances of the configurations. *)
EXTENDS ShadowExecution
=============================================================================
