---- MODULE MCCircuitBreaker ----
(* Bounded instances of CircuitBreaker for TLC; the constants are in the .cfg files. *)
EXTENDS CircuitBreaker
=============================================================================
