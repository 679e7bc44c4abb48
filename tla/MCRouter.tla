---- MODULE MCRouter ----
(* Bounded instances of Router for TLC; the constants are in the .cfg files. *)
EXTENDS Router
=============================================================================
