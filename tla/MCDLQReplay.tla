----------------------------- MODULE MCDLQReplay -----------------------------
(* Bounded instances of DLQReplay for TLC; the constants are in the .cfg      *)
(* files.                                                                     *)
EXTENDS DLQReplay
=============================================================================
