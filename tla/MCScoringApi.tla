---------------------------- MODULE MCScoringApi ----------------------------
(* Bounded instances of ScoringApi for TLC; the constants are in the .cfg   *)
(* files.                                                                   *)
EXTENDS ScoringApi

CONSTANTS w1, w2

MCPool == {<<w1, 1>>, <<w1, 2>>}
=============================================================================
