----------------------------- MODULE MCCollector -----------------------------
(* Bounded instances of Collector for TLC; the constants are in the .cfg    *)
(* files.                                                                   *)
EXTENDS Collector

\* The second event is too large for the file together with both others.
MCBytes == [e \in 1..MaxEvents |-> IF e = 2 THEN 2 ELSE 1]
=============================================================================
