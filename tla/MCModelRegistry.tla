--------------------------- MODULE MCModelRegistry ---------------------------
(* Bounded instances of ModelRegistry for TLC; the constants are in the .cfg  *)
(* files.                                                                     *)
EXTENDS ModelRegistry, TLC

\* A tier-1 run has a model and a scaler, a tier-2 run a model only.
TierArtifacts ==
    [t \in {"tier1", "tier2"} |->
        IF t = "tier1" THEN {"model", "scaler"} ELSE {"model"}]

\* Processes are interchangeable, and no liveness property is checked.
Symmetry == Permutations(Processes)
=============================================================================
