CONSTANTS
    Processes = {p1}
    Nobody = Nobody
    Types = {"tier1", "tier2"}
    Metrics = {"f1"}
    MaxRuns = 2
    Names = {"model", "scaler"}
    ArtifactsOf <- TierArtifacts
    MaxFaults = 0
SPECIFICATION Spec
INVARIANTS ProductionServed
