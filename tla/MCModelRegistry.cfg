CONSTANTS
    Processes = {p1, p2}
    Nobody = Nobody
    Types = {"tier1", "tier2"}
    Metrics = {"f1"}
    MaxRuns = 2
    Names = {"model", "scaler"}
    ArtifactsOf <- TierArtifacts
    MaxFaults = 1
SPECIFICATION Spec
INVARIANT WholeDirectory
PROPERTIES ImplementsAtomicRegistry
SYMMETRY Symmetry
