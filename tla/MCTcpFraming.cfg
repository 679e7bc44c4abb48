SPECIFICATION FairFramingSpec
CONSTANTS
    Clients = {c1, c2}
    Text = {"x", "y"}
    Scripts <- MCScripts
    MaxLine = 3
    MaxConnections = 1
    MaxFailures = 1
CHECK_DEADLOCK FALSE
INVARIANTS FramingTypeOK FramesExact
PROPERTY EveryClientServed
