SPECIFICATION FairSpec
CONSTANTS
    None = None
    Failed = Failed
    Providers = {"sampled", "pumped"}
    MaxWires <- MCWires
    MaxBeats = 1
    MaxInstances = 2
    MaxRefreshes = 1
    MaxTime = 1
INVARIANTS
    FrameIsBracketed
    AstrayClickIsTheLast
    ReportedRouteWasMade
PROPERTIES
    ObservationEnds
    OwnerLeaves
CHECK_DEADLOCK FALSE
