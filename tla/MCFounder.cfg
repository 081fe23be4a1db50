SPECIFICATION Spec
CONSTANTS
    None = None
    Disturbances <- MCDisturbances
    Configs = {a, b}
    Contracts = {c1, c2}
    MaxContracts = 1
    MaxIterations = 2
INVARIANTS
    CommitmentsApproved
    RecordNeverAhead
    WorkIsFound
    OneAtlas
    ReportsAreReal
\* the founder may stop
CHECK_DEADLOCK FALSE
