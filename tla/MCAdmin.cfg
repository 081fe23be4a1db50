SPECIFICATION FairSpec
CONSTANTS
    None = None
    n1 = n1  n2 = n2
    Names = {n1, n2}
    FirstName = n1
    MaxEvents = 2
    StaleDays = 0
    MaxRounds = 2
    MaxCommands = 1
INVARIANTS
    VerifiedNamesAreReal
    ActsOverThisConnection
PROPERTIES
    EndsDisconnected
CHECK_DEADLOCK FALSE
