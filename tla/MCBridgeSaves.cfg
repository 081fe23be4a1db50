SPECIFICATION RetryingSpec
CONSTANTS
    c1 = c1  cmd1 = cmd1  cmd2 = cmd2
    None = None
    Names = {"old", "new"}
    FirstName = "old"
    CommandIds = {cmd1}
    LedgerLimit = 1
    Pages = 1
    Clients = {c1}
    Refusals = {"test", "change"}
    Budget <- SavesBudget
INVARIANTS
    DecidedOnTheNewestCapture
PROPERTIES
    CompletedCommandsRunOnce
    EventuallySynchronized
\* A client that is synchronized may rest.
CHECK_DEADLOCK FALSE
