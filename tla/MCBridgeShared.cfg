SPECIFICATION Spec
CONSTANTS
    c1 = c1  cmd1 = cmd1  cmd2 = cmd2
    None = None
    Names = {"old", "new"}
    FirstName = "old"
    CommandIds = {cmd1, cmd2}
    LedgerLimit = 1
    Pages = 1
    Clients = {c1}
    Refusals = {}
    Budget <- SharedBudget
SYMMETRY Ids
INVARIANTS
    SynchronizedIsFresh
    ResumedInTheSameGame
    SuccessIsReal
\* The budget of events runs out.
CHECK_DEADLOCK FALSE
