SPECIFICATION Spec
CONSTANTS
    r1 = r1  r2 = r2  o1 = o1  o2 = o2
    build = build  loan = loan  raze = raze  old = old  new = new
    NoVal = NoVal
    Acts = {build, loan, raze}
    States <- Levels
    Permitted <- AllButRaze
    ApprovalActs = {loan}
    Cost <- ReferenceCost
    MaxSpend = 3
    Effect <- ReferenceEffect
    Aspect <- WholeLevel
    FirstState = 0
    Goal = {2}  Stop = {}  Dead = {3}
    External = FALSE
    Runners = {r1}
    Operators = {o1, o2}
    MaxIterations = 3
    MaxConsecutiveFailures = 2
    RepeatedActionLimit = 2
    RepeatedStateLimit = 2
    BlockOnFalseCompletion = FALSE
    Environment = {"crash", "cancel_check", "transaction", "shutdown", "slice"}
    SingleActive = FALSE
    MaxJournal = 12
SYMMETRY Processes
INVARIANTS
    TypeOK
    AuthorizedExecution
    ApprovalUsedOnce
    SpendMatchesJournal
    CompletionConfirmed
\* A finished task takes no further step.
CHECK_DEADLOCK FALSE
