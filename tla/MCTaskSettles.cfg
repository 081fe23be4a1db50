SPECIFICATION ResumedSpec
CONSTANTS
    r1 = r1  r2 = r2  o1 = o1  o2 = o2
    build = build  loan = loan  raze = raze  old = old  new = new
    NoVal = NoVal
    Acts = {build, loan, raze}
    States <- Levels
    Permitted <- AllButRaze
    ApprovalActs = {loan}
    Cost <- ReferenceCost
    MaxSpend = 3
    Effect <- ReferenceEffect
    Aspect <- WholeLevel
    FirstState = 0
    Goal = {2}  Stop = {}  Dead = {3}
    External = FALSE
    Runners = {r1}
    Operators = {o1}
    MaxIterations = 4
    MaxConsecutiveFailures = 2
    RepeatedActionLimit = 2
    RepeatedStateLimit = 3
    BlockOnFalseCompletion = FALSE
    Environment = {"slice", "shutdown"}
    SingleActive = TRUE
    MaxJournal = 100
PROPERTIES
    TaskSettles
\* A finished task takes no further step.
CHECK_DEADLOCK FALSE
