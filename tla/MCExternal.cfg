SPECIFICATION FairSpec
CONSTANTS
    r1 = r1  r2 = r2  o1 = o1  o2 = o2
    build = build  loan = loan  raze = raze  old = old  new = new
    NoVal = NoVal
    Acts = {build}
    States <- Games
    Permitted <- AnyAction
    ApprovalActs = {}
    Cost <- Free
    MaxSpend = 0
    Effect <- GameEffect
    Aspect <- Setting
    FirstState <- FirstGame
    Goal <- RenamedLater  Stop = {}  Dead = {}
    External = TRUE
    Runners = {r1}
    Operators = {o1}
    MaxIterations = 2
    MaxConsecutiveFailures = 2
    RepeatedActionLimit = 2
    RepeatedStateLimit = 2
    BlockOnFalseCompletion = FALSE
    Environment = {"crash", "transaction", "adapter", "drift"}
    SingleActive = TRUE
    MaxJournal = 6
INVARIANTS
    JournalCoversEffects
    Reconstructable
PROPERTIES
    NoEffectAfterResolution
    SessionEnds
\* A finished task takes no further step.
CHECK_DEADLOCK FALSE
