SPECIFICATION FairSpec
CONSTANTS
    p1 = p1  p2 = p2
    Callers = {p1, p2}
    None = None
    Answers = {"sound", "useless"}
    Identities = {1, 2}
    Vehicles = {7}
    Options <- MCOptions
    FirstGame = 1
    MaxAge = 0
    MaxEvents = 1
    Disturbances = {"crash", "disk", "bridge"}
INVARIANTS
    NothingLeft
PROPERTIES
    AnswersThisGame
    CacheNeverGoesBack
    CommandsEnd
CHECK_DEADLOCK FALSE
