SPECIFICATION Spec
CONSTANTS
    None = None
    b1 = b1  b2 = b2  v1 = v1  v2 = v2
    Pinned = Pinned  Partial = Partial  Generated = Generated  Foreign = Foreign
    Kinds = {"rail", "dll", "probe"}
    Builds = {b1, b2}
    FirstBuild = b1
    Games = {v1, v2}
    FirstGame = v1
    Disturbances = {"crash", "fault", "edit", "update"}
INVARIANTS
    UninstalledIsGone
    NeverHalfReplaced
PROPERTIES
    ReportsAreTrue
    ForeignFilesStay
CHECK_DEADLOCK FALSE
