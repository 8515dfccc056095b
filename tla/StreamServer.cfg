\* Consoles come, set and leave while others do.
CONSTANTS
    Connections = {c1, c2}
    Levels = {"off", "info"}
    Chances = {"100", "50"}
    OFF = "off"
    ALL = "100"
    MaxStarts = 2
    MaxSets = 2

SPECIFICATION ServerSpec
INVARIANTS
    TypeOK
    QuietWhenIdle
    InterestFollowsLevel
PROPERTY
    ToldLatest

\* Every console may have left.
CHECK_DEADLOCK FALSE
