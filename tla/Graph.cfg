\* One trace; a ring that the last span overflows.
CONSTANTS
    Spans <- Traffic
    Budgets = {4, 8}
    Keys = {"k"}
    Alphabetical <- Strings
    BIN_CAP = 2
    BIN_SAMPLE_CAP = 3
    Windows = {0, 2, 3}
    DefaultWindow = 2
    Modes <- JustAvg
    WalkDepth = 65

SPECIFICATION GraphSpec
INVARIANTS
    GraphTypeOK
    
    ChartIsRecount
    SamplesTrue
    PanicsOnlyOutOfOrder

\* A program that panicked stops.
CHECK_DEADLOCK FALSE
