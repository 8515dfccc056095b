\* One trace; no window is rounded to zero.
CONSTANTS
    Spans <- Traffic
    Budgets = {4, 8}
    Keys = {"k"}
    Alphabetical <- Strings
    BIN_CAP = 2
    BIN_SAMPLE_CAP = 3
    Windows = {2, 3}
    DefaultWindow = 2
    Modes <- JustAvg
    WalkDepth = 65

SPECIFICATION GraphSpec
INVARIANT
    NeverPanics

\* A program that panicked stops.
CHECK_DEADLOCK FALSE
