\* Explore mode is entered again before the host has answered.
CONSTANTS
    OFF = OFF
    INFO = INFO
    TRACE = TRACE
    Unknown = Unknown
    Levels = {OFF, INFO, TRACE}
    v1 = v1
    v2 = v2
    Versions = {v2}
    CLIENT_VERSION = v1
    GraphInputs = {"Agg"}
    StartLevels = {INFO}
    KeyLevels = {TRACE}
    UpdateCapacity = 4
    OutCapacity = 4
    MaxKeys = 4
    MaxKeysUpset = 2
    MaxUpsets = 0
    MaxSpans = 1

SPECIFICATION ConsoleSpec
INVARIANT
    NeverStranded

\* The program exits, and the bounds run out.
CHECK_DEADLOCK FALSE
