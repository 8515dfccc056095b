\* Four keys and a span; two keys when the connection breaks.
CONSTANTS
    OFF = OFF
    INFO = INFO
    TRACE = TRACE
    Unknown = Unknown
    Levels = {OFF, INFO, TRACE}
    v1 = v1
    v2 = v2
    Versions = {v2}
    CLIENT_VERSION = v1
    GraphInputs = {"Agg"}
    StartLevels = {INFO}
    KeyLevels = {TRACE}
    UpdateCapacity = 3
    OutCapacity = 2
    MaxKeys = 4
    MaxKeysUpset = 2
    MaxUpsets = 1
    MaxSpans = 1

SPECIFICATION ConsoleSpec
INVARIANTS
    TypeOK
    LevelGivenBack
    
    InstallerOnScreen
PROPERTIES
    
    ModalEnds

\* The program exits, and the bounds run out.
CHECK_DEADLOCK FALSE
