\* Two traces; a ring that is too small and one that is not; six keys.
CONSTANTS
    Spans <- Traces
    Budgets = {3, 8}
    Keys = {"k"}
    Alphabetical <- Strings
    MaxKeys = 6
    Search <- Typed
    RootWalkCap = 256

SPECIFICATION ExploreSpec
INVARIANTS
    CursorsOnRows
    ExpandedIsClosed
    TreeDrawn
    TraceIsTree

    

\* The user may stop.
CHECK_DEADLOCK FALSE
