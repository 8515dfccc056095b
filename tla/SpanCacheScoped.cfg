\* The application keeps to scoped guards and never clones a Span.
CONSTANTS
    t1 = t1
    t2 = t2
    Threads = {t1, t2}
    LaneCount = 2
    ShardCapacity = 1
    ID_BATCH = 2
    ShardSpan = 4
    PendingBatch = 2
    ChannelCapacity = 1
    ScopedGuards = TRUE
    MaxClones = 0
    MaxId = 4
    MaxEvents = 1
    MaxDepth = 2
    MaxThreadKeys = 2

SPECIFICATION CacheSpec
SYMMETRY ThreadSymmetry
INVARIANTS
    OwnRecord
    NoLeakedEntry
    StackMirrorsScopes
PROPERTY
    ImplementsFeed
\* The application may stop calling, and the bounds run out.
CHECK_DEADLOCK FALSE
