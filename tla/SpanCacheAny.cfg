\* Spans are cloned at will, threads come and go; nothing is entered.
CONSTANTS
    t1 = t1
    t2 = t2
    Threads = {t1, t2}
    LaneCount = 1
    ShardCapacity = 2
    ID_BATCH = 2
    ShardSpan = 4
    PendingBatch = 1
    ChannelCapacity = 0
    ScopedGuards = FALSE
    MaxClones = 1
    MaxId = 5
    MaxEvents = 0
    MaxDepth = 0
    MaxThreadKeys = 2

SPECIFICATION CacheSpec
SYMMETRY ThreadSymmetry
INVARIANTS
    TypeOK
    SidecarInBounds
    UniqueIds
\* The application may stop calling, and the bounds run out.
CHECK_DEADLOCK FALSE
