\* One Span is cloned; guards are dropped in LIFO order.
CONSTANTS
    t1 = t1
    t2 = t2
    Threads = {t1, t2}
    LaneCount = 2
    ShardCapacity = 1
    ID_BATCH = 2
    ShardSpan = 4
    PendingBatch = 1
    ChannelCapacity = 1
    ScopedGuards = TRUE
    MaxClones = 1
    MaxId = 5
    MaxEvents = 0
    MaxDepth = 2
    MaxThreadKeys = 3

SPECIFICATION CacheSpec
SYMMETRY ThreadSymmetry
INVARIANTS
    SlotHiddenUntilPublished
\* The application may stop calling, and the bounds run out.
CHECK_DEADLOCK FALSE
