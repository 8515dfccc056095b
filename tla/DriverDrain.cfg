\* One subscriber, two spans, one event.
CONSTANTS
    t1 = t1
    t2 = t2
    Threads = {t1, t2}
    s1 = s1
    s2 = s2
    Subscribers = {s1}
    Ids = {1, 2}
    MaxEvents = 1
    PendingBatch = 2
    ChannelCapacity = 1
    DriverCapacity = 1
    StreamCapacity = 1

SPECIFICATION DriverSpec
PROPERTIES
    ImplementsStream
    ChannelsDrain

\* The application may stop calling, and the bounds run out.
CHECK_DEADLOCK FALSE
