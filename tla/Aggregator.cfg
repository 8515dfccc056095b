\* One host; a ring that is too small and one that is not.
CONSTANTS
    Spans <- OneHost
    Budgets = {1, 3, 8, 20}
    Keys = {"k"}

SPECIFICATION AggSpec
INVARIANTS
    TypeOK
    LockStep
    NoStrandedChild
    BucketsRecount
    SelfTimeExact
    BucketIsPath
    ArrivalOrderIrrelevant

\* All spans may have come.
CHECK_DEADLOCK FALSE
