INIT LedgerInit
NEXT LedgerNext
CONSTANTS
    w1 = w1
    w2 = w2
    k1 = k1
    k2 = k2
    NoWriter = NoWriter
    NoPath = NoPath
    Writers <- TwoWriters
    Batches <- SomeBatches
    MaxCalls = 2
INVARIANTS ReturnedIsOnRecord IdleHoldsNoLock CountsOwnRows GuardIsExact
PROPERTY BatchIsAtomic
\* The writers make MaxCalls calls and stop.
CHECK_DEADLOCK FALSE
