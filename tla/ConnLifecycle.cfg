SPECIFICATION FairSpec
CONSTANTS
    Consumers = {c1, c2}
    Concurrency = 1
    MaxDeliveries = 4
INVARIANTS NoPanicUnlessOverlapped DrainedBeforeRelease
PROPERTIES ConnCloseReturns
CHECK_DEADLOCK FALSE
