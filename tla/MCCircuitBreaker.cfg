SPECIFICATION FairSpec
CONSTANTS
    t1 = t1  t2 = t2
    Threads <- Pair
    Threshold = 3
    RecoveryTimeout = 1
INVARIANT BreakerInv
PROPERTIES
    ImplementsContract
    OutageOpens
    RecoveryCloses
