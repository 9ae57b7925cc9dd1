SPECIFICATION Spec
CONSTANTS
    p1 = p1  p2 = p2  c1 = c1  c2 = c2  c3 = c3  c4 = c4
    Processes <- MCProcesses
    Calls <- MCCalls
    ProcessOf <- MCProcessOf
    Limit = 2
    WindowSeconds = 3
    MaxDelay = 1
    MaxTime = 3
    MaxRedisChanges = 1
    MaxRestarts = 1
SYMMETRY CallSymmetry
CHECK_DEADLOCK FALSE
INVARIANTS
    TypeOK
    RedisBound
    LocalBound
    DenialsEarned
    RemoteInv
    WindowInv
