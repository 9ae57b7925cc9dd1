SPECIFICATION Spec
CONSTANTS
    w1 = w1  w2 = w2  p1 = p1  p2 = p2
    Writers <- Pair
    Payloads <- MCPayloads
    MaxSpans = 2
    MaxRestarts = 1
    MaxFailures = 1
    MaxStepBacks = 1
    MaxChanges = 1
SYMMETRY Symmetric
CHECK_DEADLOCK FALSE
INVARIANTS
    LinkInv
    LinksResolve
    AuditExact
    OrderInv
