SPECIFICATION Spec
CONSTANTS
    w1 = w1  w2 = w2  p1 = p1  p2 = p2
    Writers <- Pair
    Payloads <- MCPayloads
    MaxSpans = 2
    MaxRestarts = 0
    MaxFailures = 0
    MaxStepBacks = 0
    MaxChanges = 0
SYMMETRY Symmetric
CHECK_DEADLOCK FALSE
INVARIANTS
    UnalteredLogVerifies
