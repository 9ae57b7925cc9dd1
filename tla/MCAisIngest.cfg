SPECIFICATION FairSpec
CONSTANTS
    ore = ore  bulk = bulk  Idle = Idle
    Topic <- Sea
    Gap = 2
    Restricted <- Geofenced
    Callers <- Clients
    MaxRestarts = 1
    MaxNow = 1
CHECK_DEADLOCK FALSE
INVARIANTS
    VoyagesInv
    NoVoyageUnaudited
PROPERTY ViolationsRecorded
