SPECIFICATION Spec
CONSTANTS
    v1 = v1  v2 = v2  j1 = j1  j2 = j2  j3 = j3  a = a  b = b  c = c  d = d
    Vaults <- TwoVaults
    Jobs <- ThreeJobs
    VaultOf <- TwoProcesses
    Values <- MCValues
    EntityTypes <- MCTypes
    TypeOf <- MCTypeOf
    TextOf <- MCTextOf
    Inside <- MCInside
    MaxRedisChanges = 2
    MaxRestarts = 1
CHECK_DEADLOCK FALSE
INVARIANTS
    TypeOK
    NothingUnredacted
    NoTokenDangles
    RoundTripAnywhere
    RoundTripHome
    SharedInv
    FallbackInv
