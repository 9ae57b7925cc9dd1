SPECIFICATION Spec
CONSTANTS
    v1 = v1  v2 = v2  j1 = j1  j2 = j2  j3 = j3  a = a  b = b  c = c  d = d
    Vaults <- OneVault
    Jobs <- TwoJobs
    VaultOf <- OneProcess
    Values <- MCValues
    EntityTypes <- MCTypes
    TypeOf <- MCTypeOf
    TextOf <- MCTextOf
    Inside <- MCInside
    MaxRedisChanges = 0
    MaxRestarts = 0
CHECK_DEADLOCK FALSE
INVARIANTS
    NoWrongValue
