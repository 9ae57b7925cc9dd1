SPECIFICATION ApiSpec
CONSTANTS
    r1 = r1  r2 = r2  deposit = deposit  annex = annex  other = other  Nobody = Nobody
    Runs <- MCRuns
    Tasks <- MCTasks
    TaskOf <- MCTaskOf
    Voxels = {}
    Deposits <- MCDeposits
    MinimumConfidence = 60
    MaxCrashes = 0
    Loggers <- MCRuns
    MaxBufferSize = 2
    Others <- MCOthers
    Calls <- MCCalls
    Strata <- MCStrata
    Routes <- MCRoutes
    Nested <- MCNested
CHECK_DEADLOCK FALSE
INVARIANTS
    ResponseInv
    OutageOptimistic
    LatestTraceFresh
    LogInv
