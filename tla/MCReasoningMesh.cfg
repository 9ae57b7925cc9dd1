SPECIFICATION Spec
CONSTANTS
    r1 = r1  r2 = r2   t1 = t1  t2 = t2  v1 = v1  v2 = v2
    Runs <- MCRuns
    Tasks <- MCTasks
    TaskOf <- OneTask
    Voxels <- MCVoxels
    Deposits <- PassingAndBlocked
    MinimumConfidence = 60
    MaxCrashes = 1
SYMMETRY Symmetric
INVARIANTS
    TypeInv
    VerdictHasEvidence
    NoAmplification
    AcknowledgedVerdictStored
    EvidenceInv
