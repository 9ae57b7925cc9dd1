SPECIFICATION Spec
CONSTANTS
    t1 = t1  t2 = t2  x1 = x1  x2 = x2
    Threads <- Pair
    Executions <- MCExecutions
    Script <- MCScript
    Entry = "TRACE"
    Decisions = {"Approve", "Reject"}
    None = None
    MaxKills = 1
INVARIANTS
    WorkflowInv
    OneHandle
