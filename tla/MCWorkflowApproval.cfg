SPECIFICATION Spec
CONSTANTS
    t1 = t1  t2 = t2  x1 = x1  x2 = x2
    Threads <- OneThread
    Executions <- MCExecutions
    Script <- MCScript
    Entry = "TRACE"
    Decisions = {"Approve", "Reject"}
    None = None
    MaxKills = 0
INVARIANTS
    ApprovalBeforeResuming
