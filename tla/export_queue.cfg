SPECIFICATION FairQueues
CONSTANTS
    w1 = w1
    w2 = w2
    a = a
    b = b
    Jobs = {1, 2}
    Workers = {w1, w2}
    Names = {a, b}
    LastRev = 2
    Budget <- Faults
INVARIANTS
    Ownership
    SucceededHoldsFrozenRevision
    FailedLeavesNothing
PROPERTIES
    RollbackDeletesOwn
    LifecycleSpec
    JobsEnd
    BuildJobsEnd
