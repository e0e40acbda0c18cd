SPECIFICATION Spec
CONSTANTS
    w1 = w1
    w2 = w2
    Jobs = {1}
    Workers = {w1}
    LastRev = 1
    Endings = {"succeeded", "timed_out"}
    Budget <- NoFaults
INVARIANT FailedMeansCloudDidNotSucceed
