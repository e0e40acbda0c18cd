SPECIFICATION Spec
CONSTANTS
    w1 = w1
    w2 = w2
    Jobs = {1, 2}
    Workers = {w1, w2}
    LastRev = 2
    Endings = {"succeeded", "timed_out"}
    Budget <- Faults
INVARIANTS
    Ownership
    SucceededIsCloudSuccess
    PointerIsTrue
PROPERTIES
    ReflectionNeverRegresses
    LifecycleSpec
SYMMETRY WorkerSymmetry
