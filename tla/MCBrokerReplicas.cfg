SPECIFICATION Spec
CONSTANTS
    Nil = Nil
    Instances = {i1}
    Params = {p1, p2}
    Bindings = {}
    Procs = {w1, w2}
    Clients = {w1, w2}
    Reconcilers = {w2}
    ProcOf <- Replicas
    Rank <- ScanOrder
    BatchLimit = 2
    Faults = {"read", "write", "render", "timeout", "teardown", "meter", "catalog", "tamper", "crash"}
    MaxVersion = 2
    MaxRequests = 3
    MaxFaults = 1
SYMMETRY ParamsSymmetry
INVARIANTS SucceededIsApplied SkippedIsApplied MeteredIsApplied
CHECK_DEADLOCK FALSE
