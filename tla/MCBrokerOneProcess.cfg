SPECIFICATION Spec
CONSTANTS
    Nil = Nil
    Instances = {i1}
    Params = {p1, p2}
    Bindings = {b1}
    Procs = {n1}
    Clients = {w1, w2}
    Reconcilers = {w2}
    ProcOf <- OneProcess
    Rank <- ScanOrder
    BatchLimit = 2
    Faults = {"write", "render", "timeout"}
    MaxVersion = 2
    MaxRequests = 3
    MaxFaults = 1
SYMMETRY ParamsSymmetry
INVARIANTS ProvisionIsIdempotent FailureAudited
CHECK_DEADLOCK FALSE
