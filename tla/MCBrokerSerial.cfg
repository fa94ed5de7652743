SPECIFICATION Spec
CONSTANTS
    Nil = Nil
    Instances = {i1}
    Params = {p1, p2}
    Bindings = {b1}
    Procs = {n1}
    Clients = {w1}
    Reconcilers = {w1}
    ProcOf <- OneProcess
    Rank <- ScanOrder
    BatchLimit = 2
    Faults = {"write", "render", "meter", "catalog", "tamper"}
    MaxVersion = 3
    MaxRequests = 4
    MaxFaults = 2
SYMMETRY ParamsSymmetry
INVARIANTS NoOrphanArtifacts
PROPERTIES ArtifactsImmutable
CHECK_DEADLOCK FALSE
