SPECIFICATION FairSpec
CONSTANTS
    Nil = Nil
    Instances = {i1}
    Params = {p1, p2}
    Bindings = {}
    Procs = {n1}
    Clients = {w1}
    Reconcilers = {w2}
    ProcOf <- OneProcess
    Rank <- ScanOrder
    BatchLimit = 2
    Faults = {"write", "render", "timeout", "tamper", "crash"}
    MaxVersion = 2
    MaxRequests = 2
    MaxFaults = 2
PROPERTIES Converges
CHECK_DEADLOCK FALSE
