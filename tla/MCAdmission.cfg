SPECIFICATION Spec
CONSTANTS
    a = a
    b = b
    onePack = onePack
    o1 = o1
    o2 = o2
    Nil = Nil
    Workers = {w1, w2, w3}
    ServiceTypes = {a, b}
    PackOf <- OnePack
    MaxInstances <- Caps
    Window = 10
    Obligations = {o1, o2}
    Decisions <- WithObligations
    Handlers = {o1}
    MaxRecords = 5
SYMMETRY WorkerSymmetry
INVARIANTS OvershootBounded AdmittedIsCleared RefusalAudited
