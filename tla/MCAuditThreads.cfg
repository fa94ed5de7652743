SPECIFICATION Spec
CONSTANTS
    Threads = {t1, t2}
    BufferCap = 2
    SpoolCap = 2
    MaxEvents = 6
    Hashed = {2}
    Ambiguous = {"line"}
    MaxFaults = 5
    MaxCrashes = 0
SYMMETRY ThreadSymmetry
INVARIANTS NoDuplicates EveryLossLogged
CHECK_DEADLOCK FALSE
