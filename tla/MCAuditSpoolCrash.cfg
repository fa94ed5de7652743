SPECIFICATION Spec
CONSTANTS
    Threads = {t1}
    BufferCap = 2
    SpoolCap = 2
    MaxEvents = 5
    Hashed = {}
    Ambiguous = {}
    MaxFaults = 4
    MaxCrashes = 1
SYMMETRY ThreadSymmetry
INVARIANTS SpooledNeverLost
CHECK_DEADLOCK FALSE
