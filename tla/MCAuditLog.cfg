SPECIFICATION Spec
CONSTANTS
    Threads = {t1, t2}
    BufferCap = 2
    SpoolCap = 1
    MaxEvents = 4
    Hashed = {3}
    Ambiguous = {"insert", "spool", "line", "unlink"}
    MaxFaults = 5
    MaxCrashes = 1
SYMMETRY ThreadSymmetry
INVARIANTS TypeOK 
PROPERTIES ImplementsLog
CHECK_DEADLOCK FALSE
