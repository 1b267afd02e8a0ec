SPECIFICATION Spec
CONSTANTS
    Threads = {a1}
    Worlds <- MCConfirmed
INVARIANTS
    OrphansArePromoted
CHECK_DEADLOCK FALSE
