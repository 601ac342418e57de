CONSTANTS
    t1 = t1
    t2 = t2
    Threads = {t1, t2}
    MaxSequence = 3
    MaxClock = 2
    MaxIds = 3
SYMMETRY ThreadSymmetry
SPECIFICATION Spec
INVARIANT IdsUnique
CHECK_DEADLOCK FALSE
