SPECIFICATION Spec
CONSTANTS
    None = None
    Threads = {t1, t2, t3}
    MaxSignals = 1
INVARIANTS
    CirclesAreKnown
SYMMETRY Symmetry
CHECK_DEADLOCK FALSE
