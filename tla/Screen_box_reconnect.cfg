SPECIFICATION Spec
CONSTANTS
    Conns = {k1, k2}
    None = None
    MaxQueue = 2
INVARIANT NeverBlank
CHECK_DEADLOCK FALSE
