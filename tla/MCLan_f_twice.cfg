CONSTANTS
    Calls = {k1, k2, k3}
    None = None
    EXPIRY = 1
SPECIFICATION Spec
INVARIANT OneStack
CHECK_DEADLOCK FALSE
