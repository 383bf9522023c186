CONSTANTS
    Calls = {k1, k2, k3, k4}
    None = None
    EXPIRY = 2
SPECIFICATION FairSpec
INVARIANTS TypeOK OneIdentity
PROPERTIES IdentityStays GoneIsForgotten RunningIsFound
CHECK_DEADLOCK FALSE
