CONSTANTS
    Devices = {a, b}
    Conns = {c1, c2}
    None = None
    MaxFaults = 1
SPECIFICATION FairSpec
INVARIANTS TypeOK SessionIsRead SettledAgrees SettledShown
PROPERTY HalfOpenEnds
CHECK_DEADLOCK FALSE
