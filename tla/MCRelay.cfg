CONSTANTS
    Devices = {1, 2}
    Sids = {s1}
    None = None
    BothMustRequest = FALSE
    MaxFrames = 2
    MaxFaults = 1
SPECIFICATION FairSpec
INVARIANTS TypeOK HandshakeInStep RelaySessionAuthentic
PROPERTIES RelayRefines HandshakeEnds
CHECK_DEADLOCK FALSE
