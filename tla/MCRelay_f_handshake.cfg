CONSTANTS
    Devices = {1, 2}
    Sids = {s1}
    None = None
    BothMustRequest = FALSE
    MaxFrames = 1
    MaxFaults = 0
SPECIFICATION FairSpec
PROPERTY HandshakeCompletes
CHECK_DEADLOCK FALSE
