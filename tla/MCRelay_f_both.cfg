CONSTANTS
    Devices = {1, 2}
    Sids = {s1}
    None = None
    BothMustRequest = TRUE
    MaxFrames = 1
    MaxFaults = 0
SPECIFICATION FairSpec
PROPERTY RelayGranted
CHECK_DEADLOCK FALSE
