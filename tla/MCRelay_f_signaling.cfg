CONSTANTS
    Devices = {1, 2}
    Sids = {s1}
    None = None
    BothMustRequest = FALSE
    MaxFrames = 1
    MaxFaults = 1
SPECIFICATION FairSpec
INVARIANT SignalingStaysSet
CHECK_DEADLOCK FALSE
