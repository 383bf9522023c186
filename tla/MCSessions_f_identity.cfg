CONSTANTS
    Devices = {a, b}
    Conns = {c1, c2}
    None = None
    MaxFaults = 0
SPECIFICATION Spec
INVARIANT AdvertisedPeerConnects
CHECK_DEADLOCK FALSE
