CONSTANTS
    Control = Control
    Transfers = {t1, t2}
    MaxFrames = 4
    MaxReadAhead = 2
SPECIFICATION FairSpec
INVARIANTS TypeOK FramesInOrder
PROPERTIES LossIsFinal Refines ControlDelivered
CHECK_DEADLOCK FALSE
