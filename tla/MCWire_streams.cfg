CONSTANTS
    Control = Control
    Transfers = {t1}
    MaxFrames = 3
    MaxReadAhead = 1
SPECIFICATION Spec
INVARIANT StreamsStayDecryptable
CHECK_DEADLOCK FALSE
