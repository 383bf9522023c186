CONSTANTS
    FILE_SIZE = 9000000
    CHUNK_SIZE = 8388608
    DEFAULT_PARALLELISM = 6
    NOISE_MAX = 65535
    JSON_WIDTH = 2
    FdSource = FALSE
    Faults = {}
    Pausable = FALSE
    MaxConns = 1
    MaxAnswers = 1
    MaxCancels = 0
    MaxCrashes = 0
SPECIFICATION FairSpec
PROPERTY AcceptedFileArrives
CHECK_DEADLOCK FALSE
