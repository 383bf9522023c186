CONSTANTS
    FILE_SIZE = 3
    CHUNK_SIZE = 2
    DEFAULT_PARALLELISM = 2
    NOISE_MAX = 100
    JSON_WIDTH = 4
    FdSource = FALSE
    Faults = {}
    Pausable = FALSE
    MaxConns = 2
    MaxAnswers = 1
    MaxCancels = 0
    MaxCrashes = 1
SPECIFICATION Spec
INVARIANT ResumeSkipsReceived
CHECK_DEADLOCK FALSE
