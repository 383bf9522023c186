CONSTANTS
    FILE_SIZE = 3
    CHUNK_SIZE = 2
    DEFAULT_PARALLELISM = 2
    NOISE_MAX = 100
    JSON_WIDTH = 4
    FdSource = FALSE
    Faults = {"lost", "silent", "io"}
    Pausable = TRUE
    MaxConns = 1
    MaxAnswers = 1
    MaxCancels = 1
    MaxCrashes = 0
SPECIFICATION FairSpec
INVARIANTS TypeOK CancelStopsSpawning
PROPERTIES RunsEnd OfferDecided AcceptedFileArrives
CHECK_DEADLOCK FALSE
