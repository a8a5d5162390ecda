SPECIFICATION ReaderSpec
CONSTANTS
    MaxLog = 3
    MaxChans = 2
    MaxFails = 2
    Prefetch = 3
    Workers = 2
    FromNext = FALSE
INVARIANTS NothingSkipped
PROPERTIES ResumedExactly FailureStopsReader
CHECK_DEADLOCK FALSE
