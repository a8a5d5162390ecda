SPECIFICATION MCFair
CONSTANTS
    Run = {r1}
    N = 2
    MaxAttempts = 2
    MaxTrouble = 2
    Inline = Inline
    MaxKeys = 2
    Limit = 1
    MaxReplays = 1
    Size = 2
INVARIANTS RunAccounted WorkInOrder NothingUnreadable
PROPERTIES RunsAndReplaysEnd
CHECK_DEADLOCK FALSE
