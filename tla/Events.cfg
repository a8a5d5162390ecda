SPECIFICATION MCSpec
CONSTANTS
    Event = {e1, e2}
    Relay = {r1}
    Worker = {w1, w2}
    MaxTrouble = 2
    MaxAttempts = 1
    Batch = 2
    ClaimTimeout = 2
    TTL = 1
    MaxLag = 1
    Absent = Absent
INVARIANTS AcceptedMeansDone OneHandler
PROPERTIES OrderKept MeetsContract
CHECK_DEADLOCK FALSE
