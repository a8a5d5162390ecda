SPECIFICATION MCSpec
CONSTANTS
    MaxGen = 1
    MaxFlips = 2
    Timeout = 1
    CheckTimeout = 1
    Limits = {1, 2}
    MaxAbandoned = 1
INVARIANTS BlockedIsTrue ProbeTellsWhy
PROPERTIES QuietBrokerWaitsEnd
CHECK_DEADLOCK FALSE
