SPECIFICATION MCSpec
CONSTANTS
    Service = {1, 2}
    PerMilli = 2
    PerSecond = 4
    MaxDuration = 31
    MaxTrouble = 2
    Rungs <- MCRungs
    RetryRung = 4
    Delays = {0, 1, 5, 11, 19}
    MaxSlack = 1
    MaxFailures = 2
    Policies <- MCPolicies
    RunPolicies <- MCRunPolicies
    Styles <- MCStyles
INVARIANTS NothingLostWaiting SameDeclarations DueInTime
PROPERTY WaitsEnd
CHECK_DEADLOCK FALSE
