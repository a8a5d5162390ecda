SPECIFICATION CloseSpec
CONSTANTS
    Msg = {m1}
    Copies = {c1, c2, c3}
    Workers = {w1, w2}
    Prefetch = 1
    MaxAttempts = 2
    BrokerWaits = {1}
    DrainBound = TRUE
    MaxTrouble = 1
    None = None
PROPERTIES CloseReturns EventuallySettled
