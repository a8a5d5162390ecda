SPECIFICATION Spec
CONSTANTS
    Msg = {m1, m2}
    Copies = {c1, c2, c3}
    Workers = {w1}
    Prefetch = 2
    MaxAttempts = 2
    BrokerWaits = {}
    DrainBound = TRUE
    MaxTrouble = 1
    None = None
SYMMETRY Symmetry
INVARIANTS NoLoss SettledOnce ExactlyOnceIfClean
PROPERTIES AttemptNeverForgotten
