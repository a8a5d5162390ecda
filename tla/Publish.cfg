SPECIFICATION BatchSpec
CONSTANTS
    Publishers = {p1, p2, p3, p4}
    Bound = 2
    SeenLimit = 2
    MaxPubs = 4
    MaxGen = 1
    MaxCancels = 1
INVARIANTS ToldTruly AnswerOnItsWay
SYMMETRY Symmetry
CHECK_DEADLOCK FALSE
