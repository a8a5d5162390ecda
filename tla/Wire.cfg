SPECIFICATION MCSpec
CONSTANTS
    Workers = {w1, w2}
    Keys <- MCKeys
    Tenants <- MCTenants
    Senders = {"g1", "g2", "g3"}
    Codecs = {"c1", "c2"}
    CodecOf <- MCCodecOf
    Definitions = {"old", "new"}
    Readable <- MCReadable
    Foreign <- MCForeign
    Bindings <- MCBindings
    Words <- MCWords
    MaxAttempts = 2
    MaxTrouble = 1
INVARIANTS ReadAsWritten HeadersSurvive RoutedAsBound OneAtATime
SYMMETRY Symmetry
CHECK_DEADLOCK FALSE
