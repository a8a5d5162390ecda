SPECIFICATION MCSpec
CONSTANTS
    Subs = {s1, s2}
    MaxGen = 2
    None = None
INVARIANTS NoDeliveryAfterStop OneConsumer
PROPERTIES KeepsConsuming StopAndCloseEnd
CHECK_DEADLOCK FALSE
