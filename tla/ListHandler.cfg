SPECIFICATION FairSpec
CONSTANTS
    Snapshots <- MCSnapshots
    Limit = 2
    Pending = pending
    Failed = failed
    a = a
    b = b
    c = c
    d = d
INVARIANTS
    FanOutBounded
    RootCause
PROPERTIES
    KeepsAllowedInOrder
    EveryRequestAnswered
CHECK_DEADLOCK FALSE
