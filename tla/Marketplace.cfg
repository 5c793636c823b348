SPECIFICATION Spec
CONSTANTS
    User <- MCUser
    Cluster = {c1}
    Attrs = {access}
    TTL = 1
    Deadline = 1
    MaxTime = 4
    None = none
    Snapshots <- MCOne
    Limit = 2
    Pending = pending
    Failed = failed
    alice = alice
    dev = dev
    ops = ops
    c1 = c1
    access = access
INVARIANTS
    InStep
PROPERTIES
    SeesRecentDecisions
CHECK_DEADLOCK FALSE
