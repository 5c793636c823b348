SPECIFICATION Spec
CONSTANTS
    User <- MCUser
    Cluster = {c1}
    Attrs = {access}
    Caller = {p1, p2}
    TTL = 2
    Deadline = 1
    MaxTime = 5
    None = none
    alice = alice
    dev = dev
    ops = ops
SYMMETRY Symmetry
INVARIANTS
    TypeOK
    EntriesAge
PROPERTIES
    RecentDecision
