SPECIFICATION FairSpec
CONSTANTS
    Id = {east, west}
    Caller = {p1, p2}
    Cache = {c1, c2, c3, c4}
    Cfg = {url}
    Starter = starter
    None = none
INVARIANTS
    TypeOK
    ReadersSeeLiveCaches
    NoOrphanCache
    AggregateMatchesActive
PROPERTIES
    RegisteredIsKept
    ImplementsShardView
    CallsReturn
