SPECIFICATION Spec
CONSTANTS
    Id = {east, west}
    Worker = {p, q}
    Cache = {c1, c2, c3, c4}
    URL = {e1, e2, w1, bad, unset}
    BaseURLs <- MCBaseURLs
    Unset = unset
    Unparsable = {bad}
    Hostname <- MCHostname
    Gateway = gateway
    Starter = starter
    None = none
    east = east
    west = west
    e1 = e1
    e2 = e2
    w1 = w1
    bad = bad
    unset = unset
    host1 = host1
    host2 = host2
    host3 = host3
SYMMETRY Symmetry
INVARIANTS
    TypeOK
    SettledMatchesShards
    DialsOwnShard
    NoLostRace
