SPECIFICATION FairSpec
CONSTANTS
    Id = {east, west}
    Worker = {p}
    Cache = {c1, c2, c3}
    URL = {e1, e2, w1, bad, unset}
    BaseURLs <- MCPlainURLs
    Unset = unset
    Unparsable = {bad}
    Hostname <- MCHostname
    Gateway = none
    Starter = starter
    None = none
    east = east
    west = west
    e1 = e1
    e2 = e2
    w1 = w1
    bad = bad
    unset = unset
    host1 = host1
    host2 = host2
    host3 = host3
PROPERTIES
    DeletedIsWithdrawn
    UsableIsRegistered
