SPECIFICATION PagesSpec
CONSTANTS
    Cluster = {1, 2}
    Path = {1, 2}
    Name = {1, 2}
    Body = {b}
    MaxLen = 3
INVARIANTS
    ShowsEachOnce
    OrderOfShardsUnseen
CHECK_DEADLOCK FALSE
