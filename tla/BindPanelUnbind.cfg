SPECIFICATION FairSpec
CONSTANTS
    Path = {p1}
    Export = {e1}
    Call = {c1, c2}
    None = None
PROPERTIES
    UnbindWaits
CHECK_DEADLOCK FALSE
