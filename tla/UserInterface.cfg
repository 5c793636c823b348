SPECIFICATION FairSpec
CONSTANTS
    Handler = {h1, h2, h3}
    MaxRedirects = 3
    Path = {p1, p2}
    None = None
    Resource = {r1, r2}
    Loader = {l1, l2}
    Picker = {k1, k2}
    Export = {e1, e2}
    Call = {c1, c2}
INVARIANTS
    OneForcedRedirect
    ShowsTheSelection
    PanelIsHonest
PROPERTIES
    SilentFirst
    UnauthorizedIsHandled
    SessionRecovers
    NothingStaysBusy
CHECK_DEADLOCK FALSE
