SPECIFICATION FairSpec
CONSTANTS
    Hostname = {frontproxy, gateway}
    Client = {c1, c2}
    NoURL = nourl
INVARIANTS
    ReadyMeansLive
    DialsFrontProxy
PROPERTIES
    SignalEndsProcess
CHECK_DEADLOCK FALSE
