SPECIFICATION FairSpec
CONSTANTS
    a = a
    p = p
    q = q
    App = {a}
    Poller = {p, q}
    Chain = {"bsc", "eth"}
    Nobody = "nobody"
    MaxFaults = 1
INVARIANTS
    OneRestart
    StoppedUnlessRaced
    ObservesItsChain
PROPERTIES
    Reconnects
CHECK_DEADLOCK FALSE
