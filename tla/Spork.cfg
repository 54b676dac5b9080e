CONSTANTS
    s = s
    a = a
    b = b
    Node = {s, a, b}
    Signer = s
    None = None
    Dials <- MCDials
    SyncPeers = 1
    MaxTime = 1
    MaxUpdates = 2
    MaxFaults = 2
SPECIFICATION FairSpec
INVARIANTS TypeOK NothingMissed
PROPERTIES NeverOlder UpdateReaches
CHECK_DEADLOCK FALSE
