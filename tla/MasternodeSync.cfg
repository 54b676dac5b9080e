CONSTANTS
    Item = {i1}
    Threshold = 1
    Quiet = 1
    Patience = 2
    RetryAfter = 1
    MaxPeers = 3
    MaxConnections = 4
    MaxItems = 2
    MaxResets = 1
SPECIFICATION SyncFairSpec
INVARIANTS SyncTypeOK HeardBeforeFinished NobodyAskedTwice
PROPERTIES SyncEnds
