CONSTANTS
    mnode = mnode
    near = near
    behindIt = behindIt
    Node = {mnode, near, behindIt}
    Self = mnode
    None = None
    Link <- MCLink
    Gap = 2
    Window = 3
    Expiration = 4
    Removal = 5
    Forgotten = 6
    AskAgain = 2
    MaxBroadcasts = 3
    MaxRare = 1
SPECIFICATION ListFairSpec
INVARIANT ListTypeOK
PROPERTIES ComesBack LeavesLists
