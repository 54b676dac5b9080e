CONSTANTS
    g = g
    a1 = a1
    a2 = a2
    a3 = a3
    b1 = b1
    b2 = b2
    b3 = b3
    Block = {g, a1, b1, a2, a3, b2}
    Genesis = g
    Parent <- MCParent
    Proof <- MCProof
    Height <- MCHeight
    Work <- MCWork
    None = None
    BadContext = {b2}
    Invalid = {b1}
    Contextual = {a2}
    Checkpointed = {a1}
    MaxReorg = 1
    Thread = {t1, t2}
    Operations = {"invalidate", "reconsider", "reconsiderAny", "reprocess", "writeFails", "systemError"}
    Budget = 1
SPECIFICATION FairSpec
INVARIANTS IndexConsistent ChainIsValid
PROPERTIES ActivationEnds
CHECK_DEADLOCK FALSE
