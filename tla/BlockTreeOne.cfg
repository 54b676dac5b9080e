CONSTANTS
    g = g
    a1 = a1
    a2 = a2
    a3 = a3
    b1 = b1
    b2 = b2
    b3 = b3
    Block = {g, a1, a2, a3, b1, b2, b3}
    Genesis = g
    Parent <- MCParent
    Proof <- MCProof
    Height <- MCHeight
    Work <- MCWork
    None = None
    BadContext = {}
    Invalid = {a2}
    Contextual = {}
    Checkpointed = {}
    MaxReorg = 9
    Thread = {t1}
    Operations = {"invalidate", "reconsider", "writeFails", "systemError"}
    Budget = 3
SPECIFICATION Spec
INVARIANTS TypeOK TipIsBest
PROPERTIES CheckBlockIndexPasses
CHECK_DEADLOCK FALSE
