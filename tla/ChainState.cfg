CONSTANTS
    g = g
    a1 = a1
    a2 = a2
    a3 = a3
    b1 = b1
    b2 = b2
    Block = {g, a1, a2, b1}
    Genesis = g
    Parent <- MCParent
    Ancestors <- MCAncestors
    Height <- MCHeight
    CheckBlocks = 100
    Faults = {"outOfDisk", "indexFails", "powerFailure"}
SPECIFICATION Spec
INVARIANTS TypeOK Recoverable CoinsAreTips
PROPERTIES CleanStop
CHECK_DEADLOCK FALSE
