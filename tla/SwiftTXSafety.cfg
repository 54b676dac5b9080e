CONSTANTS
    A = A
    B = B
    i = i
    j = j
    m1 = m1
    m2 = m2
    m3 = m3
    None = None
    Tx = {A, B}
    Input = {i, j}
    Inputs <- MCInputs
    Masternode = {m1, m2, m3}
    Self = m1
    Required = 2
SPECIFICATION Spec
SYMMETRY MasternodeSymmetry
INVARIANTS TypeOK QuorumDistinct
PROPERTIES LockNotStolen
CHECK_DEADLOCK FALSE
