CONSTANTS
    m1 = m1
    m2 = m2
    a = a
    b = b
    Damaged = Damaged
    Node = {m1, m2}
    Masternode = {m1, m2}
    Payee = {a, b}
    None = None
    MaxTip = 2
    Ahead = 1
    Past = 0
    Limit = 0
    Voters <- MCVoters
    Total = 2
    Required = 2
    Stopping = {m1}
    MaxFaults = 2
SPECIFICATION Spec
SYMMETRY PayeeSymmetry
INVARIANTS TypeOK CountsBacked PayeesAgree
CHECK_DEADLOCK FALSE
