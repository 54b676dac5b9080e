CONSTANTS
    g1 = g1
    m1 = m1
    n1 = n1
    s1 = s1
    t1 = t1
    u1 = u1
    v1 = v1
    w1 = w1
    x1 = x1
    y1 = y1
    ga = ga
    gb = gb
    gc = gc
    mo = mo
    so = so
    to = to
    uo = uo
    vo = vo
    xo = xo
    Tx = {g1, m1, n1, s1, t1, u1, v1, w1, x1, y1}
    Output = {ga, gb, gc, mo, so, to, uo, vo, xo}
    Of <- MCOf
    Inputs <- MCInputs
    Minted = {g1, m1, n1, s1}
    TxOrder <- MCTxOrder
    HashOrder <- MCHashOrder
    Base = g1
    Maturity = 2
    Peer = {p1, p2}
    MaxOrphans = 2
    MaxHeight = 4
SPECIFICATION Spec
INVARIANTS TypeOK CheckPasses OrphansIndexed
PROPERTIES LeavesForCause
CHECK_DEADLOCK FALSE
