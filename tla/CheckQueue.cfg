CONSTANTS
    Workers = {w1, w2}
    Master = m
    Checks = {c1, c2, c3, c4}
    Fails = {c1}
    BatchSize = 2
SPECIFICATION FairSpec
INVARIANTS TypeOK CountersExact ConstructorAssert VerdictRight
PROPERTIES WaitReturns Implements
