CONSTANTS
    Txid = {t1, t2}
    Block = {b1, b2}
    Coin = {x, y}
    Spent = Spent
    Missing = Missing
    NoBlock = NoBlock
SPECIFICATION Spec
INVARIANTS TypeOK FlagsHold
PROPERTIES Implements
