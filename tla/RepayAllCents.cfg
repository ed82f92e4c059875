CONSTANTS
    None = None
    CENT = 2
    SAT = 2
    CollateralSats = 3
    BORROW_LIMIT = 3
    UNIT = 2
    SHARE = 2
    Prices = {3, 5}
    MaxDebt = 3
    MaxPool = 4
    MaxUsdc = 4
    MaxMoves = 1
    MaxActs = 1
SPECIFICATION Spec
INVARIANT RepayAllSendsDebt
CHECK_DEADLOCK FALSE
