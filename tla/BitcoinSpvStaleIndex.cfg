CONSTANTS
    c0 = c0
    a1 = a1
    a2 = a2
    b1 = b1
    b2 = b2
    b3 = b3
    d0 = d0
    e1 = e1
    e2 = e2
    e3 = e3
    e4 = e4
    f1 = f1
    f2 = f2
    f3 = f3
    Blocks = {d0, e1, e2, e3, e4, f1, f2, f3}
    NoBlock = NoBlock
    Header <- Forks
    CheckpointArgs <- OnlyD
    ada = ada
    sam = sam
    Addresses = {ada, sam}
    NoAddress = NoAddress
    InitialAdmin = ada
    Txids = {tx}
    tx = tx
    BASE = 4
    DIGITS = 6
    RETARGET_INTERVAL = 4
    TARGET_TIMESPAN = 8
    POW_LIMIT_BITS <- PowLimitBits
    MAX_HEADERS_PER_SUBMIT = 2
    MAX_REORG_DEPTH = 4
    MAX_FUTURE_DRIFT_SECS = 18
    TtlWindows = {1}
    MaxHeight = 6
    MaxNow = 1
SPECIFICATION Spec
INVARIANT CanonicalIsBestChain
CHECK_DEADLOCK FALSE
