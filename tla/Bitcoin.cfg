CONSTANTS
    c0 = c0
    a1 = a1
    a2 = a2
    b1 = b1
    b2 = b2
    b3 = b3
    d0 = d0
    e1 = e1
    e2 = e2
    e3 = e3
    e4 = e4
    f1 = f1
    f2 = f2
    f3 = f3
    Blocks = {c0, a1, a2, b1, b2, b3, d0, e1, e2, e3, f1, f2, f3}
    NoBlock = NoBlock
    Header <- Forks
    CheckpointArgs <- Both
    ada = ada
    sam = sam
    Addresses = {ada, sam}
    NoAddress = NoAddress
    InitialAdmin = ada
    Txids = {tx}
    tx = tx
    BASE = 4
    DIGITS = 6
    RETARGET_INTERVAL = 4
    TARGET_TIMESPAN = 8
    POW_LIMIT_BITS <- PowLimitBits
    MAX_HEADERS_PER_SUBMIT = 2
    MAX_REORG_DEPTH = 2
    MAX_FUTURE_DRIFT_SECS = 18
    TtlWindows = {1}
    MaxHeight = 5
    MaxNow = 1
    POW_LIMIT = 124
    MaxSpan = 40
    Txs = {tx1, tx2, tx3}
    Short <- OneShort
    Foreign = Foreign
    MaxTxs = 3
    confirmations = 2
    DEEP_CONFIRMATION_DEPTH = 3
    None = None
    Unknown = Unknown
    MaxBlocks = 6
    MaxReorgs = 1
    MaxFaults = 1
SPECIFICATION MCSpec
INVARIANTS CanonicalWithinPeriod ShallowForkNotStuck DifficultyFollowsOwnBranch TargetsAreExact InclusionIsExact ServedProofVerifies
PROPERTIES DeepBlocksStay
CHECK_DEADLOCK FALSE
