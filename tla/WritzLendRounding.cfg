CONSTANTS
    alice = alice
    bob = bob
    kay = kay
    t1 = t1
    t2 = t2
    spv1 = spv1
    oracle1 = oracle1
    Users = {alice, bob}
    Txids = {t1, t2}
    Utxo <- TwoUtxos
    Spvs = {spv1}
    Oracles = {oracle1}
    InitialConfig <- PoolConfig
    INDEX_ONE = 10
    BP_SCALE = 10
    U_OPTIMAL_BP = 7
    SLOPE1_BP = 4
    SLOPE2_BP = 10
    PROTOCOL_FEE_BP = 2
    LEDGERS_PER_YEAR = 2
    MIN_COLLATERAL_RATIO_BP = 15
    LIQUIDATION_THRESHOLD_BP = 12
    LIQUIDATION_BONUS_BP = 1
    SATS_PER_BTC = 1
    DEFAULT_BORROW_TIMELOCK_MARGIN = 3
    LIQUIDATION_CUTOFF_BLOCKS = 1
    MIN_MAX_TIP_AGE = 1
    MAX_MAX_TIP_AGE = 9
    MAX_MIN_CONFIRMATIONS = 20
    MIN_DEPOSIT_FLOOR = 1
    MIN_TIMELOCK_MARGIN = 4
    MAX_TIMELOCK_MARGIN = 9
    MAX_PRICE_STALENESS = 9
    PRICE_DIVISOR = 1
    PRICE_MULTIPLIER = 1
    MaxLedger = 2
    MaxCalls = 7
    NoUser = NoUser
    EntryTtls = {1}
    Amounts = {3, 7}
    Prices = {2}
    TipHeights = {1}
    Caps = {20}
    StaleWindows = {1}
    BorrowMargins = {3}
    TipAges = {9}
SPECIFICATION PoolSpec
INVARIANTS FullWithdrawalNeverFailsOnRounding
CHECK_DEADLOCK FALSE
