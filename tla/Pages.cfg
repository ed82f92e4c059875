CONSTANTS
    None = None
    MaxReads = 2
    MaxActs = 1
    MaxFaults = 1
    MaxCalls = 3
    CENT = 2
    SAT = 2
    CollateralSats = 3
    BORROW_LIMIT = 3
    UNIT = 2
    SHARE = 2
    Prices = {3, 5}
    MaxDebt = 2
    MaxPool = 3
    MaxUsdc = 2
    MaxMoves = 1
    OpenTabs = {t1, t2}
    Accounts = {a1, a2}
    MaxKeys = 2
    DUST_SATS = 2
    AmountSats = 4
    MaxCoins = 4
    MaxCoinSats = 6
    MaxUserActs = 4
    MaxHeld = 2
    BtcKeys = {k1, k2}
    MIN_DEPOSIT_SATS = 1
    MaxSats = 2
SPECIFICATION MCSpec
INVARIANTS PageIsHonest SpentTwiceOnlyIfUnsure OffersAreTaken WalletsAreKept FundsAreHonest DepositIsOrderly
PROPERTIES PageCatchesUp DeliveryIsFollowed
CHECK_DEADLOCK FALSE
