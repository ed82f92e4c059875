CONSTANTS
    Burns = {m1, m2}
    Kinds = {"mint"}
    dailyCap = 1
    maxOpen = 2
    MINT_LOOKUP_ATTEMPTS = 1
    None = None
    Other = Other
    MaxSends = 2
    MaxReverts = 0
    MaxCrashes = 1
    Txids = {x1}
    Suppliers = {s1}
    FilesComplete = TRUE
    NoFile = NoFile
    MAX_VERIFY_ROUNDS = 2
    MaxLog = 3
    MaxLosses = 1
    MaxRetired = 1
    t1 = t1
    t2 = t2
    t3 = t3
    alice = alice
    bob = bob
    Tabs = {t1, t2, t3}
    Accounts = {alice, bob}
    ipClaimsPerWindow = 1
    ipWindow = 2
    NoCoin = NoCoin
    MaxDays = 1
    MaxFaults = 1
    Depositors = {"d1", "d2"}
    Amounts = {1}
    THIRTY_DAYS = 1
    NoCursor = NoCursor
    Clients = {c1, c2}
    Routes = {r1}
    limit = 2
    windowMs = 2
    ALERT_AFTER_CONSECUTIVE_FAILURES = 2
    MaxTime = 3
    MaxRequests = 4
    required = 1
    PAGE = 2
    MAX_PAGES_PER_REFRESH = 2
    Unknown = Unknown
    MaxTip = 1
    MaxOps = 3
    Browsers = {"b1"}
    owner = "owner"
    other = "other"
    MaxReports = 2
    MaxRows = 2
    AccountOf <- Holder
    Coins <- FirstCoins
    Genesis <- FirstDeposit
    MaxVaultCrashes = 1
SYMMETRY Alike
SPECIFICATION MCSpec
INVARIANTS CapHolds MintsAreTrue ArchiveIsWhole ClaimsAreBounded VaultsAreServed StatusIsTruthful OnboardingIsTrue
CHECK_DEADLOCK FALSE
