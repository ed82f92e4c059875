CONSTANTS
    headers = headers
    release = release
    Submitters = {headers, release}
    Bid <- Bids
    NoTx = NoTx
    NoTip = NoTip
    configuredFrom = 1
    REORG_RESUBMIT_DEPTH = 1
    MAX_HEADERS_PER_SUBMIT = 3
    MAX_REORG_DEPTH = 4
    MaxHeight = 4
    MaxReorgs = 1
    MaxFaults = 1
    MaxCrashes = 1
    good = good
    bad = bad
    NoTxid = NoTxid
    Txids = {good, bad}
    Unsignable = {bad}
    MAX_RELEASE_ATTEMPTS = 2
    PUBLISH_RETRIES = 1
    DueLimit = 1
    Burns = {b1}
    Kinds = {"mint", "foreign", "bad"}
    dailyCap = 1
    maxOpen = 1
    MINT_LOOKUP_ATTEMPTS = 2
    None = None
    Other = Other
    MaxSends = 2
    MaxReverts = 1
SPECIFICATION MCSpec
INVARIANTS NoCallWasted RepaymentsKept
PROPERTIES HeadersCatchUp PromiseKept ReleasedOrStuck RetryingEnds
CHECK_DEADLOCK FALSE
