CONSTANTS
    Tabs = {t1, t2}
    Txids = {x1, x2}
    None = None
    MaxSigned = 2
    MaxStops = 1
    MaxIndex = 1
    MAX_REMAINDER_REPAYS = 1
    MaxDebt = 2
    MaxCalls = 2
    MaxInterest = 1
    MaxFaults = 1
SYMMETRY Sym
CONSTRAINT BeforeRace
SPECIFICATION MCSpec
INVARIANTS OrphanedOnlyByRace SecondCallOnlyByRace NoConfirmedTxForgotten RepayAllCloses
CHECK_DEADLOCK FALSE
