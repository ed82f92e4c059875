CONSTANTS
    Burns = {b1}
    Kinds = {"mint"}
    dailyCap = 1
    maxOpen = 1
    MINT_LOOKUP_ATTEMPTS = 2
    None = None
    Other = Other
    MaxSends = 2
    MaxReverts = 0
    MaxCrashes = 0
SPECIFICATION PatientSpec
PROPERTIES AskedAgainArrives
CHECK_DEADLOCK FALSE
