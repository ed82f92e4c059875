CONSTANTS
    Txids = {x1}
    Suppliers = {s1}
    FilesComplete = FALSE
    NoFile = NoFile
    MAX_VERIFY_ROUNDS = 1
    MaxLog = 3
    MaxLosses = 1
    MaxRetired = 1
SPECIFICATION Spec
INVARIANT AcceptedFileIsProven
CHECK_DEADLOCK FALSE
