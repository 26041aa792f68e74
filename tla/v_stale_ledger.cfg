CONSTANTS
    MaxSaves = 2
    Failures = {}
    Sidecars = "sometimes"
SPECIFICATION Spec
CHECK_DEADLOCK FALSE
INVARIANTS
    LedgerOfItsBlob
