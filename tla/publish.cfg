CONSTANTS
    MaxSaves = 2
    Failures = {"save", "fsync", "rename", "sidecar", "unlink", "drop", "crash", "power"}
    Sidecars = "sometimes"
SPECIFICATION Spec
INVARIANTS
    TypeOK
    BlobsSurvive
    AckedSurvives
    LedgerNotAhead
PROPERTIES
    ImplementsRegister
