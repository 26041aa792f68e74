CONSTANTS
    Requests <- SomeRequests
    Backends <- Close
    Cap = 3
    Upsets = {}
    MaxBlobs = 1
SPECIFICATION Spec
INVARIANTS
    CompatGate
