CONSTANTS
    Requests <- SomeRequests
    Backends <- Apart
    Cap = 3
    Upsets = {}
    MaxBlobs = 1
SPECIFICATION Spec
INVARIANTS
    SafeNames
    Isolation
    BackendApart
    Sticky
