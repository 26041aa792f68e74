CONSTANTS
    r1 = r1
    r2 = r2
    r3 = r3
    s1 = s1
    s2 = s2
    Reqs <- ThreeTurns
    Sessions <- TwoSessions
    SlotIds <- OneSlot
    None = None
    Empty = Empty
    Torn = Torn
    Traffic = "sequential"
    Capacity = 99
    Faults = {}
    Leaves = {}
    Crashes = {}
    Bypassing = FALSE
SPECIFICATION Spec
INVARIANTS
    BlobOwner
