CONSTANTS
    r1 = r1
    r2 = r2
    r3 = r3
    s1 = s1
    s2 = s2
    Reqs <- ThreeTurns
    Sessions <- TwoSessions
    SlotIds <- TwoSlots
    None = None
    Empty = Empty
    Torn = Torn
    Traffic = "settled"
    Capacity = 1
    Faults = {"slots", "restore", "save", "publish", "chat"}
    Leaves = {"handler", "stream"}
    Crashes = {"proxy"}
    Bypassing = FALSE
SPECIFICATION Spec
SYMMETRY Symmetry
INVARIANTS
    DecodeOutsideGate
PROPERTIES
    NeverStealDirty
    NeverOverwriteDirty
    CleanIsPublished
