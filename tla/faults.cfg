CONSTANTS
    r1 = r1
    r2 = r2
    r3 = r3
    s1 = s1
    s2 = s2
    Reqs <- TwoTurns
    Sessions <- TwoSessions
    SlotIds <- TwoSlots
    None = None
    Empty = Empty
    Torn = Torn
    Traffic = "concurrent"
    Capacity = 1
    Faults = {"restore", "save", "publish", "chat"}
    Leaves = {"stream"}
    Crashes = {"proxy", "backend"}
    Bypassing = TRUE
SPECIFICATION FairSpec
INVARIANTS
    TypeOK
    DirtyIsOwned
    GateExclusion
    WholeBlobs
PROPERTIES
    EveryTurnEnds
    ImplementsForest
