CONSTANTS
    r1 = r1
    r2 = r2
    r3 = r3
    s1 = s1
    s2 = s2
    Reqs <- ThreeTurns
    Sessions <- TwoSessions
    SlotIds <- TwoSlots
    None = None
    Empty = Empty
    Torn = Torn
    Traffic = "settled"
    Capacity = 1
    Faults = {}
    Leaves = {"stream"}
    Crashes = {"proxy"}
    Bypassing = FALSE
SPECIFICATION FairSpec
INVARIANTS
    BlobOwner
    HotIsTrue
    AbandonedNotPublished
PROPERTIES
    WarmStart
    FinishedTurnPersists
