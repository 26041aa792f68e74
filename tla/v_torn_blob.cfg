CONSTANTS
    r1 = r1
    r2 = r2
    r3 = r3
    s1 = s1
    s2 = s2
    Reqs <- TwoTurns
    Sessions <- OneSession
    SlotIds <- OneSlot
    None = None
    Empty = Empty
    Torn = Torn
    Traffic = "concurrent"
    Capacity = 99
    Faults = {}
    Leaves = {"handler"}
    Crashes = {}
    Bypassing = FALSE
SPECIFICATION Spec
INVARIANTS
    WholeBlobs
