CONSTANTS
    r1 = r1
    r2 = r2
    k1 = k1
    k2 = k2
    Reqs <- Requests
    Sessions <- Families
    SlotIds <- TwoSlots
    None = None
    Empty = Empty
    Torn = Torn
    SharedSlots = FALSE
    SeedFaults = {"slots", "restore", "prefill", "save", "publish", "lostFresh"}
SPECIFICATION SeedSpec
INVARIANTS
    SeedTypeOK
    SeedOwner
    NothingOnProcessing
    ConfirmedIsSaved
    EveryFamilyDecided
PROPERTIES
    EveryCallServed
