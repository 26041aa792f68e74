CONSTANTS
    Names <- AllKinds
    Bytes <- SumOfSizes
    Mtimes = {1, 2, 3}
    Now = 3
    Grace = 1
    Limit = 2
    MaxWrites = 1
SPECIFICATION Spec
INVARIANTS
    FreedIsExact
    PairsTogether
    GraceHonoured
    OldestFirst
    StopsAtLimit
    ReachesLimit
    EnforcementSuffices
