CONSTANTS
    Stacks = {s1}
    SlowStacks = {s1}
    Slots = {r1, r2}
    Pumps = {p1}
    MaxDeps = 2
    Seeded = 0
    EditStatus = {}
    PoolSize = 1
    MaxRetry = 1
    MaxFaults = 0
    MaxCrashes = 0
    MaxEdits = 0
SPECIFICATION Spec
SYMMETRY Symmetry
INVARIANTS ClaimExclusive NoStrandedClaim Watched
CHECK_DEADLOCK FALSE
