CONSTANTS
    Stacks = {s1}
    SlowStacks = {s1}
    Slots = {r1}
    Pumps = {}
    MaxDeps = 3
    Seeded = 2
    EditStatus = {"active", "deploying"}
    PoolSize = 1
    MaxRetry = 2
    MaxFaults = 1
    MaxCrashes = 1
    MaxEdits = 1
SPECIFICATION FairSpec
PROPERTIES MonitorEndsSettled DispatchSettles ClaimRecovers
CHECK_DEADLOCK FALSE
