CONSTANTS
    Procs = {p1, p2}
    Slots = {0, 1}
    CatchUpWindow = 1
    RunTimeout = 1
    MaxTime = 3
    MaxSnapshots = 2
    MaxFaults = 1
    MaxCrashes = 1
SPECIFICATION FairSpec
INVARIANTS SlotOnce NoOverlap
PROPERTY RunsClose
CHECK_DEADLOCK FALSE
