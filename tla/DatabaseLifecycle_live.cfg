CONSTANTS
    Hands = {h1}
    Kinds = {"start", "stop", "delete", "watchdog", "sync", "crash", "loss",
             "edit", "health", "force"}
    MaxWire = 1
    Born = FALSE
    EditTo = {"degraded"}
    MaxFaults = 0
SPECIFICATION FairSpec
PROPERTIES StuckResolves SyncCorrects
CHECK_DEADLOCK FALSE
