CONSTANTS
    MaxRows = 2
    PoolSize = 2
    LiveStatus = {"running", "stopped"}
    Actions = {"start", "remove"}
    MaxChanges = 2
SPECIFICATION FairSpec
PROPERTIES SyncCorrects HealthFollows
CHECK_DEADLOCK FALSE
