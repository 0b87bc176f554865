CONSTANTS
    Workers = {w1}
    Commands = {}
    MaxConnects = 2
    MaxTimers = 1
    MaxWorkerSessions = 1
    QueueSize = 1
    AlertModes = {"immediate", "delayed"}
    EditStatus = {"maintenance"}
    MaxFaults = 1
    MaxRestarts = 1
    MaxEdits = 1
SPECIFICATION FairSpec
PROPERTY StatusHeals
CHECK_DEADLOCK FALSE
