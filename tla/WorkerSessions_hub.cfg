CONSTANTS
    Workers = {w1, w2}
    Commands = {c1}
    MaxConnects = 3
    MaxTimers = 1
    MaxWorkerSessions = 1
    QueueSize = 1
    AlertModes = {"disabled", "delayed"}
    EditStatus = {}
    MaxFaults = 0
    MaxRestarts = 0
    MaxEdits = 0
SPECIFICATION Spec
SYMMETRY Symmetry
INVARIANTS HubListsOpenSession HubIsCurrent StatusAgrees
CHECK_DEADLOCK FALSE
