CONSTANTS
    MaxRuns = 2
    MaxRequested = 1
    NumSteps = 2
    ContinueOnError = {1}
    MaxConcurrent = 2
    Slots = {0}
    CatchUpWindow = 0
    MaxTime = 1
    MaxMishaps = 1
SPECIFICATION FairSpec
INVARIANTS HistoryIsTrue SlotsReturned
PROPERTIES ImplementsOneRunner RunsClose GuardRecovers SlotIsRecorded
CHECK_DEADLOCK FALSE
