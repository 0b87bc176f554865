CONSTANTS
    Hands = {h1, h2}
    Primary = d0
    Mirrors = {d1}
    RetentionCount = 1
    Seeded = 2
    MaxSnapshots = 4
    MaxFaults = 1
    MaxEdits = 1
SPECIFICATION Spec
INVARIANT ReplicaIsReal
PROPERTY RetentionFloor
SYMMETRY Symmetry
CHECK_DEADLOCK FALSE
