CONSTANTS
    Hands = {h1, h2}
    Kinds = {"final", "snapshot", "sweep"}
    MaxWire = 2
    Born = TRUE
    EditTo = {}
    MaxFaults = 1
SPECIFICATION Spec
SYMMETRY Symmetry
INVARIANT CopyBeforePurge
CHECK_DEADLOCK FALSE
