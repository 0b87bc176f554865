CONSTANTS
    Hands = {h1, h2}
    Kinds = {"delete", "remove", "oldRunner", "protect", "restart", "revive"}
    MaxWire = 2
    Born = FALSE
    EditTo = {}
    MaxFaults = 0
SPECIFICATION Spec
SYMMETRY Symmetry
INVARIANT RetiredIsGone
CHECK_DEADLOCK FALSE
