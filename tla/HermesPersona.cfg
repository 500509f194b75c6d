SPECIFICATION Spec
CONSTANTS
    MaxTurn = 4
    Cadence = 2
    Library = {"persona", "protocol"}
INVARIANTS
    SystemKindsLoad
CHECK_DEADLOCK FALSE
