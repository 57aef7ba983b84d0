CONSTANTS
    l1 = l1
    l2 = l2
    Level = {l1}
    Qty = {1}
    MaxRetries = 1
    SnapshotDepth = 1
    Ahead = {}
    MaxId = 4
SPECIFICATION Spec
INVARIANT EveryValidDiffProduced
CHECK_DEADLOCK FALSE
