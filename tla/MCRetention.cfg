CONSTANTS
    Gc = {g1, g2}
    Consumer = {c1}
    Pinned = {2}
    Before = {2, 3}
    MaxSnapshots = 3
    MaxRows = 1
    MaxTime = 2
    TTL = 1
SPECIFICATION Spec
SYMMETRY Callers
INVARIANTS
    
    HoldsHonoured
    RetainedSnapshotsKept
PROPERTIES
    FloorRises
    RetainedRowsKept
CHECK_DEADLOCK FALSE
