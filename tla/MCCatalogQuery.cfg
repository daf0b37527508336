CONSTANTS
    Consumer = {c1}
    Lens <- OneBatch
    Value = {1}
    MaxSnapshots = 4
    MaxTables = 2
    MaxFiles = 2
SPECIFICATION Spec
INVARIANTS
    BoundExact
    UnboundSound
    
    
CHECK_DEADLOCK FALSE
