CONSTANTS
    Conn = {c1, c2, c3}
    MaxSessions = 2
    Slots = 1
    MaxRowid = 2
    Count = {0, 1, 2}
SPECIFICATION Spec
INVARIANTS
    Admission
    
    RangesDisjoint
PROPERTIES
    EveryoneServed
CHECK_DEADLOCK FALSE
