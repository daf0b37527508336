SPECIFICATION Spec
CONSTANTS
    Session = {s1, s2}
    Workloads <- WritersOrAttachers
INVARIANTS
    
    RowIdsDisjoint
PROPERTIES
    CommitAnswered
CHECK_DEADLOCK FALSE
