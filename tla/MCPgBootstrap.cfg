SPECIFICATION Spec
CONSTANTS
    Session = {s1, s2}
    Workloads <- OnlyAttachers
INVARIANT OneBootstrap
CHECK_DEADLOCK FALSE
