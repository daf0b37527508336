SPECIFICATION Spec
CONSTANTS
    f1 = f1
    d1 = d1
    Paths <- MCPaths
    DeleteFiles <- MCDeleteFiles
    Foreign <- MCNone
    Grace = 2
    Epoch = 3
    MaxTime = 3
INVARIANTS
    GraceProtects

    
CHECK_DEADLOCK FALSE
