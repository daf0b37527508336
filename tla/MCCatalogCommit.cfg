CONSTANTS
    Proc = {p1, p2}
    MaxOpens = 3
    MaxSnapshots = 2
    MaxStaged = 2
SPECIFICATION Spec
INVARIANTS
    
    DenseHistory
    CountersAhead
    LiveWriterOwnsEpoch
PROPERTIES
    AppendOnly
    OpenTerminates
    ImplementsLog
CHECK_DEADLOCK FALSE
