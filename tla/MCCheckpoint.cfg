SPECIFICATION Spec
CONSTANTS
    MaxSnap = 4
    MaxClock = 2
    MaxCkpt = 3
    MaxCmds = 4
INVARIANTS
    RestoreHides
    HistoryReadable
PROPERTIES
    CheckpointsKept
CHECK_DEADLOCK FALSE
