SPECIFICATION SpecTransfer
CONSTANTS
    MaxSnap = 3
    MaxVersion = 2
    MaxFiles = 1
    MaxTools = 2
    MaxCommits = 1
PROPERTIES
    ImportedSnapshotsKept
CHECK_DEADLOCK FALSE
