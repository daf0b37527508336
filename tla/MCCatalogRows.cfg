CONSTANTS
    Clients <- LiveOrAny
    Ended = {"table", "column", "file"}
    MaxSnapshots = 4
    MaxCatalogId = 4
    MaxFileId = 2
    MaxRowId = 1
    MaxOps = 2
SPECIFICATION Spec
INVARIANTS
    
    TimeTravel
    CascadeComplete
    
    IndexAgrees
PROPERTIES
    NoResurrection
CHECK_DEADLOCK FALSE
