CONSTANTS
    Consumer = {c1, c2}
    Lens <- EvenLens
    Value = {1}
    MaxSnapshots = 5
    MaxTables = 2
    MaxFiles = 1
SPECIFICATION SpecFeeds
INVARIANTS
    
    FeedComplete
CHECK_DEADLOCK FALSE
