CONSTANTS
    None = None
    Ids = {1, 2, 3}
    PageSize = 2
    Histories <- TwoHistories
    Filters <- TwoFilters
    Slots = {1, 2}
    CountdownFrom = 2
    MaxActions = 4
    MaxTrouble = 1
SPECIFICATION FairSpec
CHECK_DEADLOCK FALSE
INVARIANTS
    TypeOK
    BusyIsInFlight
    PaneShowsOpened
PROPERTIES
    ClearNeedsCountdown
    ListCatchesUp
