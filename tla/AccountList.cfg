SPECIFICATION FairSpec
CONSTANTS
    Ids = {1, 2, 3}
    Values <- SmallValues
    Queries <- SmallQueries
    DefaultCount = 2
    MaxChanges = 1
    MaxPages = 5
    None = None
INVARIANTS
    TypeOK
    ListedInOrder
    SteadyListedOnce
    OnlyTheMovedRepeat
PROPERTIES
    WalkEnds
\* the walk ends
CHECK_DEADLOCK FALSE
