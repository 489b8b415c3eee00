SPECIFICATION Spec
CONSTANTS
    N = 2
    Holders = {store}
    Unsent = TRUE
    MaxDepth = 2
INVARIANTS TypeOK NoWindowQuits
PROPERTIES DraftsSaved QuitAskedFirst
CHECK_DEADLOCK FALSE
