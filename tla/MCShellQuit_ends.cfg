SPECIFICATION FairSpec
CONSTANTS
    N = 2
    Holders = {store}
    Unsent = TRUE
    MaxDepth = 1
PROPERTIES QuitEnds
CHECK_DEADLOCK FALSE
