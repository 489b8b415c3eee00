SPECIFICATION Spec
CONSTANTS
    N = 2
    Holders = {store}
    Unsent = TRUE
    MaxDepth = 1
PROPERTIES NothingLost
CHECK_DEADLOCK FALSE
