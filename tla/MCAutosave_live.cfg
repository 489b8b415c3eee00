SPECIFICATION FairSpec
CONSTANTS
    Composers = {c1, c2}
    Files = {f1, f2}
    Windows = {w1}
    NoFile = NoFile
    NoWindow = NoWindow
    MaxText = 1
    MaxSessions = 2
    Slow = FALSE
    Breaks = FALSE
    Tears = FALSE
CHECK_DEADLOCK FALSE
PROPERTIES TypedIsSaved OrphansEnd
