SPECIFICATION Spec
CONSTANTS
    Composers = {c1, c2}
    Files = {f1}
    Windows = {w1}
    NoFile = NoFile
    NoWindow = NoWindow
    MaxText = 1
    MaxSessions = 2
    Slow = TRUE
    Breaks = TRUE
    Tears = TRUE
SYMMETRY Interchangeable
CHECK_DEADLOCK FALSE
INVARIANTS OwnFile
PROPERTIES SavesInOrder AskedBeforeDeleting
