SPECIFICATION FairSpec
CONSTANTS
    Acts = {a1, a2, a3}
    NoAct = NoAct
    Stores = {s1, s2}
    MayAsk = TRUE
INVARIANTS
    TypeOK
    HeldWhileSwitching
    OnlyLatestFlips
    LineAsAsked
    OfflineIsQuiet
   
PROPERTIES
    DelayedUnlessCrossed
    PreparationEnds
\* An activity lost to a crossed question is never used again: the bound Acts
\* is then reached and nothing is left to do.
CHECK_DEADLOCK FALSE
