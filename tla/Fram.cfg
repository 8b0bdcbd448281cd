SPECIFICATION FairSpec
CONSTANTS
    Threads = {t1, t2, t3}
    Writers = {t1, t2}
    Sleepers = {t2, t3}
    Addresses = {a1, a2}
    Values = {v1, v2}
    Nothing = Nothing
INVARIANTS
    TypeOK
    NeverTalksToSleeper
    LandsUnlessCrossed
PROPERTIES
    ImplementsStore
    CallsReturn
