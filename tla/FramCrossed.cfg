SPECIFICATION Spec
CONSTANTS
    Threads = {t1, t2}
    Writers = {t1, t2}
    Sleepers = {}
    Addresses = {a1, a2}
    Values = {v1, v2}
    Nothing = Nothing
INVARIANTS
    WriteLands
