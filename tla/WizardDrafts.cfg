SPECIFICATION Spec
CONSTANTS
    Sessions = {d1, d2}
    Calls = {k1, k2}
    NoCall = NoCall
    NoSession = NoSession
    LAST = 2
    TTL = 1
    WARN = 0
    Stamps <- AnyDatabase
    MaxEdits = 3
SYMMETRY Exchangeable
INVARIANTS
    PatchesSurvive
    MintIsWhole
    OneDraftAtATime
PROPERTIES
    AbandonedIsFinal
CHECK_DEADLOCK FALSE
