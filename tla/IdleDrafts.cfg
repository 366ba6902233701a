SPECIFICATION FairSpec
CONSTANTS
    Sessions = {d1, d2}
    Calls = {k1}
    NoCall = NoCall
    NoSession = NoSession
    LAST = 2
    TTL = 2
    WARN = 1
    Stamps <- PostgreSQL
    MaxEdits = 2
PROPERTIES
    IdleDraftEnds
CHECK_DEADLOCK FALSE
