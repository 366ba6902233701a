CONSTANTS
    Writers = {w1, w2}
    MaxEvents = 4
    MaxBatch = 2
    MaxAlterations = 0
SPECIFICATION JournalSpec
INVARIANTS
    UntouchedVerifies
SYMMETRY WritersAlike
CHECK_DEADLOCK FALSE
