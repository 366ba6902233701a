CONSTANTS
    Incidents = {i1}
    Routes = {r1}
    Schedulers = {s1, s2}
    Nobody = Nobody
    Nothing = Nothing
    SNOOZE = 1
    HORIZON = 1
    MaxOccurrences = 2
    DELAY = 0
    COOLDOWN = 1
    LEASE = 1
    BASE = 1
    MaxDelay = 1
    MaxAttempts = 2
    MaxLevel = 1
SPECIFICATION Spec
INVARIANTS
    NothingIsLost
    LeaseIsExclusive
PROPERTIES
    EndsAreFinal
SYMMETRY SchedulersAlike
