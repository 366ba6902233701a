CONSTANTS
    author = author
    chat1 = chat1
    Proposals = {p1}
    Drafts <- MCDrafts
    Messages = {m1}
    Schedulers = {s1, s2}
    Nobody = Nobody
    NoAnchor = NoAnchor
    NoKey = NoKey
    NoRun = NoRun
    NoDraft = NoDraft
    TTL = 1
    TTL_L3 = 0
    STALE = 0
    HORIZON = 2
    MaxReopens = 0
    OutcomeOps = {"update_budget"}
    AGO = 0
    DAY = 1
    WEEK = 2
    MaxAttempts = 3
    MaxCrashes = 2
    Calls = {k1, k2, k3}
    FAILURE_THRESHOLD = 2
    OPEN_COOLDOWN = 1
    PROBE_LEASE = 2
    MaxFaults = 1
    MaxTurns = 2
    Writers = {w1, w2}
    MaxEvents = 4
    MaxBatch = 3
    MaxAlterations = 2
SPECIFICATION WatchedSpec
INVARIANTS
    FilesArriveOnce
    OutcomeIsHonest
    OneProbePerOpening
    OpenIsEarned
    JournalTypeOK
    IntactVerifies
    AlterationIsSeen
PROPERTIES
    OutcomeSettles
    Recovers
    Protects
