CONSTANTS
    Proposals = {p1, p2}
    Drafts <- MCDrafts
    Messages = {m1, m2}
    NoAnchor = NoAnchor
    NoKey = NoKey
    NoRun = NoRun
    NoDraft = NoDraft
    TTL = 2
    TTL_L3 = 1
    STALE = 0
    HORIZON = 3
    MaxReopens = 1
    a1 = a1
    k1 = k1
    r1 = r1
    key1 = key1
SPECIFICATION StoreSpec
INVARIANTS
    JournalIsHistory
PROPERTIES
    ClaimIsSpent
    VerdictsAreFinal
