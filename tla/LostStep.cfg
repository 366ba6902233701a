CONSTANTS
    p1 = p1
    k1 = k1
    k2 = k2
    g1 = g1
    author = author
    chat1 = chat1
    m1 = m1
    Proposals = {p1}
    Drafts <- MCDrafts
    Messages = {m1}
    NoAnchor = NoAnchor
    NoKey = NoKey
    NoRun = NoRun
    NoDraft = NoDraft
    TTL = 0
    TTL_L3 = 0
    STALE = 0
    HORIZON = 1
    MaxReopens = 0
    Campaigns = {k1, k2}
    Groups = {g1}
    NoGroup = NoGroup
    Inherit = Inherit
    FirstAccount <- MCAccount
    ForeignEdits <- MCForeignEdits
    MaxEdits = 0
    NoRequest = NoRequest
SPECIFICATION Spec
INVARIANTS
    FailedMeansRestored
