CONSTANTS
    author = author
    chat1 = chat1
    Proposals = {p1, p2}
    Drafts <- MCDrafts
    Messages = {m1}
    Dossiers = {d1, d2, d3}
    NoDossier = NoDossier
    NoProfile = NoProfile
    Elder = Elder
    NoAnchor = NoAnchor
    NoKey = NoKey
    NoRun = NoRun
    NoDraft = NoDraft
    TTL = 0
    TTL_L3 = 0
    STALE = 0
    HORIZON = 1
    MaxReopens = 0
SYMMETRY Symmetry
SPECIFICATION Spec
INVARIANTS
    ClearedStaysCleared
    ChangeIsConsented
    NotesAreKept
PROPERTIES
    DossierNeverGoesBack
