CONSTANTS
    p1 = p1
    p2 = p2
    w1 = w1
    w2 = w2
    proc1 = proc1
    author = author
    stranger = stranger
    chat1 = chat1
    m1 = m1
    m2 = m2
    Proposals = {p1}
    Workers = {w1, w2}
    Processes = {w1, w2}
    Messages = {m1, m2}
    Drafts <- AnyDrafts
    Turns <- AnyTurns
    ProcessOf <- OwnProcess
    NoAnchor = NoAnchor
    NoKey = NoKey
    NoRun = NoRun
    NoDraft = NoDraft
    NoWorker = NoWorker
    Nobody = Nobody
    NoProposal = NoProposal
    Unread = Unread
    TTL = 1
    TTL_L3 = 0
    STALE = 0
    HORIZON = 2
    WINDOW = 1
    MaxReopens = 0
    MaxAttempts = 2
    SwitchStates = {TRUE, FALSE}
    MaxOps = 1
    MaxEdits = 1
SPECIFICATION Spec
INVARIANTS
    AtMostOnce
    VoidMeansUntouched
    EffectIsAuthorised
    SuccessIsTrue
PROPERTIES
    OnlyTheAuthorAnswers
    ImplementsLifecycle
SYMMETRY WorkersAlike
