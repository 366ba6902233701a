CONSTANTS
    p1 = p1
    p2 = p2
    w1 = w1
    w2 = w2
    proc1 = proc1
    author = author
    stranger = stranger
    chat1 = chat1
    m1 = m1
    m2 = m2
    Proposals = {p1, p2}
    Workers = {w1, w2}
    Processes = {proc1}
    Messages = {m1}
    Drafts <- CreateOnly
    Turns <- AuthorTurns
    ProcessOf <- OneProcess
    NoAnchor = NoAnchor
    NoKey = NoKey
    NoRun = NoRun
    NoDraft = NoDraft
    NoWorker = NoWorker
    Nobody = Nobody
    NoProposal = NoProposal
    Unread = Unread
    TTL = 1
    TTL_L3 = 0
    STALE = 0
    HORIZON = 2
    WINDOW = 1
    MaxReopens = 0
    MaxAttempts = 1
    SwitchStates = {FALSE}
    MaxOps = 1
    MaxEdits = 0
SPECIFICATION Spec
INVARIANTS
    BudgetCapHolds
SYMMETRY Interchange
