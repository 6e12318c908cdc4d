CONSTANTS
    Runs = {r1}
    Round = r1
    r1 = r1
    Steps = {a1, a2, b1}
    a1 = a1
    a2 = a2
    b1 = b1
    Candidates = {a, b}
    a = a
    b = b
    CandidateOf <- OneCellOrTwo
    Asked <- SomeRepairs
    StartResults <- OneFailure
    Sessions = {s1}
    Workers = {w1, w2}
    AttemptLimit = 1
    NoRun = NoRun
    NoSession = NoSession
    NoCheckpoint = NoCheckpoint
    EmptyPayload = EmptyPayload
    NoMail = NoMail
    NoStep = NoStep
    NoRepair = NoRepair
    Budgets <- PauseBudgets
SPECIFICATION Spec
INVARIANT PausedIsResumable
CHECK_DEADLOCK FALSE
