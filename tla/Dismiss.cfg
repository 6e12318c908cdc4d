CONSTANTS
    Runs = {r1, r2}
    Steps = {q1, q2}
    Sessions = {s1}
    s1 = s1
    Workers = {w1, w2}
    NoRun = NoRun
    NoSession = NoSession
    NoCheckpoint = NoCheckpoint
    EmptyPayload = EmptyPayload
    NoMail = NoMail
    NoMeta = NoMeta
    NoStep = NoStep
    CircuitThreshold = 1
    AttemptLimit = 1
    ResumeWindow = 9
    Requesters <- OneSession
    Budget <- DismissBudget
SPECIFICATION FairSpec
INVARIANTS CheckpointBackedByHistory CompletedIsWhole
PROPERTY ScanEnds
CHECK_DEADLOCK FALSE
