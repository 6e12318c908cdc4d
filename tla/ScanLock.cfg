CONSTANTS
    Procs = {p1, p2, p3}
    NoProc = NoProc
    NoFile = NoFile
    Stale = 3
    Budgets <- FaultsOfEither
    Events <- FewEvents
SPECIFICATION FairJournalSpec
INVARIANTS TypeOK MutualExclusion FileNamesHolder JournalTypeOK EventsSurvive NumbersAscend NumbersHaveNoGap
PROPERTIES LeftoverExpires KeepsLockPromise
CHECK_DEADLOCK FALSE
