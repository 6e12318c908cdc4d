CONSTANTS
    Procs = {p1, p2}
    NoProc = NoProc
    NoFile = NoFile
    Stale = 3
    Budgets <- OneFault
SPECIFICATION Spec
INVARIANT RunningScanIsSeen
CHECK_DEADLOCK FALSE
