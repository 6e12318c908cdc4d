CONSTANTS
    GroupCount = 3
    JobsIn <- TwoTwoOne
    Limit <- OneTwoOne
    MaxWorkers = 2
SPECIFICATION FairSpec
INVARIANTS TypeOK LimitsRespected EndsHonestly FewLateStarts NoGroupStarves
PROPERTIES KeepsPool Terminates
CHECK_DEADLOCK FALSE
