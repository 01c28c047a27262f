CONSTANTS
    Threads = {m, t1, t2}
    Main = m
    NoThread = NoThread
    Creators = {m}
    MaxStarts = 1
    OwnExit = TRUE
SPECIFICATION FairSpec
INVARIANTS
    JoinMeansOver
    NoLostWakeup
    NoUseAfterDelete
    ListHasThreads
PROPERTY JoinersReturn
CHECK_DEADLOCK FALSE
