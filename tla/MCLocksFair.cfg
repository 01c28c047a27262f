CONSTANTS
    NumFibers = 4
    NoFiber = NoFiber
    Polite = TRUE
    MaxUsleep = 1
    MaxTime = 0
    MaxSleep = 0
    Locks = {l1}
    Semaphores = {}
    MaxWaiters = 4
    MaxDepth = 2
    Counts = {}
    MaxCount = 0
    Program <- TakeTurns
SPECIFICATION FairSpec
PROPERTIES
    ReadyIsRun
    WaiterGetsLock
