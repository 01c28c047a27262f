CONSTANTS
    NumFibers = 3
    NoFiber = NoFiber
    Polite = TRUE
    MaxUsleep = 1
    MaxTime = 2
    MaxSleep = 2
    Locks = {l1}
    Semaphores = {s1}
    MaxWaiters = 3
    MaxDepth = 2
    Counts <- SomeCounts
    MaxCount = 1
    Program <- Workers
SPECIFICATION Spec
INVARIANTS
    LockCoherent
    MutualExclusion
    WaitersDoNotRun
    NoLostWaiter
    NoTokenWhileWaiting
CONSTRAINT
    OnTrack
