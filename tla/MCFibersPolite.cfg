CONSTANTS
    NumFibers = 3
    NoFiber = NoFiber
    Polite = TRUE
    MaxUsleep = 1
    MaxTime = 2
    MaxSleep = 2
    Program <- AnyOps
SPECIFICATION FiberSpec
INVARIANTS
    ActiveInSync
    ActiveIsRunnable
    NoLostJoiner
PROPERTIES
    ExitIsFinal
CONSTRAINT
    OnTrack
