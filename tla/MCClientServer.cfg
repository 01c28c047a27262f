CONSTANTS
    Streams = {f1, f2}
    Console = console
    NoStream = none
    MaxLocals = 1
    MaxQueue = 2
SPECIFICATION FairSpec
INVARIANTS
    LinesAreOwn
    AnswersFit
PROPERTY ClientLeaves
CHECK_DEADLOCK FALSE
