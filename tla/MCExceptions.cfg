CONSTANTS
    Words = {f, g, h}
    NoWord = NoWord
    Locals = {f, g}
    Trying = {f, g}
    Finals = {f}
    Numbers = {1, 2}
    FrameCells = 2
    MaxCells = 12
    Careful = TRUE
SPECIFICATION Spec
INVARIANTS
    ControlIsStructured
    FramesAreOpenTries
    LocalsAreOwn
