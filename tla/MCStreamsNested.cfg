CONSTANTS
    NumBuffers = 1
    NumBlocks = 3
    Values = {0, 1}
    Zero = 0
    Fresh = {2}
    NoBuffer = NoBuffer
    NoBlock = NoBlock
    Faulty = FALSE
    MaxStreams = 3
    Words <- EditingText
SPECIFICATION StreamsSpec
PROPERTY IsBlockStore
