CONSTANTS
    NumBuffers = 3
    NumBlocks = 4
    Values = {0}
    Zero = 0
    Fresh = {0, 1, 2, 3}
    NoBuffer = NoBuffer
    NoBlock = NoBlock
    Faulty = TRUE
SPECIFICATION Spec
INVARIANTS
    OneBufferPerBlock
    LRUIsPermutation
    RecentBlocksStay
