CONSTANTS
    Vocs = {forth, root, v1, v2}
    Forth = forth
    Root = root
    NoVoc = NoVoc
    Names = {a, b}
    MaxOps = 3
    MaxSymbols = 3
    MaxDepth = 3
    MaxLoaded = 1
    Bodies = {1}
    Allotted = {1}
    MaxData = 3
    AnyAlias = FALSE
SPECIFICATION Spec
SYMMETRY Interchangeable
INVARIANTS
    ForgottenOpsAreGone
    OlderWordsStay
    SearchOrderIsLive
    VocabularyWordsWork
    LoadedFilesAreDefined
