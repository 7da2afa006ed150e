SPECIFICATION Spec
CONSTANTS
    NLayer = 2
    NExpert = 4
    NUsed = 2
    Rankings <- TwoRankings
    Corpora <- OneRequest
    NCtx = 4
    NBatch = 3
    NUbatch = 3
    PinLen = 2
    EmitLen = 2
INVARIANT PinnedAreMostDrawn
CHECK_DEADLOCK FALSE
