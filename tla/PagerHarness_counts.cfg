SPECIFICATION Spec
CONSTANTS
    NLayer = 2
    NExpert = 4
    NUsed = 2
    Rankings <- TwoRankings
    PinTables <- FewTables
    Corpora <- Lines
    NPrefill = 1
    NGenLines = 2
    NGen = 2
    NCtx = 5
    NBatch = 4
    NUbatch = 2
    NPin = 3
    Fallbacks <- Counts
    Capacities <- FewCapacities
INVARIANTS TypeOK RecordedOnce CountedInPhase OnlyLastLayerDropped DecodeHitsTrue FillsLargest
CHECK_DEADLOCK FALSE
