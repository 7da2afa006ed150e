\* A user callback that may cancel
CONSTANTS
    NNode = 8
    Kind <- TwoLayers
    LayerOf <- TheirLayers
    Splittings <- FewSplits
    UserCancels = TRUE
SPECIFICATION Spec
INVARIANTS
    HandedOverSynced
    CancelDropsSplit
PROPERTY GraphEnds
