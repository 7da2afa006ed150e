\* A user callback that never cancels
CONSTANTS
    NNode = 8
    Kind <- TwoLayers
    LayerOf <- TheirLayers
    Splittings <- FewSplits
    UserCancels = FALSE
SPECIFICATION Spec
INVARIANTS
    TypeOK
    PassInputsReady
    AddFollowsPass
    TellsWhatWasWanted
    ChainedButOwnNodes
PROPERTY ObservedOrder
