\* Every way through the setup, over files well and badly formed and three kinds of models
CONSTANTS
    Model = {"whole", "partial", "cpu"}
    NLayer = 3
    NExpert = 3
    Gpu = {"whole", "partial"}
    NLayerAll <- TwoLayers
    Host <- Hosts
    PinsFiles <- FewFiles
    MaxT = 2
    ExpertRows = 1
SPECIFICATION Spec
INVARIANTS
    TypeOK
    ActiveMeansReady
    FailedHoldsNothing
\* A setup that reads behind the model's layers may end the program
CHECK_DEADLOCK FALSE
