\* Hybrid micro-batches of several rows, in a model whose layer 1 makes the executor give up
SPECIFICATION Spec
CONSTANTS
    NLayer = 2
    NExpert = 3
    NUsed = 2
    MaxT = 2
    Pins <- LargeLast
    Eligible = {1, 2}
    Walkable = {2}
    Shapes <- MixedRows
    ZeroedRows = 2
    GraphReuse = TRUE
INVARIANTS
    FirstRowExactOnMiss
    RowsAsRead
    PassIffHybrid
