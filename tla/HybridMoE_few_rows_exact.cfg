\* Hybrid micro-batches of several rows: the header's promise
CONSTANTS
    NLayer = 1
    NExpert = 3
    NUsed = 2
    MaxT = 2
    Pins <- OnePool
    Eligible = {1}
    Walkable = {1}
    Shapes <- FewRows
    ZeroedRows = 2
    GraphReuse = TRUE
SPECIFICATION Spec
INVARIANT Exact
