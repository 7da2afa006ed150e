\* One sequence being decoded: the usage the repository validates
CONSTANTS
    NLayer = 2
    NExpert = 3
    NUsed = 2
    MaxT = 2
    Pins <- TwoPools
    Eligible = {1, 2}
    Walkable = {1, 2}
    Shapes <- OneRow
    ZeroedRows = 1
    GraphReuse = TRUE
SPECIFICATION Spec
INVARIANTS
    TypeOK
    Exact
