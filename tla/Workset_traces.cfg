\* Tracer, ranking, emission and simulation, over corpora with every kind of request
SPECIFICATION WorksetSpec
CONSTANTS
    NLayer = 3
    NExpert = 4
    NUsed = 2
    Rankings <- TwoRankings
    Corpora <- Lines
    NCtx = 5
    NBatch = 4
    NUbatch = 2
    PinLen = 3
    EmitLen = 3
    Budgets = {0, 1, 2, 3, 4}
    CalOf = 3
INVARIANTS TypeOK WholeRequests EachBlockNamesAll FileWellFormed RatesRight CalSplitsRequests
CHECK_DEADLOCK FALSE
