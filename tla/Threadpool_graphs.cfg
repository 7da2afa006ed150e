SPECIFICATION Spec
CONSTANTS
    NThread = 3
    Graph <- MatNopPlain
    Chunks = 3
    PerThread = 1
    Requests = {1, 2, 4}
    Poll = 0
    MaxGraph = 2
INVARIANTS TypeOK EachPartOnce InputsComputed NoStragglers NobodySleepsThrough
PROPERTIES ComputesInOrder CallsReturn
CHECK_DEADLOCK FALSE
