\* Three contexts, two of them with a callback, taking turns; graphs are reused or built anew
CONSTANTS
    Nobody = Nobody
    Ctx = {c1, c2, c3}
    HasCallback = {c1, c2}
    NLayer = 2
    GraphReuse = TRUE
    Serialized = TRUE
SPECIFICATION Spec
INVARIANTS
    TypeOK
    OwnCorrection
    
    OwnOrNewerCallback
