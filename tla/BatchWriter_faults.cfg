SPECIFICATION FairSpec
CONSTANTS
    Searches <- MCSearches
    Queries = {"iphone", "ipad", "imac"}
    QueryOf <- MCQueryOf
    MaxSize = 2
    Faults = {"crash", "recoverCrash", "applyError", "readbackError", "removeError", "rotateError"}
    MaxFaults = 3
INVARIANTS
    TypeOK
    NoLoss
    OneFile
    CountedInOrder
    BufferMirrorsLive
PROPERTIES
    WatermarkBeforeUnlink
    CountedUnlessStranded
    StopTerminates
