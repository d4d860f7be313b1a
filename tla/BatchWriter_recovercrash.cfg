SPECIFICATION Spec
CONSTANTS
    Searches <- MCSearches
    Queries = {"iphone", "ipad", "imac"}
    QueryOf <- MCQueryOf
    MaxSize = 2
    Faults = {"crash", "recoverCrash"}
    MaxFaults = 2
INVARIANT
    CountedAtMostOnce
