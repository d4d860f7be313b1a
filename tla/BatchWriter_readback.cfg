SPECIFICATION Spec
CONSTANTS
    Searches <- MCSearches
    Queries = {"iphone", "ipad", "imac"}
    QueryOf <- MCQueryOf
    MaxSize = 2
    Faults = {"readbackError"}
    MaxFaults = 1
INVARIANT
    CountedAtMostOnce
