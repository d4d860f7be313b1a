SPECIFICATION LoadSpec
CONSTANTS
    Searches <- MCSearches
    Queries = {"iphone", "ipad"}
    QueryOf <- MCQueryOf
    MaxSize = 2
    Faults = {"crash", "applyError", "rotateError"}
    MaxFaults = 2
    MaxLoads = 2
INVARIANTS
    LoadTypeOK
    FreshNotPolluted
    NoLossSinceLoad
    CountedAtMostOnce
