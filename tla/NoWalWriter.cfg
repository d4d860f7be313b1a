SPECIFICATION FairSpec
CONSTANTS
    Searches <- MCSearches
    Queries = {"iphone", "ipad"}
    QueryOf <- MCQueryOf
    MaxSize = 1
    MaxFaults = 3
INVARIANTS
    TypeOK
    Conserved
PROPERTIES
    StopKeeps
    EventuallyCounted
