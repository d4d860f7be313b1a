SPECIFICATION FairSpec
CONSTANTS
    Searches <- MCSearches
    Queries = {"iphone", "ipad", "imac"}
    QueryOf <- MCQueryOf
    MaxSize = 2
    Faults = {"rotateError"}
    MaxFaults = 1
PROPERTY
    EventuallyCounted
