SPECIFICATION Spec
CONSTANTS
    Searches <- MCSearches
    Queries = {"iphone", "ipad", "imac"}
    QueryOf <- MCQueryOf
    MaxSize = 2
    Faults = {"crash", "applyError"}
    MaxFaults = 3
    Loaded <- MCLoaded
PROPERTIES
    ImplementsCounter
    ImplementsWritePath
    StopDrains
