SPECIFICATION Spec
CONSTANTS
    Prefixes = {"i", "ip", "iph"}
    Nodes = {"cache-0", "cache-1"}
    NodeOf <- MCNodeOf
    TTL = 2
    Capacity = 2
INVARIANTS
    TypeOK
    HitsAreLive
    RecentlyUsedStay
PROPERTIES
    ImplementsCache
