SPECIFICATION FairSpec
CONSTANTS
    Queries = {"ipad", "iphone"}
    Rank <- MCRank
    Prefixes = {"ip", "iph"}
    Matches <- MCMatches
    K = 1
    TTL = 2
    MatchLimit = 1
    Nodes = {"cache-0", "cache-1"}
    NodeOf <- MCNodeOf
    Capacity = 2
    Loaded <- MCLoaded
    MaxSearches = 2
    MaxScore = 1
INVARIANTS
    TypeOK
    BasicNeverStale
    TrendingCountsCurrent
PROPERTIES
    NoSlidingTTL
    EventuallySuggested
