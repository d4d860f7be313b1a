SPECIFICATION RankingSpec
CONSTANTS
    Nodes <- MCNodes
    Queries <- MCQueries
    Children <- MCChildren
    Under <- MCUnder
    Rank <- MCRank
    K = 2
    Loaded <- MCLoaded
    TrendingCapacity = 2
    MinScore = 1
    MatchLimit = 2
    Horizon = 2
    PanelSize = 2
    MaxSearches = 3
INVARIANTS
    TypeOK
    ListsExact
    LazyDecayExact
    ZeroCountIsNew
PROPERTY
    SurgeIsShown
