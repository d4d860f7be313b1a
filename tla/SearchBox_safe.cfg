SPECIFICATION FairSpec
CONSTANTS
    Texts <- MCTexts
    Empty = ""
    Trim <- MCTrim
    Lists <- MCLists
    Trends = {"ip"}
    Modes = {"basic", "trending"}
    MaxRequests = 3
    MaxSubmits = 2
INVARIANTS
    TypeOK
    AtRestListIsForInput
PROPERTIES
    NewestAnswerWins
    TypedIsAnswered
