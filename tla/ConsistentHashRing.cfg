SPECIFICATION Spec
CONSTANTS
    NodeIds = {"cache-0", "cache-1", "cache-2"}
    VNodes = 2
    Points <- MCKeys
    Nudges = 7
    Hash <- MCHash
    Keys <- MCKeys
    KeyHash <- MCKeyHash
INVARIANTS
    TypeOK
    EveryReplicaPlaced
PROPERTY
    OnlyItsArcMoves
