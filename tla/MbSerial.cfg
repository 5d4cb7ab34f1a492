SPECIFICATION FairSpec
CONSTANTS
    Clients = {c1, c2}
    Urgent = {}
    Senders = {s1, s2}
    MaxPieces = 2
    PoolSize = 2
    MaxPending = 1
    NULL = NULL
INVARIANTS
    PiecesTogether
PROPERTIES
    ShutdownQuiesces
    RequestsAnswered
