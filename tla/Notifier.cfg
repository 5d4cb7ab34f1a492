SPECIFICATION ChainSpec
CONSTANTS
    Clients = {c1, c2, c3, c4}
    Urgent = {c1, c2}
    NULL = NULL
INVARIANTS
    ChainSorted
    EveryoneCalled
    OnlyThoseThere
