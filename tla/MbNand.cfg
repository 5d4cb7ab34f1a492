SPECIFICATION NandSpec
CONSTANTS
    Block = {b1, b2}
    Producers = {p1}
    Consumers = {c1}
    NULL = NULL
    NBlocks = 2
    PerBlock = 2
    Total = 2
    Page = {0, 1, 2}
    Start = {1}
    Data = {v}
    Erased = ff
INVARIANTS
    NandTypeOK
    NoLostWakeup
PROPERTIES
    IsFlash
    AllGivenBack
