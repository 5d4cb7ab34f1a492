CONSTANTS
    Nbuf = {n1, n2}
    Reqb = {q1, q2}
    Clients = {t1, t2}
    Workers = {w1}
    NULL = NULL
SPECIFICATION FairSpec
INVARIANTS
    NoUseAfterFree
    ReqbConserved
PROPERTIES
    LeakOnlyWithoutReqb
    RxBufferFreed
    ReqbRecycled
