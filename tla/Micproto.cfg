CONSTANTS
    NULL = NULL
    Input = Input
    Local = {l1, l2}
    Remote = {r1}
    Callers = {c1}
    Handlers = {h1}
    MAX_CONCURRENT_HANDLES = 1
    OutCap = 1
    InCap = 1
    Strays = FALSE
SPECIFICATION Spec
INVARIANTS
    TypeOK
    OneOwner
    Direction
    OutputWakeup
    CtxAlive
PROPERTIES
    RequestsInOrder
    ImplementsLifecycle
