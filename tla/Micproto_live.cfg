CONSTANTS
    NULL = NULL
    Input = Input
    Local = {l1}
    Remote = {r1}
    Callers = {c1}
    Handlers = {h1}
    MAX_CONCURRENT_HANDLES = 2
    OutCap = 1
    InCap = 1
    Strays = TRUE
SPECIFICATION FairSpec
PROPERTIES
    RequestsReachCpu2
    RemoteRequestsAnswered
