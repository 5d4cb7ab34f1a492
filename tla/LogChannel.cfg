CONSTANTS
    Char = {x, y}
    LOG_BUFSZ = 4
    Modulus = 16
    MaxText = 2
    PRE_ALLOC_DATA_SIZE = 2
    NULL = NULL
SPECIFICATION Spec
PROPERTIES
    ImplementsLogBuffer
