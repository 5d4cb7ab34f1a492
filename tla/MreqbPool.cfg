CONSTANTS
    Block = {b1, b2, b3}
    Threads = {t1, t2, t3}
    Units = 2
    NULL = NULL
SPECIFICATION Spec
INVARIANTS
    Conserved
PROPERTIES
    StrandedOnlyByTake
