CONSTANTS
    Nbuf = {n1, n2, n3, n4}
    NULL = NULL
    AtHead = AtHead
SPECIFICATION QueueFairSpec
INVARIANTS
    WellLinked
PROPERTIES
    EveryPacketTaken
    ImplementsQueue
