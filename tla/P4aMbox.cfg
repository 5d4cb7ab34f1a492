SPECIFICATION FairSpec
CONSTANTS
    OutMsg = {o1, o2}
    InMsg = {i1, i2}
    HwCap = 1
    OutCap = 1
    InCap = 1
INVARIANTS
    TypeOK
PROPERTIES
    ReceivesInOrder
    SendsInOrder
    MessagesRead
    SoftwareEmptied
