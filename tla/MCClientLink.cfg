SPECIFICATION FairSpec
CONSTANTS
    LengthBytes = 2
    UInt32 = 4
    ntohl <- BigEndian
    Byte = {0, 1}
    Text = 1
    Sizes <- MCSizes
    MaxMessages = 2
CHECK_DEADLOCK FALSE
INVARIANTS
    TypeOK
    OneAtATimeIsFramed
PROPERTIES
    ImplementsChannel
    EndsForAReason
    LossNoticed
