CONSTANTS
    Clients <- AllClients
    BufferSize = 18
    KeepaliveMax = 3
    MaxRead = 2
    XmlSizeLimit = 8
SPECIFICATION Spec
INVARIANTS
    TypeOK
    BufferBounds
    BodiesExact
    NeverWaitsInVain
PROPERTY
    SessionEnds
CHECK_DEADLOCK FALSE
