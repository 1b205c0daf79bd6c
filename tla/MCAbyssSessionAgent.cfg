CONSTANTS
    Clients <- AgentClients
    BufferSize = 18
    KeepaliveMax = 3
    MaxRead = 2
    XmlSizeLimit = 8
SPECIFICATION Spec
INVARIANT
    HeaderStringsSurvive
CHECK_DEADLOCK FALSE
