SPECIFICATION Spec
CONSTANTS
    Chan = {c1}
    NoChan = NoChan
    MaxConn = 1
    KeepaliveMax = 1
INVARIANT InterruptsOnlyOpenChannels
