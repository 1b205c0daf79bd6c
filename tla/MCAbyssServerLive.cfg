SPECIFICATION FairSpec
CONSTANTS
    Chan = {c1, c2}
    NoChan = NoChan
    MaxConn = 1
    KeepaliveMax = 2
PROPERTIES
    TerminationReturns
    DrainNeedsNoTimeout
    QueuedClientAccepted
