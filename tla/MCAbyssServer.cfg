SPECIFICATION Spec
CONSTANTS
    Chan = {c1, c2, c3}
    NoChan = NoChan
    MaxConn = 2
    KeepaliveMax = 2
SYMMETRY ChanSymmetry
INVARIANTS
    TypeOK
    NoUseAfterFree
    EveryConnectionTracked
    AtMostMaxConn
    QuiescentWhenIdle
PROPERTY ImplementsConnService
