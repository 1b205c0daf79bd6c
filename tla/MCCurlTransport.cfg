CONSTANTS
    Thread = {t1, t2}
    Asynch = {r1, r2}
    Synch = {s1, s2}
    MaxRpcs = 2
    MaxSignals = 1
    CallbackStarts = TRUE
    NoRpc = NoRpc
    NoThread = NoThread
SPECIFICATION Spec
INVARIANTS
    TypeOK
    ResultsTrue
    OneCompletion
    ResourcesReleased
    FinishSeesToAll
    NoSignalMissed
    NoBusyLoop
    DestroyFindsNoOther
SYMMETRY Symmetry
CHECK_DEADLOCK FALSE
