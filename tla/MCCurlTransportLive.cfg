CONSTANTS
    Thread = {t1, t2}
    Asynch = {r1}
    Synch = {s1}
    MaxRpcs = 1
    MaxSignals = 1
    CallbackStarts = FALSE
    NoRpc = NoRpc
    NoThread = NoThread
SPECIFICATION Spec
PROPERTIES
    TimeLimitKept
    AnsweredCallsReturn
    InterruptEndsFinish
CHECK_DEADLOCK FALSE
