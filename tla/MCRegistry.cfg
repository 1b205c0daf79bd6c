SPECIFICATION Spec
CONSTANTS
    Threads = {t1, t2}
    Calls <- MCCalls
    Programs <- MCPrograms
    Null = Null
    FirstKept = FirstKept
    MaxValues = 22
    MaxCalls = 3
    MaxFailures = 1
INVARIANTS
    TypeOK
    ValuesCounted
    MulticallIsItsCalls
SYMMETRY Symmetry
CHECK_DEADLOCK FALSE
