CONSTANTS
    Threads = {t1}
    Records = {r1, r2, r3}
    NoRecord = NoRecord
    NoThread = NoThread
    E = 3
    InitialValue = 100
    MaxInt = 400
SPECIFICATION Spec
INVARIANT
    NoOverflowClaim
