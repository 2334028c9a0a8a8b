CONSTANTS
    Threads = {t1, t2}
    Records = {r1, r2, r3}
    NoRecord = NoRecord
    NoThread = NoThread
    E = 1
    InitialValue = 100
    MaxInt = 999999
SPECIFICATION AgeSpec
PROPERTY
    NewestIsAborted
