CONSTANTS
    Threads = {t1, t2}
    Records = {r1, r2, r3}
    NoRecord = NoRecord
    NoThread = NoThread
    E = 2
    InitialValue = 100
    MaxInt = 255
SPECIFICATION FairSpec
PROPERTIES
    SleeperWakes
    TerminatesOrAborts
