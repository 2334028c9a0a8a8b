CONSTANTS
    Threads = {t1, t2, t3}
    Nodes = {n1, n2, n3, n4, n5}
    Null = Null
    NUM_WORK = 2
SPECIFICATION FairSpec
INVARIANTS
    NoUseAfterFree
    NothingLeaks
    ChainInv
PROPERTIES
    ImplementsLock
    FirstComeFirstServed
    Terminates
