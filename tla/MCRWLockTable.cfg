CONSTANTS
    Threads = {t1, t2, t3, t4}
    Nodes = {t1, t2, t3, t4}
    Records = {r1, r2}
    NoRecord = NoRecord
SPECIFICATION MCSpec
SYMMETRY Symmetry
INVARIANTS
    MutualExclusion
    NoOvertaking
    NoLostWakeup
    GraphExact
    WaitForAcyclic
    SomeThreadRuns
    AssertionsHold
    LockInv
    CycleFoundIffExists
    CycleIsGenuine
PROPERTIES
    ImplementsReadersWriterLock
