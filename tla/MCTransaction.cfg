CONSTANTS
    Threads = {t1, t2, t3}
    Records = {r1, r2, r3}
    NoRecord = NoRecord
    NoThread = NoThread
    E = 2
    InitialValue = 100
    MaxInt = 255
SPECIFICATION Spec
SYMMETRY Symmetry
INVARIANTS
    MarkingAccepts
    QuiescentAtEnd
    StrictTwoPhase
    NoDataRace
PROPERTIES
    Serializable
