CONSTANTS
    Threads = {t1, t2}
    Keys = {1, 2}
    Nodes = {n1, n2, n3, n4}
    head = head
    tail = tail
    INT_MIN = 0
    INT_MAX = 9
    None = None
    num_work = 3
    opt_num_work = 2
SPECIFICATION MCSpec
SYMMETRY Symmetry
INVARIANTS
    NoUseAfterFree
    ListIsSet
    OptListIsSet
    OptValidatedIsCurrent
PROPERTIES
    ImplementsSet
