CONSTANTS
    Producers = {p1, p2}
    Consumers = {c1, c2}
    QUEUE_SIZE = 2
    Enqueues = 3
    Dequeues = 3
SPECIFICATION FairSpec
INVARIANTS
    SlotOwned
PROPERTIES
    ImplementsFifo
    Terminates
