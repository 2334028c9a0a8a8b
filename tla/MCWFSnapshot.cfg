CONSTANTS
    N = 2
    MaxUpdates = 2
    Junk = Junk
SPECIFICATION Spec
INVARIANTS
    WaitFree
    DirectScanPinned
    SnapsAreLive
    SnapInv
