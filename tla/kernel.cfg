SPECIFICATION KernelSpec
CONSTANTS
    MaxProcess = 3
    Programs = 2
    LoaderEntries = 2
    Windows = 2
    Buffers = 2
    MaxFiles = 1
    KbSize = 2
    MaxParts = 2
    MaxKeys = 3
INVARIANTS
    KernelTypeOK
    KernelAssertionsHold
    ResumesAnswered
    BlockedIsAwaited
    EventsAreAnnounced
PROPERTIES
    EveryThreadRuns
CHECK_DEADLOCK FALSE
