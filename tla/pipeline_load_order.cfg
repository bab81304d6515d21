SPECIFICATION Spec
CONSTANTS
    Slots = {s1, s2, s3, s4}
    NoSlot = NoSlot
    RsSize = 2
    LsSize = 2
    NumRegs = 0
    Units = 2
    UnitTypes <- TwoUnits
    Latencies = {0, 1}
    Templates <- MemoryInsts
    Events <- NoEvents
    Interrupts = {}
    DetectOnWb = FALSE
    MaxBranches = 5
SYMMETRY Permutable
INVARIANTS
    LoadsWaitForStores
