SPECIFICATION FairSpec
CONSTANTS
    Slots = {s1, s2, s3}
    NoSlot = NoSlot
    RsSize = 1
    LsSize = 1
    NumRegs = 0
    Units = 1
    UnitTypes <- OneUnit
    Latencies = {0, 1}
    Templates <- MemoryInsts
    Events <- NoEvents
    Interrupts = {}
    DetectOnWb = TRUE
    MaxBranches = 4
PROPERTIES
    Drains
    RecoveryHappens
