SPECIFICATION Spec
CONSTANTS
    Slots = {s1, s2, s3}
    NoSlot = NoSlot
    RsSize = 1
    LsSize = 1
    NumRegs = 0
    Units = 2
    UnitTypes <- TwoUnits
    Latencies = {0, 1}
    Templates <- EventInsts
    Events <- AllEvents
    Interrupts = {"timer", "device"}
    DetectOnWb = TRUE
    MaxBranches = 4
SYMMETRY Permutable
CHECK_DEADLOCK FALSE
INVARIANTS
    SlotConservation
    WrongPathGuarded
    BranchCountCovers
PROPERTIES
    OnlyWrongPathFlushed
