SPECIFICATION Spec
CONSTANTS
    Slots = {s1, s2, s3, s4}
    NoSlot = NoSlot
    RsSize = 1
    LsSize = 1
    NumRegs = 1
    Units = 2
    UnitTypes <- TwoUnits
    Latencies = {0, 1}
    Templates <- LinkInsts
    Events <- NoEvents
    Interrupts = {}
    DetectOnWb = TRUE
    MaxBranches = 5
SYMMETRY Permutable
INVARIANTS
    HeadHasOperands
