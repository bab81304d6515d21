SPECIFICATION Spec
CONSTANTS
    Slots = {s1, s2, s3}
    NoSlot = NoSlot
    RsSize = 1
    LsSize = 1
    NumRegs = 0
    Units = 1
    UnitTypes <- OneUnit
    Latencies = {0}
    Templates <- EventInsts
    Events <- SyscallEvents
    Interrupts = {"timer"}
    DetectOnWb = FALSE
    MaxBranches = 4
SYMMETRY Permutable
PROPERTIES
    DecodedTrapIsTaken
