SPECIFICATION Spec
CONSTANTS
    AddrCount = 6
    Spaces <- LoopSpaces
    KernelSpace = "kernel"
    Length <- LoopLength
    Successors <- LoopSuccessors
    Returns <- LoopReturns
    Resumes <- LoopResumes
    FaultPages <- LoopFaults
    Predictable <- LoopPredictions
    Handler = 2
    Size = 4
    Width = 3
    Underflow = 3
    MaxDecode = 3
    MaxMiss = 2
    TableSize = 2
    Supply = 2
    MaxLength = 4
    Strays <- LoopStrays
    NoInst = NoInst
INVARIANTS
    TypeOK
    BufferIsPath
    ForesightIsFresh
    ExecutesAtPc
    ExecutesItsBytes
