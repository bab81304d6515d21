SPECIFICATION Spec
CONSTANTS
    Programs = 2
    Files <- TwoClientFiles
    NoFile = NoFile
    Capacity = 4
    Sector = 2
    ReadLens = {3}
    WriteLens = {0, 1}
    LoadLens = {1}
    MayFail = TRUE
    FilePos = 7
INVARIANTS
    AssertionsHold
