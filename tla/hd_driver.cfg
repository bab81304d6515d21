SPECIFICATION FairSpec
CONSTANTS
    Programs = 2
    Files <- TwoClientFiles
    NoFile = NoFile
    Capacity = 4
    Sector = 2
    ReadLens = {3}
    WriteLens = {3}
    LoadLens = {1}
    MayFail = TRUE
    FilePos = 7
INVARIANTS
    TypeOK
    AssertionsHold
    DriverAndDeviceAgree
    AnswerIsTotal
PROPERTIES
    ImplementsQueue
    EveryRequestAnswered
