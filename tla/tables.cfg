SPECIFICATION TablesSpec
CONSTANTS
    Capacity = 3
    HashSize = 8
    NoData = NoData
    Processors = {p, q}
    Addrs = {1, 9}
    Targets = {t}
    Blocks = {0, 1, 2}
    Sets <- SmallSets
    Ways <- SmallWays
    MaxCycle = 2
SYMMETRY Symmetry
INVARIANTS
    TablesTypeOK
    HashPointsToElements
    CheckIsLookup
    OneSlotPerBlock
    OnlyOldBlocksLeave
PROPERTIES
    ImplementsLru
