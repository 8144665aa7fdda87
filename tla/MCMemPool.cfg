CONSTANTS
    in = in
    ex = ex
    Pools = {in, ex}
    ZeroedPools = {in}
    TblSize <- MCTblSize
    BlkSize <- MCBlkSize
    Data = {0, 1}
    Sizes = {0, 1, 2, 3, 5, 6}
    Junk = {7}
SPECIFICATION Spec
INVARIANTS
    TypeOK
    TableMatchesBlocks
    ScanFindsHighestGap
PROPERTY
    ImplementsHeap
