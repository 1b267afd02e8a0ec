SPECIFICATION Spec
CONSTANTS
    gen = gen
    s = s
    d = d
    c = c
    r = r
    q = q
    k1 = k1
    k2 = k2
    k3 = k3
    k4 = k4
    Coinbases <- Keys
    Inputs <- MCInputs
    NumOutputs <- MCNumOutputs
    CellDeps <- MCCellDeps
    DepGroups <- MCDepGroups
    GroupMembers <- MCGroupMembers
    SharedReads <- MCSharedReads
    SharedWrites <- MCSharedWrites
    Sound <- MCSound
    Cycles <- MCCycles
    MaxBlockCycles = 3
    BaseTree <- MCBaseTree
    Mergesets <- MCMergesets
INVARIANTS
    LayeredIsSerial
    DiffLeadsToTree
    AcceptedOnce
CHECK_DEADLOCK FALSE
