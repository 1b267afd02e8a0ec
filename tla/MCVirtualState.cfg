SPECIFICATION Spec
CONSTANTS
    G = G
    A = A
    B = B
    C = C
    D = D
    E = E
    F = F
    gen = gen
    s = s
    c = c
    d = d
    Blocks <- MCBlocks
    Genesis = G
    Parents <- MCParents
    Work <- MCWork
    Worlds <- AllWorlds
    GenesisTree <- MCGenesisTree
    Coinbases <- MCBlocks
    Inputs <- MCInputs
    NumOutputs <- MCNumOutputs
    CellDeps <- None
    DepGroups <- None
    GroupMembers <- MCGroupMembers
    SharedReads <- None
    SharedWrites <- None
    Sound <- Txs
    Cycles <- MCCycles
    MaxBlockCycles = 1
INVARIANTS
    DiffIsOfDiffPoint
    VerdictsArePathIndependent
    VirtualIsOnItsSink
    SinkIsHeaviestValid
    ResolveFailsOnConflictsOnly
CHECK_DEADLOCK FALSE
