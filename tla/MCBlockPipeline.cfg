SPECIFICATION Spec
CONSTANTS
    G = G
    A = A
    B = B
    C = C
    tA = tA
    tB = tB
    tC = tC
    tX = tX
    tY = tY
    Exit = Exit
    MaxCrashes = 1
    Blocks <- MCBlocks
    Genesis = G
    Tasks = {tA, tB, tC, tX, tY}
    BlockOf <- MCBlockOf
    ParentsOf <- MCParentsOf
    Work <- MCWork
    Worlds <- SafetyWorlds
INVARIANTS
    BodiesAreClosedUnderParents
    ParentsSentFirstAreFound
    
    SeenByVirtual
    SinkChainIsValid
CHECK_DEADLOCK FALSE
