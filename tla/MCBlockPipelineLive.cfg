SPECIFICATION Spec
CONSTANTS
    G = G
    A = A
    B = B
    C = C
    tA = tA
    tB = tB
    tC = tC
    tX = tX
    tY = tY
    Exit = Exit
    MaxCrashes = 0
    Blocks <- MCBlocks
    Genesis = G
    Tasks = {tA, tB, tC}
    BlockOf <- MCBlockOf
    ParentsOf <- MCParentsOf
    Work <- MCWork
    Worlds <- LiveWorlds
PROPERTIES
    EveryTaskAnswered
    ShutdownCompletes
CHECK_DEADLOCK FALSE
