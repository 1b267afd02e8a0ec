SPECIFICATION FairSpec
CONSTANTS
    A = A
    B = B
    C = C
    t1 = t1
    t2 = t2
    t3 = t3
    t4 = t4
    Exit = Exit
    Threads = 2
    Blocks <- MCBlocks
    Tasks <- MCTasks
    BlockOf <- MCBlockOf
    ParentsOf <- MCParentsOf
INVARIANTS
    OneHandle
    ExitIsLast
PROPERTIES
    ImplementsOrderedStage
    EveryTaskEnds
    ExitPasses
CHECK_DEADLOCK FALSE
