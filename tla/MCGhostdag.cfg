SPECIFICATION Spec
CONSTANTS
    Size = 6
    KValues = {1, 2}
    Genesis = 0
    Origin = Origin
    Order <- MCOrder
    Worlds <- MCWorlds
INVARIANTS
    BlueSetIsKCluster
    SizesAreExact
    MergesetIsPastInOrder
    RedOnlyIfForced
CHECK_DEADLOCK FALSE
