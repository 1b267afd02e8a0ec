SPECIFICATION Spec
CONSTANTS
    Origin = 0
    None = None
    Blocks <- MCBlocks
    Worlds <- MCWorlds
INVARIANTS
    ChainQueriesAreExact
    DagQueriesAreExact
    NeverFails
    RelationsKeepThePast
CHECK_DEADLOCK FALSE
