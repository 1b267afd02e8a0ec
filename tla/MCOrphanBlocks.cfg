SPECIFICATION Spec
CONSTANT Worlds <- MCWorlds
PROPERTIES
    ReleasedFindTheirParents
    UnorphanIsComplete
CHECK_DEADLOCK FALSE
