SPECIFICATION Spec
CONSTANTS
  w1 = w1
  w2 = w2
  virtual = virtual
  pruner = pruner
  Workers <- MCWorkers
  Virtual = virtual
  Pruner = pruner
  Worlds <- MCWorlds
INVARIANTS NeededIsKept OnlyStaleBlocksPanic
PROPERTIES NothingIsLeft 
CHECK_DEADLOCK FALSE
