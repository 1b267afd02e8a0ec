SPECIFICATION Spec
CONSTANTS
    Threads = {a1, a2}
    Worlds <- MCWorlds
INVARIANTS
    NoDoubleSpend
    WithinLimits
    ReadyIsExact
    TemplateIsRecent
SYMMETRY MCSymmetry
CHECK_DEADLOCK FALSE
