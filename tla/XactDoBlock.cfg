SPECIFICATION Spec
CONSTANTS
    Tables = {t1}
    UnsafeMixed = FALSE
    UnsafeInFunctions = TRUE
    MotherDuckEnabled = TRUE
    MaxCid = 8
    MaxStmts = 2
    MaxNest = 1
    MaxSub = 0
INVARIANTS
    AbortLeavesNoTrace
