SPECIFICATION Spec
CONSTANTS
    Tables = {t1}
    UnsafeMixed = FALSE
    UnsafeInFunctions = FALSE
    MotherDuckEnabled = TRUE
    MaxCid = 8
    MaxStmts = 2
    MaxNest = 0
    MaxSub = 1
INVARIANTS
    NoMixedBlockCommit
    DdbTxContained
    TempTracked
    BlockAbortLeavesNoTrace
