SPECIFICATION Spec
CONSTANTS
    Tables = {t1}
    UnsafeMixed = FALSE
    UnsafeInFunctions = TRUE
    MotherDuckEnabled = TRUE
    MaxCid = 6
    MaxStmts = 1
    MaxNest = 1
    MaxSub = 1
INVARIANTS
    NestCoversExecutors
    EvidenceInv
    GlobalsEndWithTransaction
