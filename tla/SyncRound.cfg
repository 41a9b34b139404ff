SPECIFICATION FairSpec
CONSTANTS
    Schemas = {x1}
    Names = {n1, n2}
    Workers = {w1}
    Sessions = {}
    IsDefaultDb = FALSE
    Defaults = {d1, d2}
    MaxDefaultChanges = 1
    MaxVersion = 3
    MaxFailures = 1
    MaxSchemaFailures = 0
    MaxRevokes = 0
INVARIANTS
    SkipIsSafe
    DefaultFollowed
PROPERTIES
    DropsOnlyDeleted
    Converges
