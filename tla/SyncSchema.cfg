SPECIFICATION Spec
CONSTANTS
    Schemas = {x1}
    Names = {n1}
    Workers = {w1}
    Sessions = {}
    IsDefaultDb = TRUE
    Defaults = {d1}
    MaxDefaultChanges = 0
    MaxVersion = 3
    MaxFailures = 0
    MaxSchemaFailures = 0
    MaxRevokes = 1
PROPERTIES
    StillThereKeepsShell
