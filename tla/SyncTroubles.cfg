SPECIFICATION Spec
CONSTANTS
    Schemas = {x1}
    Names = {n1}
    Workers = {w1}
    Sessions = {b1}
    IsDefaultDb = TRUE
    Defaults = {d1}
    MaxDefaultChanges = 0
    MaxVersion = 3
    MaxFailures = 1
    MaxSchemaFailures = 1
    MaxRevokes = 1
SYMMETRY Symmetry
PROPERTIES
    DependentsKept
