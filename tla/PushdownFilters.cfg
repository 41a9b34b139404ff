SPECIFICATION Spec
CONSTANTS
  Null = Null
  Unsupported = Unsupported
  None = None
  MaxDepth = 5
  Inputs <- MCInputs
  Tables <- MCTables
  Collations = {"C", "icu"}
CHECK_DEADLOCK FALSE
INVARIANTS
  FiltersAgree
  OutputAligned
  RefusedForCause
