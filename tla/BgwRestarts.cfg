SPECIFICATION FairSpec
CONSTANTS
    Backends = {b1, b2}
    Workers = {w1, w2}
    None = None
    MaxActivity = 2
    MaxFailures = 2
    MaxHooks = 2
INVARIANTS
    EntryIsOwn
    HintNotLeaked
PROPERTIES
    ActivityIsServed
