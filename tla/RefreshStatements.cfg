SPECIFICATION Spec
CONSTANTS
    MaxGen = 3
    MaxFdw = 2
    MaxTab = 2
    MaxSeq = 3
    Levels = {"read committed", "repeatable read"}
INVARIANTS
    ExtensionsFresh
    DecisionIsCurrent
    SecretsFresh
    UserDataFresh
