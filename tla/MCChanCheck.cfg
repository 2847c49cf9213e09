SPECIFICATION FairSpec
CONSTANTS
    Universe = {1, 2}
    Priority = {0, 100}
    Address = {1, 2}
    FieldValue = {1, 2}
    Level = {0, 255}
    DefaultUniverse = 1
    DefaultPriority = 100
    None = None
    MaxInbox = 1
INVARIANTS TypeOK OnlyOneAddress LiveMatchesConfig PapIsThePriority SilentUnlessStarted
PROPERTY Blinks
