SPECIFICATION Spec
CONSTANTS
    Universe = {1, 2}
    Priority = {0, 50, 100}
    Address = {1, 2}
    Level = {0, 254}
    Scale = 2
    Fader = {0, 1, 509}
    DefaultUniverse = 1
    DefaultPriority = 100
    None = None
    MaxInbox = 1
INVARIANTS TypeOK LiveMatchesConfig SilentUnlessStarted LevelsMatchFaders
