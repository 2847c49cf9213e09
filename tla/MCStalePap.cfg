SPECIFICATION Spec
CONSTANTS
    Universe = {1, 2}
    Priority = {0, 50, 100}
    Address = {1, 2}
    Level = {0, 254}
    Scale = 2
    Fader = {0, 509}
    DefaultUniverse = 1
    DefaultPriority = 100
    None = None
    MaxInbox = 0
INVARIANT PapIsThePriority
