SPECIFICATION FairSpec
CONSTANTS
    Page = {p1, p2}
    ColorScheme = {"", "dark"}
    LevelDisplay = {"hex", "percent"}
    Unset = Unset
    Invalid = Invalid
    None = None
    MaxRequests = 2
    MaxChanges = 5
INVARIANTS TypeOK SavedIsGiven
PROPERTIES NoWriteWhileDown LoadEnds
CHECK_DEADLOCK FALSE
