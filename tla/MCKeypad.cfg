SPECIFICATION Spec
CONSTANTS
    Scale = 19
    DMX_MAX = 3
    Digit = {1, 4}
    HexDigit = {15}
    FaderLevel = {2, 255}
    FirstKeys = 7
    LaterKeys = 5
    MaxDigits = 2
    MaxEnters = 2
    MaxOther = 1
INVARIANTS TypeOK BackspaceUndoesKey LastClauseWins
PROPERTIES ShownAsTyped StepsByWhatIsShown ImplementsGrammar
CHECK_DEADLOCK FALSE
