SPECIFICATION Spec
CONSTANTS
    Tab = {t1, t2, t3}
    Address = {phone}
    Handler = {"Receive Levels"}
    Port = {40001}
    None = None
    MaxStarts = 1
    MaxLoads = 3
    MaxBreaks = 1
INVARIANTS EveryPageListed
CHECK_DEADLOCK FALSE
