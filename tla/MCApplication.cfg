SPECIFICATION FairSpec
CONSTANTS
    Tab = {t1, t2}
    Address = {phone}
    Handler = {"Transmit", "Receive Levels"}
    Port = {40001, 40002}
    None = None
    MaxStarts = 2
    MaxLoads = 3
    MaxBreaks = 2
INVARIANTS TypeOK TableIsTrue
PROPERTIES PageConnects
CHECK_DEADLOCK FALSE
