\* Two clients, two universes: whose levels are shown.
CONSTANTS
    Handler = {h1, h2}
    Universe = {u1, u2}
    Cid = {c1}
    Info = {i1}
    Level = {0}
    None = None
    MaxConn = 1
    MaxPending = 0
SPECIFICATION ViewSpec
PROPERTIES
    OnlyWatchedLevels
