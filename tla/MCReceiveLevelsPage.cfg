\* One page, two universes: requests and messages under way in any order.
CONSTANTS
    Handler = {h1}
    Universe = {u1, u2}
    Cid = {c1}
    Info = {i1}
    Level = {0, 1}
    None = None
    MaxConn = 1
    MaxPending = 0
    MaxAsked = 2
    MaxWire = 0
SPECIFICATION PageFairSpec
INVARIANTS
    ViewTypeOK
    PageTypeOK
    DifferencesAddUp
    SourcesReachClient
    
PROPERTIES
    OnlyWatchedLevels
    
