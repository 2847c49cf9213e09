\* Two handlers and two universes: receivers shared, swapped and left.
CONSTANTS
    Handler = {h1, h2}
    Universe = {u1, u2}
    Cid = {c1}
    Info = {i1}
    Level = {0}
    None = None
    MaxConn = 2
    MaxPending = 0
SPECIFICATION FairSpec
INVARIANTS
    TypeOK
    NoDeadReceiver
    HolderIsSubscribed
    UpdateExcludesCopy
PROPERTIES
    RequestCompletes
    CallbackReturns
