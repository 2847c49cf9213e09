\* The copy of sources_ against HandleSourcesLost.
CONSTANTS
    Handler = {h1}
    Universe = {u1}
    Cid = {c1}
    Info = {i1}
    Level = {0}
    None = None
    MaxConn = 1
    MaxPending = 0
SPECIFICATION Spec
INVARIANTS
    CopyIsExclusive
