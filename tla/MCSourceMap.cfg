\* One page, two universes, one source.
CONSTANTS
    Handler = {h1}
    Universe = {u1, u2}
    Cid = {c1}
    None = None
    ShutdownWaits = FALSE
    MaxPending = 1
    MaxWire = 0
    MaxVisits = 2
    MaxChoices = 2
SPECIFICATION MapSpec
INVARIANTS
    TypeOK
    OffersReachClient
    NoPhantomUniverses
    OfferedUntilChoice
